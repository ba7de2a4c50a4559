------------------------------ MODULE LibraryProofs ----------------------------
(***************************************************************************)
(* Proofs about the two services that keep the library up to date: the     *)
(* scans of cloud libraries (CloudScan) and the watcher of local ones      *)
(* (Watcher).                                                              *)
(*                                                                         *)
(* ScanOwnsEntry needs that only the entry of a scan under way has a       *)
(* cancel function: cancelling would otherwise mark a queued entry as      *)
(* "canceling", which no scan would ever end.  QueuedIsExpected needs that *)
(* it is always a "scan all" that will come to the library: the others may *)
(* give up at a library somebody else has queued.                          *)
(*                                                                         *)
(* IndexMatchesDisk says nothing about the path under way, so it needs     *)
(* Informed to survive the end of an update: what the update has read of   *)
(* its file is true as long as the path has not been marked again.         *)
(***************************************************************************)
EXTENDS CloudScan, Watcher, TLAPS

(* The form of a goroutine, and when an entry has a cancel function. *)
ScanShape ==
  /\ \A r \in Scanners :
       /\ scanner[r].pc = "begin" => scanner[r].lib \in Libs
       /\ scanner[r].pc = "idle" => scanner[r].kind = "single"
       /\ scanner[r].todo # {} => scanner[r].kind = "all"
  /\ \A l \in Libs : holder[l] # NoScanner => BlocksBegin(entry[l])

Expects(r, l) ==
  /\ scanner[r].kind = "all"
  /\ l \in scanner[r].rest \/ (scanner[r].pc = "begin" /\ scanner[r].lib = l)

ExpectedByAll ==
  \A l \in Libs \ forsaken : entry[l] = "queued" => \E r \in Scanners : Expects(r, l)

ScanInv == ScanTypeOK /\ ScanOwnsEntry /\ ScanShape /\ ExpectedByAll

ScannerRec ==
  [pc : {"idle", "queueing", "next", "begin", "wait", "scan", "release"},
   kind : {"single", "all", "job"}, lib : Libs \union {NoLib},
   todo : SUBSET Libs, rest : SUBSET Libs, late : BOOLEAN, stop : BOOLEAN]

States == {"none", "queued", "running", "canceling", "canceled", "finished", "error"}

LEMMA InitScanInv == ScanInit => ScanInv
<1> SUFFICES ASSUME ScanInit PROVE ScanInv OBVIOUS
<1>1. ScanTypeOK BY ScanAssumption DEF ScanInit, ScanTypeOK, ScannerIdle
<1>2. ScanOwnsEntry BY DEF ScanInit, ScanOwnsEntry, InProgress, BlocksBegin, ScannerIdle
<1>3. ScanShape BY DEF ScanInit, ScanShape, ScannerIdle
<1>4. ExpectedByAll BY DEF ScanInit, ExpectedByAll
<1> QED BY <1>1, <1>2, <1>3, <1>4 DEF ScanInv

-----------------------------------------------------------------------------
(* A step of one goroutine that stays out of, or in, its scan and changes  *)
(* no entry. *)
LEMMA QuietStep ==
  ASSUME ScanInv, NEW r \in Scanners, NEW c \in ScannerRec,
         scanner' = [scanner EXCEPT ![r] = c],
         UNCHANGED <<entry, holder>>, slot' \in Scanners \union {NoScanner},
         syncing' \in BOOLEAN, forsaken' \subseteq Libs, forsaken \subseteq forsaken',
         InProgress(r) <=> c.pc \in {"wait", "scan"},
         InProgress(r) => c.lib = scanner[r].lib,
         c.pc = "begin" => c.lib \in Libs,
         c.pc = "idle" => c.kind = "single",
         c.todo # {} => c.kind = "all",
         \A l \in Libs : Expects(r, l) /\ entry[l] = "queued" /\ l \notin forsaken' =>
           c.kind = "all" /\ (l \in c.rest \/ (c.pc = "begin" /\ c.lib = l))
  PROVE  ScanInv'
<1> USE DEF ScanInv
<1>1. scanner'[r] = c /\ \A q \in Scanners \ {r} : scanner'[q] = scanner[q] BY DEF ScanTypeOK
<1>2. ScanTypeOK' BY DEF ScanTypeOK, ScannerRec
<1>3. \A q \in Scanners : InProgress(q)' = InProgress(q) BY <1>1 DEF InProgress
<1>4. \A q \in Scanners : InProgress(q) => scanner'[q].lib = scanner[q].lib BY <1>1
<1>5. ScanOwnsEntry' BY <1>3, <1>4 DEF ScanOwnsEntry, BlocksBegin, ScanTypeOK
<1>6. ScanShape' BY <1>1 DEF ScanShape, BlocksBegin
<1>7. ExpectedByAll'
  <2> SUFFICES ASSUME NEW l \in Libs, entry[l] = "queued", l \notin forsaken'
               PROVE  \E q \in Scanners : Expects(q, l)'
    BY DEF ExpectedByAll
  <2>1. PICK q \in Scanners : Expects(q, l) BY DEF ExpectedByAll
  <2>2. Expects(q, l)' BY <1>1, <2>1 DEF Expects
  <2> QED BY <2>2
<1> QED BY <1>2, <1>5, <1>6, <1>7

(* The end of a scan: it takes the entry it owns out of "running" and      *)
(* touches no other. *)
LEMMA FinishStep ==
  ASSUME ScanInv, NEW r \in Scanners, NEW c \in ScannerRec, InProgress(r),
         NEW state \in {"canceled", "error", "finished"},
         FinishCloudScan(scanner[r].lib, state),
         scanner' = [scanner EXCEPT ![r] = c],
         UNCHANGED slot,
         c.pc \notin {"begin", "wait", "scan"},
         c.pc = "idle" => c.kind = "single",
         c.todo # {} => c.kind = "all",
         \A l \in Libs : Expects(r, l) => c.kind = "all" /\ l \in c.rest
  PROVE  ScanInv'
<1> DEFINE lib == scanner[r].lib
<1> USE DEF ScanInv, FinishCloudScan
<1>1. scanner'[r] = c /\ \A q \in Scanners \ {r} : scanner'[q] = scanner[q] BY DEF ScanTypeOK
<1>2. lib \in Libs /\ holder[lib] = r BY DEF ScanOwnsEntry
<1>3. /\ entry'[lib] = state /\ holder'[lib] = NoScanner
      /\ \A l \in Libs \ {lib} : entry'[l] = entry[l] /\ holder'[l] = holder[l]
  BY <1>2 DEF ScanTypeOK
<1>4. ScanTypeOK' BY <1>2 DEF ScanTypeOK, ScannerRec
<1>5. ~InProgress(r)' /\ \A q \in Scanners \ {r} : InProgress(q)' = InProgress(q)
  BY <1>1 DEF InProgress
<1>6. ScanOwnsEntry'
  <2>1. ASSUME NEW q \in Scanners, InProgress(q)'
        PROVE  scanner'[q].lib \in Libs /\ BlocksBegin(entry'[scanner'[q].lib]) /\ holder'[scanner'[q].lib] = q
    <3>1. q # r /\ InProgress(q) /\ scanner'[q].lib = scanner[q].lib BY <1>1, <1>5, <2>1
    <3>2. scanner[q].lib # lib BY <1>2, <3>1 DEF ScanOwnsEntry
    <3> QED BY <1>3, <3>1, <3>2 DEF ScanOwnsEntry, BlocksBegin
  <2>2. ASSUME NEW l \in Libs, BlocksBegin(entry'[l])
        PROVE  holder'[l] # NoScanner /\ scanner'[holder'[l]].pc \in {"wait", "scan"} /\ scanner'[holder'[l]].lib = l
    <3>1. l # lib BY <1>3, <2>2 DEF BlocksBegin
    <3>2. holder[l] # NoScanner /\ InProgress(holder[l]) /\ scanner[holder[l]].lib = l
      BY <1>3, <2>2, <3>1 DEF ScanOwnsEntry
    <3>3. holder[l] \in Scanners \ {r} BY <3>1, <3>2 DEF ScanTypeOK
    <3> QED BY <1>1, <1>3, <3>1, <3>2, <3>3 DEF InProgress
  <2> QED BY <2>1, <2>2 DEF ScanOwnsEntry, InProgress
<1>7. ScanShape' BY <1>1, <1>3 DEF ScanShape, BlocksBegin
<1>8. ExpectedByAll'
  <2> SUFFICES ASSUME NEW l \in Libs, entry'[l] = "queued", l \notin forsaken
               PROVE  \E q \in Scanners : Expects(q, l)'
    BY DEF ExpectedByAll
  <2>1. entry[l] = "queued" BY <1>3
  <2>2. PICK q \in Scanners : Expects(q, l) BY <2>1 DEF ExpectedByAll
  <2>3. Expects(q, l)' BY <1>1, <2>2 DEF Expects
  <2> QED BY <2>3
<1> QED BY <1>4, <1>6, <1>7, <1>8

-----------------------------------------------------------------------------
(* Requests and the scheduler *)

LEMMA StartInv ==
  ASSUME ScanInv, NEW r \in Scanners,
         \/ \E l \in Libs : StartCloudLibraryScan(r, l)
         \/ StartAllCloudLibraryScans(r) \/ BeginCloudSync(r)
  PROVE  ScanInv'
<1> USE DEF ScanInv
<1>1. ~InProgress(r) /\ scanner[r].pc = "idle"
  BY DEF StartCloudLibraryScan, StartAllCloudLibraryScans, BeginCloudSync, InProgress
<1>2. \A l \in Libs : ~Expects(r, l) BY <1>1 DEF Expects, ScanShape
<1>3. ASSUME NEW l \in Libs, StartCloudLibraryScan(r, l) PROVE ScanInv'
  <2> DEFINE c == [ScannerIdle EXCEPT !.pc = "begin", !.lib = l]
  <2>1. c \in ScannerRec /\ c.pc = "begin" /\ c.lib = l /\ c.todo = {} BY DEF ScannerRec, ScannerIdle
  <2>2. scanner' = [scanner EXCEPT ![r] = c] BY <1>3 DEF StartCloudLibraryScan
  <2> HIDE DEF c
  <2> QED BY <1>1, <1>2, <1>3, <2>1, <2>2, QuietStep DEF StartCloudLibraryScan, ScanTypeOK
<1>4. CASE StartAllCloudLibraryScans(r)
  <2> DEFINE c == [ScannerIdle EXCEPT !.pc = "queueing", !.kind = "all", !.todo = Libs]
  <2>1. c \in ScannerRec /\ c.pc = "queueing" /\ c.kind = "all"
    BY DEF ScannerRec, ScannerIdle
  <2>2. scanner' = [scanner EXCEPT ![r] = c] BY <1>4 DEF StartAllCloudLibraryScans
  <2> HIDE DEF c
  <2>3. /\ slot' \in Scanners \union {NoScanner} /\ syncing' \in BOOLEAN /\ forsaken' \subseteq Libs /\ (forsaken \subseteq forsaken')
        /\ UNCHANGED <<entry, holder>>
    BY <1>4 DEF StartAllCloudLibraryScans, ScanTypeOK
  <2> HIDE DEF ScanInv
  <2> QED BY <1>1, <1>2, <1>4, <2>1, <2>2, <2>3, QuietStep
<1>5. CASE BeginCloudSync(r)
  <2> DEFINE c == [ScannerIdle EXCEPT !.pc = "next", !.kind = "job", !.rest = Libs]
  <2>1. c \in ScannerRec /\ c.pc = "next" /\ c.todo = {}
    BY DEF ScannerRec, ScannerIdle
  <2>2. scanner' = [scanner EXCEPT ![r] = c] BY <1>5 DEF BeginCloudSync
  <2> HIDE DEF c
  <2> QED BY <1>1, <1>2, <1>5, <2>1, <2>2, QuietStep DEF BeginCloudSync, ScanTypeOK
<1> QED BY <1>3, <1>4, <1>5

(* Only an entry without a scan is marked queued, and by the "scan all"    *)
(* that has just put it on its list.                                       *)
LEMMA QueueInv ==
  ASSUME ScanInv, NEW r \in Scanners, NEW l \in Libs, QueueCloudLibraryScan(r, l)
  PROVE  ScanInv'
<1> USE DEF ScanInv, QueueCloudLibraryScan
<1>1. scanner[r] \in ScannerRec BY DEF ScanTypeOK, ScannerRec
<1>2. CASE ScanActive(entry[l])
  <2> DEFINE c == [scanner[r] EXCEPT !.todo = @ \ {l}]
  <2>1. /\ c \in ScannerRec /\ c.pc = scanner[r].pc /\ c.lib = scanner[r].lib
        /\ c.kind = scanner[r].kind /\ c.rest = scanner[r].rest /\ c.todo = scanner[r].todo \ {l}
    BY <1>1 DEF ScannerRec
  <2>2. scanner' = [scanner EXCEPT ![r] = c] BY <1>2
  <2> HIDE DEF c
  <2>3. InProgress(r) <=> c.pc \in {"wait", "scan"} BY <2>1 DEF InProgress
  <2>4. \A k \in Libs : Expects(r, k) => c.kind = "all" /\ (k \in c.rest \/ (c.pc = "begin" /\ c.lib = k))
    BY <2>1 DEF Expects
  <2>5. /\ c.pc = "begin" => c.lib \in Libs
        /\ c.pc = "idle" => c.kind = "single"
        /\ c.todo # {} => c.kind = "all"
    BY <2>1 DEF ScanShape
  <2> QED BY <1>2, <2>1, <2>2, <2>3, <2>4, <2>5, QuietStep DEF ScanTypeOK
<1>3. CASE ~ScanActive(entry[l])
  <2> DEFINE c == [scanner[r] EXCEPT !.todo = @ \ {l}, !.rest = @ \union {l}]
  <2>1. /\ c \in ScannerRec /\ c.pc = scanner[r].pc /\ c.lib = scanner[r].lib
        /\ c.kind = scanner[r].kind /\ c.rest = scanner[r].rest \union {l} /\ c.todo = scanner[r].todo \ {l}
    BY <1>1 DEF ScannerRec
  <2>2. scanner' = [scanner EXCEPT ![r] = c] BY <1>3
  <2> HIDE DEF c
  <2>3. scanner'[r] = c /\ \A q \in Scanners \ {r} : scanner'[q] = scanner[q] BY <2>2 DEF ScanTypeOK
  <2>4. /\ entry'[l] = "queued" /\ holder'[l] = NoScanner
        /\ \A k \in Libs \ {l} : entry'[k] = entry[k] /\ holder'[k] = holder[k]
    BY <1>3 DEF ScanTypeOK
  <2>5. ScanTypeOK' BY <1>3, <2>1, <2>2 DEF ScanTypeOK, ScannerRec
  <2>6. \A q \in Scanners : InProgress(q)' = InProgress(q) /\ scanner'[q].lib = scanner[q].lib
    BY <2>1, <2>3 DEF InProgress
  <2>7. ~BlocksBegin(entry[l]) BY <1>3 DEF ScanActive, BlocksBegin
  <2>8. ScanOwnsEntry'
    <3>1. \A q \in Scanners : InProgress(q) => scanner[q].lib \in Libs \ {l} BY <2>7 DEF ScanOwnsEntry
    <3>2. \A k \in Libs : BlocksBegin(entry'[k]) => k # l BY <2>4 DEF BlocksBegin
    <3> QED BY <2>4, <2>6, <3>1, <3>2 DEF ScanOwnsEntry, BlocksBegin, ScanTypeOK
  <2>9. ScanShape' BY <2>1, <2>3, <2>4 DEF ScanShape, BlocksBegin
  <2>10. ExpectedByAll'
    <3> SUFFICES ASSUME NEW k \in Libs, entry'[k] = "queued", k \notin forsaken'
                 PROVE  \E q \in Scanners : Expects(q, k)'
      BY DEF ExpectedByAll
    <3>1. CASE k = l
      <4>1. scanner[r].kind = "all" BY DEF ScanShape
      <4>2. Expects(r, k)' BY <2>1, <2>3, <3>1, <4>1 DEF Expects
      <4> QED BY <4>2
    <3>2. CASE k # l
      <4>1. PICK q \in Scanners : Expects(q, k) BY <1>3, <2>4, <3>2 DEF ExpectedByAll
      <4>2. Expects(q, k)' BY <2>1, <2>3, <4>1 DEF Expects
      <4> QED BY <4>2
    <3> QED BY <3>1, <3>2
  <2> QED BY <2>5, <2>8, <2>9, <2>10
<1> QED BY <1>2, <1>3

(* An entry without a cancel function has no scan. *)
LEMMA CancelInv ==
  ASSUME ScanInv, NEW S \in SUBSET Libs, CancelCloudScans(S)
  PROVE  ScanInv'
<1> DEFINE hit == {l \in S : ScanActive(entry[l])}
<1> USE DEF ScanInv, CancelCloudScans
<1>1. \A r \in Scanners : scanner[r] \in ScannerRec BY DEF ScanTypeOK, ScannerRec
<1>2. ASSUME NEW r \in Scanners
      PROVE  /\ scanner'[r] \in ScannerRec /\ scanner'[r].pc = scanner[r].pc
             /\ scanner'[r].kind = scanner[r].kind /\ scanner'[r].lib = scanner[r].lib
             /\ scanner'[r].todo = scanner[r].todo /\ scanner'[r].rest = scanner[r].rest
  BY <1>1 DEF ScannerRec
<1>3. \A l \in Libs : entry'[l] = IF l \notin hit THEN entry[l]
                                  ELSE IF holder[l] = NoScanner THEN "canceled" ELSE "canceling"
  BY DEF ScanTypeOK
<1>4. ScanTypeOK'
  <2>1. entry' \in [Libs -> States] BY DEF ScanTypeOK, States
  <2>2. scanner' \in [Scanners -> ScannerRec] BY <1>2
  <2> QED BY <2>1, <2>2 DEF ScanTypeOK, States, ScannerRec
<1>5. \A r \in Scanners : InProgress(r)' = InProgress(r) BY <1>2 DEF InProgress
<1>6. \A l \in Libs : BlocksBegin(entry[l]) => holder[l] # NoScanner BY DEF ScanOwnsEntry
<1>7. \A l \in Libs : BlocksBegin(entry'[l]) <=> BlocksBegin(entry[l])
  BY <1>3, <1>6 DEF BlocksBegin, ScanActive, ScanShape
<1>8. ScanOwnsEntry' BY <1>2, <1>5, <1>7 DEF ScanOwnsEntry, ScanTypeOK
<1>9. ScanShape' BY <1>2, <1>7 DEF ScanShape
<1>10. ExpectedByAll'
  <2> SUFFICES ASSUME NEW l \in Libs, entry'[l] = "queued", l \notin forsaken
               PROVE  \E q \in Scanners : Expects(q, l)'
    BY DEF ExpectedByAll
  <2>1. entry[l] = "queued" BY <1>3
  <2>2. PICK q \in Scanners : Expects(q, l) BY <2>1 DEF ExpectedByAll
  <2>3. Expects(q, l)' BY <1>2, <2>2 DEF Expects
  <2> QED BY <2>3
<1> QED BY <1>4, <1>8, <1>9, <1>10

-----------------------------------------------------------------------------
(* The goroutines *)

LEMMA TimeIsOverInv ==
  ASSUME ScanInv, NEW r \in Scanners, TimeIsOver(r)
  PROVE  ScanInv'
<1> DEFINE c == [scanner[r] EXCEPT !.late = TRUE]
<1> USE DEF ScanInv
<1>1. /\ c \in ScannerRec /\ c.pc = scanner[r].pc /\ c.lib = scanner[r].lib
      /\ c.kind = scanner[r].kind /\ c.rest = scanner[r].rest /\ c.todo = scanner[r].todo
  BY DEF ScanTypeOK, ScannerRec
<1>2. scanner' = [scanner EXCEPT ![r] = c] BY DEF TimeIsOver
<1> HIDE DEF c
<1>3. InProgress(r) <=> c.pc \in {"wait", "scan"} BY <1>1 DEF InProgress
<1>4. \A k \in Libs : Expects(r, k) => c.kind = "all" /\ (k \in c.rest \/ (c.pc = "begin" /\ c.lib = k))
  BY <1>1 DEF Expects
<1>5. /\ c.pc = "begin" => c.lib \in Libs
      /\ c.pc = "idle" => c.kind = "single"
      /\ c.todo # {} => c.kind = "all"
  BY <1>1 DEF ScanShape
<1>6. /\ slot' \in Scanners \union {NoScanner} /\ syncing' \in BOOLEAN /\ forsaken' \subseteq Libs /\ (forsaken \subseteq forsaken')
      /\ UNCHANGED <<entry, holder>>
  BY DEF TimeIsOver, ScanTypeOK
<1> HIDE DEF ScanInv
<1> QED BY <1>1, <1>2, <1>3, <1>4, <1>5, <1>6, QuietStep

LEMMA NextLibraryInv ==
  ASSUME ScanInv, NEW r \in Scanners, NEW l \in Libs, NextLibrary(r, l)
  PROVE  ScanInv'
<1> USE DEF ScanInv
<1>1. scanner[r] \in ScannerRec BY DEF ScanTypeOK, ScannerRec
<1>2. CASE scanner[r].kind = "all" /\ entry[l] = "canceled"
  <2> DEFINE c == [scanner[r] EXCEPT !.pc = "next", !.rest = @ \ {l}]
  <2>1. /\ c \in ScannerRec /\ c.pc = "next" /\ c.kind = scanner[r].kind
        /\ c.rest = scanner[r].rest \ {l} /\ c.todo = scanner[r].todo
    BY <1>1 DEF ScannerRec
  <2>2. scanner' = [scanner EXCEPT ![r] = c] BY <1>2 DEF NextLibrary
  <2> HIDE DEF c
  <2>3. \A k \in Libs : Expects(r, k) /\ entry[k] = "queued" => c.kind = "all" /\ k \in c.rest
    BY <1>2, <2>1 DEF Expects, NextLibrary
  <2>4. ~InProgress(r) BY DEF NextLibrary, InProgress
  <2>5. c.todo # {} => c.kind = "all" BY <2>1 DEF ScanShape
  <2> QED BY <2>1, <2>2, <2>3, <2>4, <2>5, QuietStep DEF NextLibrary, ScanTypeOK
<1>3. CASE ~(scanner[r].kind = "all" /\ entry[l] = "canceled")
  <2> DEFINE c == [scanner[r] EXCEPT !.pc = "begin", !.rest = @ \ {l}, !.lib = l]
  <2>1. /\ c \in ScannerRec /\ c.pc = "begin" /\ c.kind = scanner[r].kind /\ c.lib = l
        /\ c.rest = scanner[r].rest \ {l} /\ c.todo = scanner[r].todo
    BY <1>1 DEF ScannerRec
  <2>2. scanner' = [scanner EXCEPT ![r] = c] BY <1>3 DEF NextLibrary
  <2> HIDE DEF c
  <2>3. \A k \in Libs : Expects(r, k) => c.kind = "all" /\ (k \in c.rest \/ c.lib = k)
    BY <2>1 DEF Expects, NextLibrary
  <2>4. ~InProgress(r) BY DEF NextLibrary, InProgress
  <2>5. c.todo # {} => c.kind = "all" BY <2>1 DEF ScanShape
  <2> QED BY <2>1, <2>2, <2>3, <2>4, <2>5, QuietStep DEF NextLibrary, ScanTypeOK
<1> QED BY <1>2, <1>3

(* A "scan all" that ends early gives up the rest. *)
LEMMA EndScannerInv ==
  ASSUME ScanInv, NEW r \in Scanners, EndScanner(r)
  PROVE  ScanInv'
<1> USE DEF ScanInv
<1>1. ScannerIdle \in ScannerRec /\ ScannerIdle.pc = "idle" /\ ScannerIdle.kind = "single" /\ ScannerIdle.todo = {}
  BY DEF ScannerIdle, ScannerRec
<1>2. scanner' = [scanner EXCEPT ![r] = ScannerIdle] BY DEF EndScanner
<1>3. ~InProgress(r) BY DEF EndScanner, InProgress
<1>4. \A k \in Libs : Expects(r, k) => k \in forsaken' BY DEF EndScanner, Expects
<1>5. syncing' \in BOOLEAN /\ forsaken' \subseteq Libs /\ (forsaken \subseteq forsaken')
  BY DEF EndScanner, ScanTypeOK
<1> QED BY <1>1, <1>2, <1>3, <1>4, <1>5, QuietStep DEF EndScanner, ScanTypeOK

(* What ToNext leaves of a goroutine. *)
LEMMA ToNextRec ==
  ASSUME ScanInv, NEW r \in Scanners
  PROVE  \E c \in ScannerRec :
           /\ ToNext(r) = [scanner EXCEPT ![r] = c]
           /\ c.pc \in {"idle", "next"}
           /\ c.pc = "idle" => c.kind = "single"
           /\ c.todo # {} => c.kind = "all"
           /\ scanner[r].kind = "all" => c.kind = "all" /\ c.rest = scanner[r].rest
<1> USE DEF ScanInv
<1>1. scanner[r] \in ScannerRec BY DEF ScanTypeOK, ScannerRec
<1>2. CASE scanner[r].kind = "single"
  <2>1. ScannerIdle \in ScannerRec /\ ScannerIdle.pc = "idle" /\ ScannerIdle.kind = "single" /\ ScannerIdle.todo = {}
    BY DEF ScannerIdle, ScannerRec
  <2>2. ToNext(r) = [scanner EXCEPT ![r] = ScannerIdle] BY <1>2 DEF ToNext, ScanTypeOK
  <2> QED BY <1>2, <2>1, <2>2
<1>3. CASE scanner[r].kind # "single"
  <2> DEFINE c == [scanner[r] EXCEPT !.pc = "next", !.lib = NoLib, !.stop = FALSE]
  <2>1. /\ c \in ScannerRec /\ c.pc = "next" /\ c.kind = scanner[r].kind
        /\ c.todo = scanner[r].todo /\ c.rest = scanner[r].rest
    BY <1>1 DEF ScannerRec
  <2>2. ToNext(r) = [scanner EXCEPT ![r] = c] BY <1>3 DEF ToNext, ScanTypeOK
  <2>3. c.todo # {} => c.kind = "all" BY <2>1 DEF ScanShape
  <2> QED BY <2>1, <2>2, <2>3
<1> QED BY <1>2, <1>3

LEMMA RefuseInv ==
  ASSUME ScanInv, NEW r \in Scanners, RefuseCloudScan(r)
  PROVE  ScanInv'
<1> USE DEF ScanInv
<1>1. ~InProgress(r) BY DEF RefuseCloudScan, InProgress
<1>2. PICK c \in ScannerRec :
         /\ ToNext(r) = [scanner EXCEPT ![r] = c]
         /\ c.pc \in {"idle", "next"}
         /\ c.pc = "idle" => c.kind = "single"
         /\ c.todo # {} => c.kind = "all"
         /\ scanner[r].kind = "all" => c.kind = "all" /\ c.rest = scanner[r].rest
  BY ToNextRec
<1>3. scanner' = [scanner EXCEPT ![r] = c] BY <1>2 DEF RefuseCloudScan
<1>4. \A k \in Libs : Expects(r, k) /\ entry[k] = "queued" /\ k \notin forsaken' => c.kind = "all" /\ k \in c.rest
  BY <1>2 DEF Expects, RefuseCloudScan, BlocksBegin
<1>5. forsaken' \subseteq Libs /\ (forsaken \subseteq forsaken') /\ UNCHANGED <<entry, holder>>
  BY DEF RefuseCloudScan, ScanTypeOK, ScanShape
<1> QED BY <1>1, <1>2, <1>3, <1>4, <1>5, QuietStep DEF RefuseCloudScan, ScanTypeOK

LEMMA BeginInv ==
  ASSUME ScanInv, NEW r \in Scanners, BeginCloudScan(r)
  PROVE  ScanInv'
<1> DEFINE l == scanner[r].lib
<1> USE DEF ScanInv
<1>a. scanner[r] \in ScannerRec /\ l \in Libs /\ ~InProgress(r) /\ ~BlocksBegin(entry[l])
  BY DEF ScanTypeOK, ScannerRec, BeginCloudScan, ScanShape, InProgress
<1> DEFINE c == [scanner[r] EXCEPT !.pc = "wait"]
<1>1. /\ c \in ScannerRec /\ c.pc = "wait" /\ c.lib = l /\ c.kind = scanner[r].kind
      /\ c.todo = scanner[r].todo /\ c.rest = scanner[r].rest
  BY <1>a DEF ScannerRec
<1>2. /\ scanner' = [scanner EXCEPT ![r] = c] /\ entry' = [entry EXCEPT ![l] = "running"]
      /\ holder' = [holder EXCEPT ![l] = r] /\ UNCHANGED <<forsaken, slot, syncing>>
  BY <1>a DEF BeginCloudScan
<1> HIDE DEF c
<1>3. scanner'[r] = c /\ \A q \in Scanners \ {r} : scanner'[q] = scanner[q] BY <1>2 DEF ScanTypeOK
<1>4. /\ entry'[l] = "running" /\ holder'[l] = r
      /\ \A k \in Libs \ {l} : entry'[k] = entry[k] /\ holder'[k] = holder[k]
  BY <1>a, <1>2 DEF ScanTypeOK
<1>5. ScanTypeOK' BY <1>a, <1>1, <1>2 DEF ScanTypeOK, ScannerRec
<1>6. InProgress(r)' /\ \A q \in Scanners \ {r} : InProgress(q)' = InProgress(q)
  BY <1>1, <1>3 DEF InProgress
<1>7. ScanOwnsEntry'
  <2>1. ASSUME NEW q \in Scanners, InProgress(q)'
        PROVE  scanner'[q].lib \in Libs /\ BlocksBegin(entry'[scanner'[q].lib]) /\ holder'[scanner'[q].lib] = q
    <3>1. CASE q = r BY <1>a, <1>1, <1>3, <1>4, <3>1 DEF BlocksBegin
    <3>2. CASE q # r
      <4>1. InProgress(q) /\ scanner'[q] = scanner[q] BY <1>3, <1>6, <2>1, <3>2
      <4>2. scanner[q].lib \in Libs \ {l} BY <1>a, <4>1 DEF ScanOwnsEntry
      <4> QED BY <1>4, <4>1, <4>2 DEF ScanOwnsEntry
    <3> QED BY <3>1, <3>2
  <2>2. ASSUME NEW k \in Libs, BlocksBegin(entry'[k])
        PROVE  holder'[k] # NoScanner /\ scanner'[holder'[k]].pc \in {"wait", "scan"} /\ scanner'[holder'[k]].lib = k
    <3>1. CASE k = l BY ScanAssumption, <1>1, <1>3, <1>4, <3>1
    <3>2. CASE k # l
      <4>1. holder[k] \in Scanners /\ InProgress(holder[k]) /\ scanner[holder[k]].lib = k
        BY <1>4, <2>2, <3>2 DEF ScanOwnsEntry, ScanTypeOK
      <4>2. holder[k] # r BY <1>a, <4>1
      <4> QED BY ScanAssumption, <1>3, <1>4, <3>2, <4>1, <4>2 DEF InProgress
    <3> QED BY <3>1, <3>2
  <2> QED BY <2>1, <2>2 DEF ScanOwnsEntry, InProgress
<1>8. ScanShape' BY <1>1, <1>3, <1>4 DEF ScanShape, BlocksBegin
<1>9. ExpectedByAll'
  <2> SUFFICES ASSUME NEW k \in Libs, entry'[k] = "queued", k \notin forsaken
               PROVE  \E q \in Scanners : Expects(q, k)'
    BY <1>2 DEF ExpectedByAll
  <2>1. k # l /\ entry[k] = "queued" BY <1>4
  <2>2. PICK q \in Scanners : Expects(q, k) BY <2>1 DEF ExpectedByAll
  <2>3. Expects(q, k)' BY <1>1, <1>3, <2>1, <2>2 DEF Expects
  <2> QED BY <2>3
<1> QED BY <1>5, <1>7, <1>8, <1>9

LEMMA AcquireInv ==
  ASSUME ScanInv, NEW r \in Scanners, AcquireCloudScanSlot(r)
  PROVE  ScanInv'
<1> DEFINE c == [scanner[r] EXCEPT !.pc = "scan"]
<1> USE DEF ScanInv
<1>1. /\ c \in ScannerRec /\ c.pc = "scan" /\ c.lib = scanner[r].lib
      /\ c.kind = scanner[r].kind /\ c.rest = scanner[r].rest /\ c.todo = scanner[r].todo
  BY DEF ScanTypeOK, ScannerRec
<1>2. scanner' = [scanner EXCEPT ![r] = c] BY DEF AcquireCloudScanSlot
<1> HIDE DEF c
<1>3. InProgress(r) BY DEF InProgress, AcquireCloudScanSlot
<1>4. \A k \in Libs : Expects(r, k) => c.kind = "all" /\ k \in c.rest
  BY <1>1 DEF Expects, AcquireCloudScanSlot
<1>5. c.todo # {} => c.kind = "all" BY <1>1 DEF ScanShape
<1>6. /\ slot' \in Scanners \union {NoScanner} /\ syncing' \in BOOLEAN /\ forsaken' \subseteq Libs /\ (forsaken \subseteq forsaken')
      /\ UNCHANGED <<entry, holder>>
  BY DEF AcquireCloudScanSlot, ScanTypeOK
<1> HIDE DEF ScanInv
<1> QED BY <1>1, <1>2, <1>3, <1>4, <1>5, <1>6, QuietStep

LEMMA GiveUpInv ==
  ASSUME ScanInv, NEW r \in Scanners, GiveUpSlot(r)
  PROVE  ScanInv'
<1>1. PICK c \in ScannerRec :
         /\ ToNext(r) = [scanner EXCEPT ![r] = c]
         /\ c.pc \in {"idle", "next"}
         /\ c.pc = "idle" => c.kind = "single"
         /\ c.todo # {} => c.kind = "all"
         /\ scanner[r].kind = "all" => c.kind = "all" /\ c.rest = scanner[r].rest
  BY ToNextRec
<1>2. PICK state \in {"canceled", "error", "finished"} : FinishCloudScan(scanner[r].lib, state)
  BY DEF GiveUpSlot
<1>3. InProgress(r) BY DEF InProgress, GiveUpSlot
<1>4. \A k \in Libs : Expects(r, k) => c.kind = "all" /\ k \in c.rest BY <1>1 DEF Expects, GiveUpSlot
<1> QED BY <1>1, <1>2, <1>3, <1>4, FinishStep DEF GiveUpSlot

LEMMA EndInv ==
  ASSUME ScanInv, NEW r \in Scanners, EndCloudScan(r)
  PROVE  ScanInv'
<1> DEFINE c == [scanner[r] EXCEPT !.pc = "release"]
<1> USE DEF ScanInv
<1>1. /\ c \in ScannerRec /\ c.pc = "release"
      /\ c.kind = scanner[r].kind /\ c.rest = scanner[r].rest /\ c.todo = scanner[r].todo
  BY DEF ScanTypeOK, ScannerRec
<1>2. scanner' = [scanner EXCEPT ![r] = c] BY DEF EndCloudScan
<1> HIDE DEF c
<1>3. PICK state \in {"canceled", "error", "finished"} : FinishCloudScan(scanner[r].lib, state)
  BY DEF EndCloudScan
<1>4. InProgress(r) BY DEF InProgress, EndCloudScan
<1>5. \A k \in Libs : Expects(r, k) => c.kind = "all" /\ k \in c.rest BY <1>1 DEF Expects, EndCloudScan
<1>6. c.todo # {} => c.kind = "all" BY <1>1 DEF ScanShape
<1> QED BY <1>1, <1>2, <1>3, <1>4, <1>5, <1>6, FinishStep DEF EndCloudScan

LEMMA ReleaseInv ==
  ASSUME ScanInv, NEW r \in Scanners, ReleaseCloudScanSlot(r)
  PROVE  ScanInv'
<1> USE DEF ScanInv
<1>1. PICK c \in ScannerRec :
         /\ ToNext(r) = [scanner EXCEPT ![r] = c]
         /\ c.pc \in {"idle", "next"}
         /\ c.pc = "idle" => c.kind = "single"
         /\ c.todo # {} => c.kind = "all"
         /\ scanner[r].kind = "all" => c.kind = "all" /\ c.rest = scanner[r].rest
  BY ToNextRec
<1>2. ~InProgress(r) BY DEF InProgress, ReleaseCloudScanSlot
<1>3. \A k \in Libs : Expects(r, k) => c.kind = "all" /\ k \in c.rest
  BY <1>1 DEF Expects, ReleaseCloudScanSlot
<1>4. /\ slot' \in Scanners \union {NoScanner} /\ syncing' \in BOOLEAN /\ forsaken' \subseteq Libs /\ (forsaken \subseteq forsaken')
      /\ UNCHANGED <<entry, holder>>
      /\ scanner' = [scanner EXCEPT ![r] = c]
  BY <1>1 DEF ReleaseCloudScanSlot, ScanTypeOK
<1> HIDE DEF ScanInv
<1> QED BY <1>1, <1>2, <1>3, <1>4, QuietStep

-----------------------------------------------------------------------------
LEMMA StepScanInv == ScanInv /\ [ScanNext]_ScanVars => ScanInv'
<1> SUFFICES ASSUME ScanInv, [ScanNext]_ScanVars PROVE ScanInv' OBVIOUS
<1>1. ASSUME NEW S \in SUBSET Libs, CancelCloudScans(S) PROVE ScanInv' BY <1>1, CancelInv
<1>2. ASSUME NEW r \in Scanners,
             \/ \E l \in Libs : StartCloudLibraryScan(r, l)
             \/ StartAllCloudLibraryScans(r) \/ BeginCloudSync(r)
      PROVE  ScanInv'
  BY <1>2, StartInv
<1>3. ASSUME NEW r \in Scanners, NEW l \in Libs, QueueCloudLibraryScan(r, l) PROVE ScanInv' BY <1>3, QueueInv
<1>4. ASSUME NEW r \in Scanners, TimeIsOver(r) PROVE ScanInv' BY <1>4, TimeIsOverInv
<1>5. ASSUME NEW r \in Scanners, NEW l \in Libs, NextLibrary(r, l) PROVE ScanInv' BY <1>5, NextLibraryInv
<1>6. ASSUME NEW r \in Scanners, EndScanner(r) PROVE ScanInv' BY <1>6, EndScannerInv
<1>7. ASSUME NEW r \in Scanners, BeginCloudScan(r) PROVE ScanInv' BY <1>7, BeginInv
<1>13. ASSUME NEW r \in Scanners, RefuseCloudScan(r) PROVE ScanInv' BY <1>13, RefuseInv
<1>8. ASSUME NEW r \in Scanners, AcquireCloudScanSlot(r) PROVE ScanInv' BY <1>8, AcquireInv
<1>9. ASSUME NEW r \in Scanners, GiveUpSlot(r) PROVE ScanInv' BY <1>9, GiveUpInv
<1>10. ASSUME NEW r \in Scanners, EndCloudScan(r) PROVE ScanInv' BY <1>10, EndInv
<1>11. ASSUME NEW r \in Scanners, ReleaseCloudScanSlot(r) PROVE ScanInv' BY <1>11, ReleaseInv
<1>12. CASE UNCHANGED ScanVars
  <2> USE <1>12 DEF ScanVars, ScanInv
  <2>1. ScanTypeOK' BY DEF ScanTypeOK
  <2>2. ScanOwnsEntry' BY DEF ScanOwnsEntry, InProgress, BlocksBegin
  <2>3. ScanShape' BY DEF ScanShape, BlocksBegin
  <2>4. ExpectedByAll' BY DEF ExpectedByAll, Expects
  <2> QED BY <2>1, <2>2, <2>3, <2>4
<1> QED BY <1>1, <1>2, <1>3, <1>4, <1>5, <1>6, <1>7, <1>8, <1>9, <1>10, <1>11, <1>12, <1>13 DEF ScanNext

(* For any libraries and goroutines: the variables have their types, and   *)
(* an entry says "running" or "canceling" exactly while the scan that      *)
(* holds its cancel function is under way.                                 *)
THEOREM ScansOwnEntries == ScanSpec => [](ScanTypeOK /\ ScanOwnsEntry)
<1>1. ScanInit => ScanInv BY InitScanInv
<1>2. ScanInv /\ [ScanNext]_ScanVars => ScanInv' BY StepScanInv
<1>3. ScanInv => ScanTypeOK /\ ScanOwnsEntry BY DEF ScanInv
<1> QED BY <1>1, <1>2, <1>3, PTL DEF ScanSpec

(* For any libraries and goroutines: unless a "scan all" has given it up,  *)
(* somebody will come to every library marked queued.                      *)
THEOREM QueuedScansExpected == ScanSpec => []QueuedIsExpected
<1>1. ScanInit => ScanInv BY InitScanInv
<1>2. ScanInv /\ [ScanNext]_ScanVars => ScanInv' BY StepScanInv
<1>3. ScanInv => QueuedIsExpected BY DEF ScanInv, ExpectedByAll, Expects, QueuedIsExpected
<1> QED BY <1>1, <1>2, <1>3, PTL DEF ScanSpec

-----------------------------------------------------------------------------
(* The watcher                                                             *)

Informed ==
  updater.pc # "idle" /\ updater.path \notin settling \union due \union excused =>
    /\ updater.pc \in {"remove", "delete"} => file[updater.path] = NoInode
    /\ updater.pc = "ingest" => file[updater.path] # NoInode
    /\ updater.pc = "write" => file[updater.path] = updater.id

UpdaterRec ==
  [pc : {"idle", "remove", "delete", "ingest", "write"}, path : Paths \union {NoPath}, id : Data]

OnPaths ==
  /\ updater.path \in IF updater.pc = "idle" THEN {NoPath} ELSE Paths
  /\ scanned # NothingScanned => scanned.path \in Paths

WatchInv == WatchTypeOK /\ OnPaths /\ IndexMatchesDisk /\ Informed

LEMMA InitWatchInv == WatchInit => WatchInv
<1> SUFFICES ASSUME WatchInit PROVE WatchInv OBVIOUS
<1> USE DEF WatchInit
<1>1. WatchTypeOK BY DEF WatchTypeOK, UpdaterIdle, NothingScanned, Data
<1>2. OnPaths /\ Informed BY DEF OnPaths, Informed, UpdaterIdle
<1>3. IndexMatchesDisk BY DEF IndexMatchesDisk
<1> QED BY <1>1, <1>2, <1>3 DEF WatchInv

(* Whatever changes on the disk is marked, or excused because nobody told. *)
LEMMA ChangeInv ==
  ASSUME WatchInv, NEW S \in SUBSET Paths, Changed(S),
         file' \in [Paths -> Data], \A p \in Paths \ S : file'[p] = file[p],
         UNCHANGED <<watched, due, updater, rowAt, scanned>>
  PROVE  WatchInv'
<1> USE DEF WatchInv
<1>1. PICK lost \in SUBSET S : settling' = settling \union (S \ lost) /\ excused' = excused \union lost
  BY DEF Changed, Mark
<1>2. WatchTypeOK' BY <1>1 DEF WatchTypeOK
<1>3. OnPaths' BY DEF OnPaths
<1>4. IndexMatchesDisk' BY <1>1 DEF IndexMatchesDisk
<1>5. Informed'
  <2> SUFFICES ASSUME updater.pc # "idle", updater.path \notin settling' \union due' \union excused'
               PROVE  /\ updater.pc \in {"remove", "delete"} => file'[updater.path] = NoInode
                      /\ updater.pc = "ingest" => file'[updater.path] # NoInode
                      /\ updater.pc = "write" => file'[updater.path] = updater.id
    BY DEF Informed
  <2>1. updater.path \in Paths \ S /\ updater.path \notin settling \union due \union excused
    BY <1>1 DEF OnPaths
  <2> QED BY <2>1 DEF Informed
<1> QED BY <1>2, <1>3, <1>4, <1>5

LEMMA CreateInv ==
  ASSUME WatchInv, NEW p \in Paths, NEW i \in Inodes, CreateFile(p, i)
  PROVE  WatchInv'
<1>1. file' \in [Paths -> Data] /\ \A n \in Paths \ {p} : file'[n] = file[n]
  BY DEF CreateFile, WatchInv, WatchTypeOK, Data
<1> QED BY <1>1, ChangeInv DEF CreateFile

LEMMA TakeDueInv ==
  ASSUME WatchInv, NEW S \in SUBSET Paths, TakeDue(S)
  PROVE  WatchInv'
<1> USE DEF WatchInv, TakeDue
<1>1. WatchTypeOK' BY DEF WatchTypeOK
<1>2. OnPaths' /\ Informed' BY DEF OnPaths, Informed
<1>3. IndexMatchesDisk' BY DEF IndexMatchesDisk
<1> QED BY <1>1, <1>2, <1>3

LEMMA ProcessInv ==
  ASSUME WatchInv, NEW p \in Paths, Process(p)
  PROVE  WatchInv'
<1> USE DEF WatchInv, Process
<1>1. /\ updater' \in UpdaterRec /\ updater'.path = p
      /\ \/ updater'.pc = "remove" /\ (file[p] = NoInode \/ p \in excused')
         \/ updater'.pc = "ingest" /\ file[p] # NoInode
      /\ excused \subseteq excused' \union {p} /\ excused' \subseteq Paths
  BY DEF UpdaterRec, Data, WatchTypeOK
<1>2. WatchTypeOK' BY <1>1 DEF WatchTypeOK, UpdaterRec
<1>3. OnPaths' BY <1>1 DEF OnPaths
<1>4. IndexMatchesDisk'
  <2>1. updater.path \notin Paths BY WatchAssumption DEF OnPaths
  <2> QED BY <1>1, <2>1 DEF IndexMatchesDisk
<1>5. Informed' BY <1>1 DEF Informed
<1> QED BY <1>2, <1>3, <1>4, <1>5

(* The end of an update: the row of its path is what the file calls for,   *)
(* unless the path has been marked again, or excused.                      *)
LEMMA UpdatedInv ==
  ASSUME WatchInv, updater.pc # "idle", updater' = UpdaterIdle,
         excused' = excused \/ excused' = excused \union {updater.path},
         rowAt' \in [Paths -> Data],
         \A q \in Paths \ {updater.path} : rowAt'[q] = rowAt[q],
         updater.path \notin settling \union due \union excused' => rowAt'[updater.path] = file[updater.path],
         UNCHANGED <<file, watched, settling, due, scanned>>
  PROVE  WatchInv'
<1> USE DEF WatchInv
<1>1. updater.path \in Paths BY DEF OnPaths
<1>2. updater'.pc = "idle" /\ updater'.path = NoPath BY DEF UpdaterIdle
<1>3. WatchTypeOK' BY <1>1 DEF WatchTypeOK, UpdaterIdle, Data
<1>4. OnPaths' BY <1>2 DEF OnPaths
<1>5. IndexMatchesDisk' BY <1>1 DEF IndexMatchesDisk
<1>6. Informed' BY <1>2 DEF Informed
<1> QED BY <1>3, <1>4, <1>5, <1>6

LEMMA RemoveInv ==
  ASSUME WatchInv, RemovePath \/ DeleteRow
  PROVE  WatchInv'
<1> USE DEF WatchInv
<1>1. CASE RemovePath /\ updater' # UpdaterIdle
  <2>0. /\ updater.path \in Paths /\ updater' = [updater EXCEPT !.pc = "delete"]
        /\ excused \subseteq excused' /\ excused' \subseteq Paths
        /\ file[updater.path] = NoInode \/ updater.path \in excused'
    BY <1>1 DEF RemovePath, OnPaths, WatchTypeOK
  <2>1. updater' \in UpdaterRec /\ updater'.path = updater.path /\ updater'.pc = "delete"
    BY <2>0 DEF WatchTypeOK, UpdaterRec
  <2>2. WatchTypeOK' BY <1>1, <2>0, <2>1 DEF RemovePath, WatchTypeOK, UpdaterRec
  <2>3. OnPaths' BY <1>1, <2>1 DEF RemovePath, OnPaths
  <2>4. IndexMatchesDisk' BY <1>1, <2>0, <2>1 DEF RemovePath, IndexMatchesDisk
  <2>5. Informed' BY <1>1, <2>0, <2>1 DEF RemovePath, Informed
  <2> QED BY <2>2, <2>3, <2>4, <2>5
<1>2. CASE RemovePath /\ updater' = UpdaterIdle
  <2>1. /\ updater.pc = "remove" /\ updater' = UpdaterIdle /\ file[updater.path] # NoInode
        /\ UNCHANGED <<file, watched, settling, due, rowAt, scanned, excused>>
    BY <1>2, WatchAssumption DEF RemovePath, UpdaterIdle
  <2>2. rowAt' \in [Paths -> Data] BY <2>1 DEF WatchTypeOK
  <2>3. updater.path \in settling \union due \union excused BY <2>1 DEF Informed
  <2> HIDE DEF WatchInv
  <2> QED BY <2>1, <2>2, <2>3, UpdatedInv
<1>3. CASE DeleteRow
  <2>1. /\ updater.pc = "delete" /\ updater' = UpdaterIdle
        /\ UNCHANGED <<file, watched, settling, due, scanned>>
    BY <1>3 DEF DeleteRow
  <2>2. updater.path \in Paths /\ rowAt \in [Paths -> Data] BY <2>1 DEF OnPaths, WatchTypeOK
  <2>3. updater.path \notin settling \union due \union excused => file[updater.path] = NoInode
    BY <2>1 DEF Informed
  <2>4. CASE rowAt' = [rowAt EXCEPT ![updater.path] = NoInode] /\ UNCHANGED excused
    <3>1. /\ rowAt' \in [Paths -> Data] /\ rowAt'[updater.path] = NoInode
          /\ \A q \in Paths \ {updater.path} : rowAt'[q] = rowAt[q]
      BY <2>2, <2>4 DEF Data
    <3> HIDE DEF WatchInv
    <3> QED BY <2>1, <2>3, <2>4, <3>1, UpdatedInv
  <2>5. CASE rowAt' = rowAt /\ excused' = excused \union {updater.path}
    <3> HIDE DEF WatchInv
    <3> QED BY <2>1, <2>2, <2>5, UpdatedInv
  <2> QED BY <1>3, <2>4, <2>5 DEF DeleteRow
<1> QED BY <1>1, <1>2, <1>3

LEMMA IngestInv ==
  ASSUME WatchInv, IngestPath \/ WriteRow
  PROVE  WatchInv'
<1> DEFINE p == updater.path
<1> USE DEF WatchInv
<1>1. CASE IngestPath /\ updater' # UpdaterIdle
  <2>0. p \in Paths /\ file[p] \in Data BY <1>1 DEF IngestPath, OnPaths, WatchTypeOK
  <2>1. updater' = [updater EXCEPT !.pc = "write", !.id = file[p]] /\ UNCHANGED excused
    BY <1>1 DEF IngestPath
  <2>2. /\ updater' \in UpdaterRec /\ updater'.path = p /\ updater'.pc = "write" /\ updater'.id = file[p]
    BY <2>0, <2>1 DEF WatchTypeOK, UpdaterRec
  <2>3. WatchTypeOK' BY <1>1, <2>1, <2>2 DEF IngestPath, WatchTypeOK, UpdaterRec
  <2>4. OnPaths' BY <1>1, <2>0, <2>2 DEF IngestPath, OnPaths
  <2>5. IndexMatchesDisk' BY <1>1, <2>1, <2>2 DEF IngestPath, IndexMatchesDisk
  <2>6. Informed' BY <1>1, <2>2 DEF IngestPath, Informed
  <2> QED BY <2>3, <2>4, <2>5, <2>6
<1>2. CASE IngestPath /\ updater' = UpdaterIdle
  <2>1. /\ updater.pc = "ingest" /\ updater' = UpdaterIdle
        /\ UNCHANGED <<file, watched, settling, due, rowAt, scanned>>
    BY <1>2 DEF IngestPath
  <2>2. rowAt' \in [Paths -> Data] BY <2>1 DEF WatchTypeOK
  <2>3. CASE file[p] = NoInode /\ UNCHANGED excused
    <3>1. p \in settling \union due \union excused BY <2>1, <2>3 DEF Informed
    <3>2. UNCHANGED excused BY <2>3
    <3> HIDE DEF WatchInv
    <3> QED BY <2>1, <2>2, <3>1, <3>2, UpdatedInv
  <2>4. CASE excused' = excused \union {p}
    <3>1. excused' = excused \union {p} BY <2>4
    <3> HIDE DEF WatchInv
    <3> QED BY <2>1, <2>2, <3>1, UpdatedInv
  <2>5. \/ file[p] = NoInode /\ UNCHANGED excused
        \/ excused' = excused \union {p}
    BY <1>2 DEF IngestPath, UpdaterIdle
  <2> QED BY <2>3, <2>4, <2>5
<1>3. CASE WriteRow
  <2>1. /\ updater.pc = "write" /\ updater' = UpdaterIdle
        /\ UNCHANGED <<file, watched, settling, due, scanned>>
    BY <1>3 DEF WriteRow
  <2>2. p \in Paths /\ rowAt \in [Paths -> Data] /\ updater.id \in Data
    BY <2>1 DEF OnPaths, WatchTypeOK
  <2>3. p \notin settling \union due \union excused => file[p] = updater.id BY <2>1 DEF Informed
  <2>4. CASE rowAt' = [rowAt EXCEPT ![p] = updater.id] /\ UNCHANGED excused
    <3>1. /\ rowAt' \in [Paths -> Data] /\ rowAt'[p] = updater.id
          /\ \A q \in Paths \ {p} : rowAt'[q] = rowAt[q]
      BY <2>2, <2>4
    <3> HIDE DEF WatchInv
    <3> QED BY <2>1, <2>3, <2>4, <3>1, UpdatedInv
  <2>5. CASE rowAt' = rowAt /\ excused' = excused \union {p}
    <3> HIDE DEF WatchInv
    <3> QED BY <2>1, <2>2, <2>5, UpdatedInv
  <2> QED BY <1>3, <2>4, <2>5 DEF WriteRow
<1> QED BY <1>1, <1>2, <1>3

LEMMA ScanStepInv ==
  ASSUME WatchInv,
         \/ \E p \in Paths : ScanDecides(p)
         \/ ScanApplies
  PROVE  WatchInv'
<1> USE DEF WatchInv
<1>1. ASSUME NEW p \in Paths, ScanDecides(p) PROVE WatchInv'
  <2>1. /\ scanned' \in [what : {"none", "write", "prune"}, path : Paths \union {NoPath}, id : Data]
        /\ scanned'.path = p
    BY <1>1 DEF ScanDecides, WatchTypeOK, Data
  <2>2. WatchTypeOK' BY <1>1, <2>1 DEF ScanDecides, WatchTypeOK
  <2>3. OnPaths' /\ Informed' BY <1>1, <2>1 DEF ScanDecides, OnPaths, Informed
  <2>4. IndexMatchesDisk' BY <1>1 DEF ScanDecides, IndexMatchesDisk
  <2> QED BY <2>2, <2>3, <2>4
<1>2. CASE ScanApplies
  <2>1. scanned.path \in Paths /\ scanned.id \in Data BY <1>2 DEF ScanApplies, OnPaths, WatchTypeOK
  <2>2. WatchTypeOK' BY <1>2, <2>1 DEF ScanApplies, WatchTypeOK, NothingScanned, Data
  <2>3. OnPaths' BY <1>2 DEF ScanApplies, OnPaths
  <2>4. IndexMatchesDisk' BY <1>2, <2>1 DEF ScanApplies, IndexMatchesDisk, WatchTypeOK
  <2>5. Informed' BY <1>2 DEF ScanApplies, Informed
  <2> QED BY <2>2, <2>3, <2>4, <2>5
<1> QED BY <1>1, <1>2

LEMMA StepWatchInv == WatchInv /\ [WatchNext]_WatchVars => WatchInv'
<1> SUFFICES ASSUME WatchInv, [WatchNext]_WatchVars PROVE WatchInv' OBVIOUS
<1>1. ASSUME NEW p \in Paths, NEW i \in Inodes, CreateFile(p, i) PROVE WatchInv' BY <1>1, CreateInv
<1>2. ASSUME NEW p \in Paths, DeleteFile(p) PROVE WatchInv'
  <2>1. file' \in [Paths -> Data] /\ \A n \in Paths \ {p} : file'[n] = file[n]
    BY <1>2 DEF DeleteFile, WatchInv, WatchTypeOK, Data
  <2> QED BY <1>2, <2>1, ChangeInv DEF DeleteFile
<1>3. ASSUME NEW p \in Paths, NEW q \in Paths, RenameFile(p, q) PROVE WatchInv'
  <2>1. file' \in [Paths -> Data] /\ \A n \in Paths \ {p, q} : file'[n] = file[n]
    BY <1>3 DEF RenameFile, WatchInv, WatchTypeOK, Data
  <2> QED BY <1>3, <2>1, ChangeInv DEF RenameFile
<1>4. ASSUME NEW S \in SUBSET Paths, Refresh(S) PROVE WatchInv'
  BY <1>4 DEF Refresh, WatchInv, WatchTypeOK, OnPaths, IndexMatchesDisk, Informed
<1>5. ASSUME NEW S \in SUBSET Paths, TakeDue(S) PROVE WatchInv' BY <1>5, TakeDueInv
<1>6. ASSUME NEW p \in Paths, Process(p) PROVE WatchInv' BY <1>6, ProcessInv
<1>7. CASE RemovePath \/ DeleteRow BY <1>7, RemoveInv
<1>8. CASE IngestPath \/ WriteRow BY <1>8, IngestInv
<1>9. CASE ScanApplies \/ \E p \in Paths : ScanDecides(p) BY <1>9, ScanStepInv
<1>10. CASE UNCHANGED WatchVars
  BY <1>10 DEF WatchVars, WatchInv, WatchTypeOK, OnPaths, IndexMatchesDisk, Informed
<1> QED BY <1>1, <1>2, <1>3, <1>4, <1>5, <1>6, <1>7, <1>8, <1>9, <1>10 DEF WatchNext

(* For any paths and inodes: the variables have their types, and every     *)
(* path that is not marked, under way or excused has the row its file      *)
(* calls for.                                                              *)
THEOREM IndexFollowsDisk == WatchSpec => [](WatchTypeOK /\ IndexMatchesDisk)
<1>1. WatchInit => WatchInv BY InitWatchInv
<1>2. WatchInv /\ [WatchNext]_WatchVars => WatchInv' BY StepWatchInv
<1>3. WatchInv => WatchTypeOK /\ IndexMatchesDisk BY DEF WatchInv
<1> QED BY <1>1, <1>2, <1>3, PTL DEF WatchSpec
=============================================================================
