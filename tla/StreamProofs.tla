----------------------------- MODULE StreamProofs -----------------------------
(***************************************************************************)
(* Proofs about what serves a stream: that every tracked transcode runs    *)
(* (Transcoder) and that every reserved medium is in exactly one place     *)
(* (ProbeQueue).  Each is inductive together with the module's types: two  *)
(* media never share a job, since a job has one medium, and a step moves   *)
(* one medium from one place to the next.                                  *)
(***************************************************************************)
EXTENDS Transcoder, ProbeQueue, TLAPS
HlsInv == HlsTypeOK /\ TrackedRuns

LEMMA InitHlsInv == HlsInit => HlsInv
BY HlsAssumption DEF HlsInit, HlsInv, HlsTypeOK, TrackedRuns, Tracked

(* A new job is tracked by no other medium: those that are have goroutines. *)
LEMMA EnsureJobInv ==
  ASSUME NEW m \in Media, NEW j \in HlsJobs, HlsInv, EnsureJob(m, j)
  PROVE  HlsInv'
<1> USE HlsAssumption DEF HlsInv, EnsureJob
<1>1. HlsTypeOK' BY DEF HlsTypeOK
<1>2. ASSUME NEW n \in Media, hlsJobs'[n] # NoHls
      PROVE  LET k == hlsJobs'[n] IN
        hlsMedium'[k] = n /\ ffmpeg'[k] # "none" /\ watchdog'[k] # "none" /\ k \notin cancelled'
  <2>1. CASE n = m BY <2>1 DEF HlsTypeOK
  <2>2. CASE n # m
    <3>1. n \in Tracked /\ hlsJobs'[n] = hlsJobs[n] BY <1>2, <2>2 DEF HlsTypeOK, Tracked
    <3>2. hlsJobs[n] # j BY <3>1 DEF TrackedRuns
    <3> QED BY <3>1, <3>2 DEF HlsTypeOK, TrackedRuns
  <2> QED BY <2>1, <2>2
<1> QED BY <1>1, <1>2 DEF TrackedRuns, Tracked

(* Stopping the jobs of some media cancels no job of another. *)
LEMMA StopInv ==
  ASSUME NEW S \in SUBSET Media, HlsInv, Stop(S),
         UNCHANGED <<hlsMedium, ffmpeg, idle>>,
         watchdog' \in [HlsJobs -> {"none", "watch", "stop"}],
         \A n \in Tracked \ S : watchdog'[hlsJobs[n]] = watchdog[hlsJobs[n]]
  PROVE  HlsInv'
<1> USE HlsAssumption DEF HlsInv, Stop
<1>1. HlsTypeOK' BY DEF HlsTypeOK, Tracked
<1>2. ASSUME NEW n \in Media, hlsJobs'[n] # NoHls
      PROVE  LET k == hlsJobs'[n] IN
        hlsMedium'[k] = n /\ ffmpeg'[k] # "none" /\ watchdog'[k] # "none" /\ k \notin cancelled'
  <2>1. n \in Tracked \ S /\ hlsJobs'[n] = hlsJobs[n] BY <1>2 DEF HlsTypeOK, Tracked
  <2>2. hlsJobs[n] \notin {hlsJobs[m] : m \in S \intersect Tracked} BY <2>1 DEF TrackedRuns, Tracked
  <2> QED BY <2>1, <2>2 DEF TrackedRuns
<1> QED BY <1>1, <1>2 DEF TrackedRuns, Tracked

(* A watchdog leaves only a job that is off the map. *)
LEMMA WatchStepInv ==
  ASSUME NEW j \in HlsJobs, HlsInv, Watch(j)
  PROVE  HlsInv'
<1> USE HlsAssumption DEF HlsInv
<1>1. HlsTypeOK' BY DEF HlsTypeOK, Watch
<1>2. ASSUME NEW n \in Tracked PROVE watchdog'[hlsJobs[n]] # "none"
  <2>1. CASE hlsJobs[n] = j BY <2>1 DEF Watch, TrackedRuns, HlsTypeOK, Tracked
  <2>2. CASE hlsJobs[n] # j BY <2>2 DEF Watch, TrackedRuns, HlsTypeOK, Tracked
  <2> QED BY <2>1, <2>2
<1> QED BY <1>1, <1>2 DEF TrackedRuns, Tracked, Watch

LEMMA WatchStopsInv ==
  ASSUME NEW j \in HlsJobs, HlsInv, WatchStops(j)
  PROVE  HlsInv'
<1> USE HlsAssumption DEF HlsInv, WatchStops
<1>1. CASE hlsMedium[j] \in Media
  <2>1. \A n \in Tracked \ {hlsMedium[j]} : hlsJobs[n] # j BY DEF TrackedRuns
  <2>2. \A n \in Tracked \ {hlsMedium[j]} : watchdog'[hlsJobs[n]] = watchdog[hlsJobs[n]]
    BY <2>1 DEF HlsTypeOK, Tracked
  <2>3. watchdog' \in [HlsJobs -> {"none", "watch", "stop"}] BY DEF HlsTypeOK
  <2> QED BY <1>1, <2>2, <2>3, StopInv
<1>2. CASE hlsMedium[j] \notin Media
  <2>1. Stop({}) BY <1>2 DEF Stop, Tracked, HlsTypeOK
  <2>2. \A n \in Tracked : hlsJobs[n] # j BY <1>2 DEF TrackedRuns, Tracked
  <2>3. \A n \in Tracked \ {} : watchdog'[hlsJobs[n]] = watchdog[hlsJobs[n]]
    BY <2>2 DEF HlsTypeOK, Tracked
  <2>4. watchdog' \in [HlsJobs -> {"none", "watch", "stop"}] BY DEF HlsTypeOK
  <2> QED BY <2>1, <2>3, <2>4, StopInv
<1> QED BY <1>1, <1>2

LEMMA DropEntryInv ==
  ASSUME NEW j \in HlsJobs, HlsInv, DropEntry(j)
  PROVE  HlsInv'
<1> USE HlsAssumption DEF HlsInv, DropEntry
<1>1. HlsTypeOK' BY DEF HlsTypeOK
<1>2. ASSUME NEW n \in Media, hlsJobs'[n] # NoHls
      PROVE  LET k == hlsJobs'[n] IN
        hlsMedium'[k] = n /\ ffmpeg'[k] # "none" /\ watchdog'[k] # "none" /\ k \notin cancelled'
  <2>1. n \in Tracked /\ n # hlsMedium[j] /\ hlsJobs'[n] = hlsJobs[n] BY <1>2 DEF HlsTypeOK, Tracked
  <2>2. hlsJobs[n] # j BY <2>1 DEF TrackedRuns
  <2> QED BY <2>1, <2>2 DEF HlsTypeOK, TrackedRuns
<1> QED BY <1>1, <1>2 DEF TrackedRuns, Tracked

LEMMA StepHlsInv == HlsInv /\ [HlsNext]_HlsVars => HlsInv'
<1> SUFFICES ASSUME HlsInv, [HlsNext]_HlsVars PROVE HlsInv' OBVIOUS
<1> USE HlsAssumption
<1>1. ASSUME NEW m \in Media, StopJob(m) PROVE HlsInv'
  BY <1>1, StopInv DEF StopJob, HlsInv, HlsTypeOK
<1>2. CASE StopAll BY <1>2, StopInv DEF StopAll, HlsInv, HlsTypeOK
<1>3. ASSUME NEW m \in Media, TouchJob(m) \/ TimePasses(m) PROVE HlsInv'
  BY <1>3 DEF TouchJob, TimePasses, HlsInv, HlsTypeOK, TrackedRuns, Tracked
<1>4. ASSUME NEW m \in Media, NEW j \in HlsJobs, EnsureJob(m, j) PROVE HlsInv'
  BY <1>4, EnsureJobInv
<1>5. ASSUME NEW j \in HlsJobs, StartFFmpeg(j) \/ FFmpegExits(j) PROVE HlsInv'
  BY <1>5 DEF StartFFmpeg, FFmpegExits, HlsInv, HlsTypeOK, TrackedRuns, Tracked
<1>6. ASSUME NEW j \in HlsJobs, DropEntry(j) PROVE HlsInv' BY <1>6, DropEntryInv
<1>7. ASSUME NEW j \in HlsJobs, Watch(j) PROVE HlsInv' BY <1>7, WatchStepInv
<1>8. ASSUME NEW j \in HlsJobs, WatchStops(j) PROVE HlsInv' BY <1>8, WatchStopsInv
<1>9. CASE UNCHANGED HlsVars BY <1>9 DEF HlsVars, HlsInv, HlsTypeOK, TrackedRuns, Tracked
<1> QED BY <1>1, <1>2, <1>3, <1>4, <1>5, <1>6, <1>7, <1>8, <1>9 DEF HlsNext

(* For any media, job bound and limit: the variables have their types, and *)
(* every entry of the map jobs is the medium's own running, uncancelled    *)
(* and watched job.                                                        *)
THEOREM TranscodesTracked == HlsSpec => [](HlsTypeOK /\ TrackedRuns)
<1>1. HlsInit => HlsInv BY InitHlsInv
<1>2. HlsInv /\ [HlsNext]_HlsVars => HlsInv' BY StepHlsInv
<1>3. HlsInv => HlsTypeOK /\ TrackedRuns BY DEF HlsInv
<1> QED BY <1>1, <1>2, <1>3, PTL DEF HlsSpec

-----------------------------------------------------------------------------
ProbeInv == ProbeTypeOK /\ ReservedOnce

LEMMA InitProbeInv == ProbeInit => ProbeInv
BY ProbeAssumption DEF ProbeInit, ProbeInv, ProbeTypeOK, ReservedOnce, Queued, Probed

(* What sending and taking do to the members of a queue without repeats. *)
LEMMA AppendOnce ==
  ASSUME NEW s \in Seq(Clips), NEW c \in Clips, NEW t, t = Append(s, c),
         \A i \in DOMAIN s : s[i] # c,
         \A i, k \in DOMAIN s : s[i] = s[k] => i = k
  PROVE  /\ t \in Seq(Clips) /\ Len(t) = Len(s) + 1
         /\ {t[i] : i \in DOMAIN t} = {s[i] : i \in DOMAIN s} \union {c}
         /\ \A i, k \in DOMAIN t : t[i] = t[k] => i = k
<1>1. /\ t \in Seq(Clips) /\ Len(t) = Len(s) + 1
      /\ DOMAIN t = 1 .. Len(s) + 1 /\ DOMAIN s = 1 .. Len(s) /\ Len(s) \in Nat
      /\ t[Len(s) + 1] = c /\ \A i \in 1 .. Len(s) : t[i] = s[i]
  OBVIOUS
<1>2. DOMAIN t = DOMAIN s \union {Len(s) + 1} /\ Len(s) + 1 \notin DOMAIN s BY <1>1
<1>3. {t[i] : i \in DOMAIN t} = {s[i] : i \in DOMAIN s} \union {c}
  <2>1. ASSUME NEW i \in DOMAIN t PROVE t[i] \in {s[k] : k \in DOMAIN s} \union {c} BY <1>1, <1>2
  <2>2. ASSUME NEW i \in DOMAIN s PROVE s[i] \in {t[k] : k \in DOMAIN t} BY <1>1, <1>2
  <2>3. c \in {t[k] : k \in DOMAIN t} BY <1>1, <1>2
  <2> QED BY <2>1, <2>2, <2>3
<1>4. \A i, k \in DOMAIN t : t[i] = t[k] => i = k BY <1>1, <1>2
<1> QED BY <1>1, <1>3, <1>4

LEMMA TakeOnce ==
  ASSUME NEW s \in Seq(Clips), NEW t \in Seq(Clips), NEW h,
         Len(s) > 0, Len(t) = Len(s) - 1, h = s[1], \A i \in 1 .. Len(t) : t[i] = s[i + 1],
         \A i, k \in DOMAIN s : s[i] = s[k] => i = k
  PROVE  /\ h \in {s[i] : i \in DOMAIN s}
         /\ {t[i] : i \in DOMAIN t} = {s[i] : i \in DOMAIN s} \ {h}
         /\ \A i, k \in DOMAIN t : t[i] = t[k] => i = k
<1>1. Len(s) \in Nat /\ DOMAIN t = 1 .. Len(s) - 1 /\ DOMAIN s = 1 .. Len(s) OBVIOUS
<1>2. /\ 1 \in DOMAIN s
      /\ \A i \in DOMAIN t : i + 1 \in DOMAIN s /\ i + 1 # 1 /\ t[i] = s[i + 1]
      /\ \A i \in DOMAIN s : i # 1 => i - 1 \in DOMAIN t /\ t[i - 1] = s[i]
  BY <1>1
<1>3. {t[i] : i \in DOMAIN t} = {s[i] : i \in DOMAIN s} \ {h}
  <2>1. \A i \in DOMAIN t : t[i] # h /\ \E k \in DOMAIN s : s[k] = t[i] BY <1>1, <1>2
  <2>2. \A i \in DOMAIN s : s[i] # h => \E k \in DOMAIN t : t[k] = s[i] BY <1>1, <1>2
  <2> QED BY <2>1, <2>2
<1>4. \A i, k \in DOMAIN t : t[i] = t[k] => i = k BY <1>1, <1>2
<1> QED BY <1>1, <1>2, <1>3, <1>4

LEMMA SendInv ==
  ASSUME NEW c \in Clips, ProbeInv, Send(c)
  PROVE  ProbeInv'
<1> USE ProbeAssumption DEF ProbeInv
<1>1. CASE Len(probeQueue) < QueueLimit
  <2>1. \A i \in DOMAIN probeQueue : probeQueue[i] # c BY DEF Send, ReservedOnce, Queued
  <2>2. /\ probeQueue' \in Seq(Clips) /\ Len(probeQueue') = Len(probeQueue) + 1
        /\ Queued' = Queued \union {c}
        /\ \A i, k \in DOMAIN probeQueue' : probeQueue'[i] = probeQueue'[k] => i = k
    <3>1. /\ probeQueue \in Seq(Clips)
          /\ \A i, k \in DOMAIN probeQueue : probeQueue[i] = probeQueue[k] => i = k
      BY DEF ReservedOnce, ProbeTypeOK
    <3>2. probeQueue' = Append(probeQueue, c) BY <1>1 DEF Send
    <3> HIDE DEF ProbeInv
    <3> QED BY <2>1, <3>1, <3>2, AppendOnce DEF Queued
  <2>3. Probed' = Probed BY DEF Send, Probed
  <2>4. ProbeTypeOK' BY <1>1, <2>2 DEF Send, ProbeTypeOK
  <2>5. ReservedOnce' BY <1>1, <2>2, <2>3 DEF Send, ReservedOnce
  <2> QED BY <2>4, <2>5
<1>2. CASE ~(Len(probeQueue) < QueueLimit)
  <2>1. Probed' = Probed /\ Queued' = Queued BY <1>2 DEF Send, Probed, Queued
  <2>2. ProbeTypeOK' BY <1>2 DEF Send, FinishProbe, ProbeTypeOK
  <2>3. ReservedOnce' BY <1>2, <2>1 DEF Send, FinishProbe, ReservedOnce
  <2> QED BY <2>2, <2>3
<1> QED BY <1>1, <1>2

LEMMA TakeProbeInv ==
  ASSUME NEW w \in Probers, ProbeInv, TakeProbe(w)
  PROVE  ProbeInv'
<1> DEFINE c == Head(probeQueue)
<1> USE ProbeAssumption DEF ProbeInv
<1>1. /\ c \in Clips /\ c \in Queued /\ probeQueue' \in Seq(Clips) /\ Len(probeQueue') = Len(probeQueue) - 1
      /\ Queued' = Queued \ {c}
      /\ \A i, k \in DOMAIN probeQueue' : probeQueue'[i] = probeQueue'[k] => i = k
  <2>1. /\ probeQueue \in Seq(Clips) /\ Len(probeQueue) > 0
        /\ \A i, k \in DOMAIN probeQueue : probeQueue[i] = probeQueue[k] => i = k
    BY DEF TakeProbe, ReservedOnce, ProbeTypeOK
  <2>2. /\ c \in Clips /\ c = probeQueue[1] /\ probeQueue' \in Seq(Clips)
        /\ Len(probeQueue') = Len(probeQueue) - 1
        /\ \A i \in 1 .. Len(probeQueue') : probeQueue'[i] = probeQueue[i + 1]
    BY <2>1 DEF TakeProbe
  <2> HIDE DEF ProbeInv, c
  <2> QED BY <2>1, <2>2, TakeOnce DEF Queued
<1>2. Len(probeQueue) \in Nat BY DEF ProbeTypeOK
<1>3. prober'[w] = c /\ \A v \in Probers \ {w} : prober'[v] = prober[v]
  BY DEF TakeProbe, ProbeTypeOK
<1> HIDE DEF c
<1>4. Probed' = Probed \union {c}
  <2>1. c # NoClip BY <1>1
  <2> QED BY <1>3, <2>1 DEF Probed, TakeProbe
<1>5. ProbeTypeOK' BY <1>1, <1>2 DEF TakeProbe, ProbeTypeOK, c
<1>6. c \notin Probed /\ c \notin sending BY <1>1 DEF ReservedOnce
<1>7. \A u, v \in Probers : prober'[u] = prober'[v] => u = v \/ prober'[u] = NoClip
  <2>1. \A v \in Probers \ {w} : prober[v] # c BY <1>1, <1>6 DEF Probed
  <2> QED BY <1>3, <2>1 DEF ReservedOnce
<1>8. ReservedOnce' BY <1>1, <1>4, <1>6, <1>7 DEF TakeProbe, ReservedOnce
<1> QED BY <1>5, <1>8

LEMMA EndProbeInv ==
  ASSUME NEW w \in Probers, ProbeInv, EndProbe(w)
  PROVE  ProbeInv'
<1> USE ProbeAssumption DEF ProbeInv
<1>1. PICK failed \in BOOLEAN : FinishProbe(prober[w], failed) BY DEF EndProbe
<1>2. prober'[w] = NoClip /\ \A v \in Probers \ {w} : prober'[v] = prober[v]
  BY DEF EndProbe, ProbeTypeOK
<1>3. prober[w] \in Probed /\ Probed' = Probed \ {prober[w]}
  BY <1>2 DEF EndProbe, Probed, ReservedOnce
<1>4. Queued' = Queued BY DEF EndProbe, Queued
<1>5. ProbeTypeOK' BY <1>1 DEF EndProbe, FinishProbe, ProbeTypeOK
<1>6. ReservedOnce' BY <1>1, <1>2, <1>3, <1>4 DEF EndProbe, FinishProbe, ReservedOnce
<1> QED BY <1>5, <1>6

LEMMA StepProbeInv == ProbeInv /\ [ProbeNext]_ProbeVars => ProbeInv'
<1> SUFFICES ASSUME ProbeInv, [ProbeNext]_ProbeVars PROVE ProbeInv' OBVIOUS
<1> USE DEF ProbeInv
<1>1. ASSUME NEW c \in Clips, Reserve(c) PROVE ProbeInv'
  <2>1. Queued' = Queued /\ Probed' = Probed BY <1>1 DEF Reserve, Queued, Probed
  <2> QED BY <1>1, <2>1 DEF Reserve, ProbeTypeOK, ReservedOnce
<1>2. ASSUME NEW c \in Clips, Send(c) PROVE ProbeInv' BY <1>2, SendInv
<1>3. ASSUME NEW c \in Clips, BackoffOver(c) PROVE ProbeInv'
  BY <1>3 DEF BackoffOver, ProbeTypeOK, ReservedOnce, Queued, Probed
<1>4. ASSUME NEW w \in Probers, TakeProbe(w) PROVE ProbeInv' BY <1>4, TakeProbeInv
<1>5. ASSUME NEW w \in Probers, EndProbe(w) PROVE ProbeInv' BY <1>5, EndProbeInv
<1>6. CASE UNCHANGED ProbeVars BY <1>6 DEF ProbeVars, ProbeTypeOK, ReservedOnce, Queued, Probed
<1> QED BY <1>1, <1>2, <1>3, <1>4, <1>5, <1>6 DEF ProbeNext

(* For any media, workers and capacity: the variables have their types,    *)
(* and the reserved media are exactly those being sent, queued or probed,  *)
(* each in one place only.                                                 *)
THEOREM ProbedOnce == ProbeSpec => [](ProbeTypeOK /\ ReservedOnce)
<1>1. ProbeInit => ProbeInv BY InitProbeInv
<1>2. ProbeInv /\ [ProbeNext]_ProbeVars => ProbeInv' BY StepProbeInv
<1>3. ProbeInv => ProbeTypeOK /\ ReservedOnce BY DEF ProbeInv
<1> QED BY <1>1, <1>2, <1>3, PTL DEF ProbeSpec
=============================================================================
