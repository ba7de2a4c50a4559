------------------------------ MODULE ProbeQueue ------------------------------
(***************************************************************************)
(* The probes of cloud media: stream_cloud_probe_queue.go in               *)
(* internal/service.                                                       *)
(*                                                                         *)
(* Every playback of a medium without track metadata asks for a probe of   *)
(* it.  A bounded channel leads to a few workers.  Under a mutex, one map  *)
(* keeps a medium from being asked for twice, another from being asked     *)
(* for again too soon after a failure.  The request reserves the medium,   *)
(* then sends it without the mutex.                                        *)
(***************************************************************************)
EXTENDS Naturals, FiniteSets, Sequences

CONSTANTS
  Clips,        \* the media
  NoClip,
  Probers,      \* the workers
  QueueLimit    \* the capacity of cloudTrackProbeQueue

ASSUME ProbeAssumption == NoClip \notin Clips /\ QueueLimit \in Nat \ {0}

VARIABLES
  probing,    \* cloudTrackProbePending
  backoff,    \* the media whose cloudTrackProbeBackoff is not over
  sending,    \* those a request has reserved and not sent yet
  probeQueue,
  prober      \* the medium each worker probes

ProbeVars == <<probing, backoff, sending, probeQueue, prober>>

ProbeTypeOK ==
  /\ probing \subseteq Clips /\ backoff \subseteq Clips
  /\ sending \subseteq Clips
  /\ probeQueue \in Seq(Clips) /\ Len(probeQueue) <= QueueLimit
  /\ prober \in [Probers -> Clips \union {NoClip}]

ProbeInit ==
  /\ probing = {} /\ backoff = {} /\ sending = {}
  /\ probeQueue = <<>>
  /\ prober = [w \in Probers |-> NoClip]

(* finishPlaybackCloudProbe *)
FinishProbe(c, failed) ==
  /\ probing' = probing \ {c}
  /\ backoff' = IF failed THEN backoff \union {c} ELSE backoff \ {c}

(* Variant: only the queue is asked. *)
ReserveUnqueued(c) ==
  /\ c \notin backoff
  /\ \A i \in DOMAIN probeQueue : probeQueue[i] # c
  /\ c \notin sending
  /\ probing' = probing \union {c}
  /\ sending' = sending \union {c}
  /\ UNCHANGED <<backoff, probeQueue, prober>>

(* enqueuePlaybackCloudProbe, up to the unlock; what it knows of the        *)
(* medium's metadata may be old, the worker looks again.                   *)
Reserve(c) ==
  /\ c \notin backoff \union probing
  /\ probing' = probing \union {c}
  /\ sending' = sending \union {c}
  /\ UNCHANGED <<backoff, probeQueue, prober>>

(* Variant: a full queue leaves the medium reserved. *)
SendOrDrop(c) ==
  /\ c \in sending
  /\ sending' = sending \ {c}
  /\ probeQueue' = IF Len(probeQueue) < QueueLimit THEN Append(probeQueue, c) ELSE probeQueue
  /\ UNCHANGED <<probing, backoff, prober>>

Send(c) ==
  /\ c \in sending
  /\ sending' = sending \ {c}
  /\ IF Len(probeQueue) < QueueLimit
     THEN probeQueue' = Append(probeQueue, c) /\ UNCHANGED <<probing, backoff>>
     ELSE FinishProbe(c, TRUE) /\ UNCHANGED probeQueue
  /\ UNCHANGED prober

TakeProbe(w) ==
  /\ prober[w] = NoClip /\ probeQueue # <<>>
  /\ prober' = [prober EXCEPT ![w] = Head(probeQueue)]
  /\ probeQueue' = Tail(probeQueue)
  /\ UNCHANGED <<probing, backoff, sending>>

(* runPlaybackCloudProbe: done, no longer needed, or failed in one of many *)
(* ways, at the latest when its time is over.                              *)
EndProbe(w) ==
  /\ prober[w] # NoClip
  /\ \E failed \in BOOLEAN : FinishProbe(prober[w], failed)
  /\ prober' = [prober EXCEPT ![w] = NoClip]
  /\ UNCHANGED <<sending, probeQueue>>

BackoffOver(c) ==
  /\ c \in backoff
  /\ backoff' = backoff \ {c}
  /\ UNCHANGED <<probing, sending, probeQueue, prober>>

ProbeNext ==
  \/ \E c \in Clips : Reserve(c) \/ Send(c) \/ BackoffOver(c)
  \/ \E w \in Probers : TakeProbe(w) \/ EndProbe(w)

ProbeSpec == ProbeInit /\ [][ProbeNext]_ProbeVars

-----------------------------------------------------------------------------
Queued == {probeQueue[i] : i \in DOMAIN probeQueue}
Probed == {prober[w] : w \in Probers} \ {NoClip}

(* A reserved medium is in exactly one place, and only reserved ones are   *)
(* anywhere: no medium is probed twice at a time, and none is reserved     *)
(* that no worker will come to, which would keep it from ever being        *)
(* probed again.                                                           *)
ReservedOnce ==
  /\ probing = sending \union Queued \union Probed
  /\ sending \intersect (Queued \union Probed) = {} /\ Queued \intersect Probed = {}
  /\ \A i, k \in DOMAIN probeQueue : probeQueue[i] = probeQueue[k] => i = k
  /\ \A v, w \in Probers : prober[v] = prober[w] => v = w \/ prober[v] = NoClip

(* Every reservation ends, so that a medium can be asked for again. *)
ReservationEnds == \A c \in Clips : c \in probing ~> c \notin probing
=============================================================================
