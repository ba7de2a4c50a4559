------------------------------- MODULE Services -------------------------------
(***************************************************************************)
(* For TLC: the services of the program that share nothing but the         *)
(* process, checked in one run.  A behaviour follows one of them, so that  *)
(* the states to look at are the sum of theirs, not the product.           *)
(***************************************************************************)
EXTENDS RefreshToken, CloudScan, Transcoder, SiteRateLimiter, ProbeQueue, Watcher, TLC

MCBucketsOf == "download" :> <<"1h", "24h">>
MCQuota  == "1h" :> 1 @@ "24h" :> 2
MCWindow == "1h" :> 2 @@ "24h" :> 4

VARIABLE focus   \* the service this behaviour follows

ServicesInit ==
  /\ focus \in {"tokens", "scans", "hls", "rate", "probes", "watch"}
  /\ TokenInit /\ ScanInit /\ HlsInit /\ RateInit /\ ProbeInit /\ WatchInit
  /\ focus # "watch" => watched = {} /\ \A p \in Paths : file[p] = NoInode

Tokens(A) == focus = "tokens" /\ A /\ UNCHANGED <<focus, ScanVars, HlsVars, RateVars, ProbeVars, WatchVars>>
Scans(A)  == focus = "scans"  /\ A /\ UNCHANGED <<focus, TokenVars, HlsVars, RateVars, ProbeVars, WatchVars>>
Hls(A)    == focus = "hls"    /\ A /\ UNCHANGED <<focus, TokenVars, ScanVars, RateVars, ProbeVars, WatchVars>>
Rate(A)   == focus = "rate"   /\ A /\ UNCHANGED <<focus, TokenVars, ScanVars, HlsVars, ProbeVars, WatchVars>>
Probes(A) == focus = "probes" /\ A /\ UNCHANGED <<focus, TokenVars, ScanVars, HlsVars, RateVars, WatchVars>>
Watches(A) == focus = "watch" /\ A /\ UNCHANGED <<focus, TokenVars, ScanVars, HlsVars, RateVars, ProbeVars>>

ServicesNext ==
  \/ Tokens(TokenNext) \/ Scans(ScanNext) \/ Hls(HlsNext)
  \/ Rate(RateNext) \/ Probes(ProbeNext) \/ Watches(WatchNext)

ServicesVars == <<focus, TokenVars, ScanVars, HlsVars, RateVars, ProbeVars, WatchVars>>

(* Goroutines that can run do, timers expire, ffprobe and the database's   *)
(* calls have a time limit.                                                *)
Fairness ==
  /\ \A t \in Token : WF_TokenVars(focus = "tokens" /\ StoreStep(t))
  /\ \A r \in Scanners : WF_ScanVars(focus = "scans" /\ StopsWhenCancelled(r))
  /\ \A j \in HlsJobs : WF_HlsVars(focus = "hls" /\ (Watch(j) \/ WatchStops(j)))
  /\ \A c \in Clips : WF_ProbeVars(focus = "probes" /\ Send(c))
  /\ \A w \in Probers : WF_ProbeVars(focus = "probes" /\ (TakeProbe(w) \/ EndProbe(w)))

ServicesSpec == ServicesInit /\ [][ServicesNext]_ServicesVars /\ Fairness

(* The type invariants of the services. *)
TypesOK == TokenTypeOK /\ ScanTypeOK /\ HlsTypeOK /\ RateTypeOK /\ ProbeTypeOK /\ WatchTypeOK
=============================================================================
