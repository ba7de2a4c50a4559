----------------------------- MODULE ServicesProofs ----------------------------
(***************************************************************************)
(* What is proved of a service holds in Services, the specification that   *)
(* TLC checks: a behaviour of Services is one of the service it follows,   *)
(* with the others at rest.  This is so by the definition of Services, and *)
(* says nothing about the program; it only carries the theorems over, so   *)
(* that they speak of the specification and of the properties of the run.  *)
(***************************************************************************)
EXTENDS Services, RefreshTokenProofs, LibraryProofs, StreamProofs, SiteRateLimiterProofs

LEMMA EachStarts ==
  ServicesInit => TokenInit /\ ScanInit /\ HlsInit /\ RateInit /\ ProbeInit /\ WatchInit
BY DEF ServicesInit

LEMMA EachSteps ==
  [ServicesNext]_ServicesVars =>
    /\ [TokenNext]_TokenVars /\ [ScanNext]_ScanVars /\ [HlsNext]_HlsVars
    /\ [RateNext]_RateVars /\ [ProbeNext]_ProbeVars /\ [WatchNext]_WatchVars
<1> SUFFICES ASSUME [ServicesNext]_ServicesVars
             PROVE  /\ [TokenNext]_TokenVars /\ [ScanNext]_ScanVars /\ [HlsNext]_HlsVars
                    /\ [RateNext]_RateVars /\ [ProbeNext]_ProbeVars /\ [WatchNext]_WatchVars
  OBVIOUS
<1>1. CASE Tokens(TokenNext)
  BY <1>1 DEF Tokens
<1>2. CASE Scans(ScanNext)
  BY <1>2 DEF Scans
<1>3. CASE Hls(HlsNext)
  BY <1>3 DEF Hls
<1>4. CASE Rate(RateNext)
  BY <1>4 DEF Rate
<1>5. CASE Probes(ProbeNext)
  BY <1>5 DEF Probes
<1>6. CASE Watches(WatchNext)
  BY <1>6 DEF Watches
<1>7. CASE UNCHANGED ServicesVars
  BY <1>7 DEF ServicesVars
<1> QED
  BY <1>1, <1>2, <1>3, <1>4, <1>5, <1>6, <1>7 DEF ServicesNext

LEMMA EachImplemented ==
  ServicesSpec => TokenSpec /\ ScanSpec /\ HlsSpec /\ RateSpec /\ ProbeSpec /\ WatchSpec
BY EachStarts, EachSteps, PTL DEF ServicesSpec, TokenSpec, ScanSpec, HlsSpec, RateSpec, ProbeSpec, WatchSpec

(* The type invariant of the run, for every value of the constants. *)
THEOREM ServicesTyped == ServicesSpec => []TypesOK
<1>1. TokenTypeOK /\ ScanTypeOK /\ HlsTypeOK /\ RateTypeOK /\ ProbeTypeOK /\ WatchTypeOK => TypesOK
  BY DEF TypesOK
<1> QED
  BY <1>1, EachImplemented, TokensNotLost, ScansOwnEntries, TranscodesTracked, QuotaKept, ProbedOnce,
     IndexFollowsDisk, PTL

(* The properties of the run that are proved, for every value of the       *)
(* constants.                                                              *)
THEOREM ServicesKeepPromises ==
  ServicesSpec =>
    /\ [](TokenNotLost /\ SessionLimit) /\ ReplacedNotRevived
    /\ [](ScanOwnsEntry /\ QueuedIsExpected /\ TrackedRuns)
    /\ [](QuotaHeld /\ ReservedOnce /\ IndexMatchesDisk)
BY EachImplemented, TokensNotLost, SessionsLimited, ReplacedStayOut, ScansOwnEntries, QueuedScansExpected,
   TranscodesTracked, QuotaKept, ProbedOnce, IndexFollowsDisk, PTL
=============================================================================
