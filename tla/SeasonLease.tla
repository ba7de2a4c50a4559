----------------------------- MODULE SeasonLease -----------------------------
(***************************************************************************)
(* What the unique column active_reservation_key promises about the        *)
(* seasons follow jobs compete for (internal/model/resource_import.go): a  *)
(* lease on the season, taken only when it is free and given back only by  *)
(* the job that holds it.  Nothing is said of when, nor of who asks.       *)
(***************************************************************************)
CONSTANTS Jobs, NoJob, SeasonOf

Seasons == {SeasonOf[j] : j \in Jobs}

VARIABLE holder     \* the job that holds each season, or NoJob

Init == holder = [s \in Seasons |-> NoJob]

Acquire(j) ==
  /\ holder[SeasonOf[j]] = NoJob
  /\ holder' = [holder EXCEPT ![SeasonOf[j]] = j]

Release(j) ==
  /\ holder[SeasonOf[j]] = j
  /\ holder' = [holder EXCEPT ![SeasonOf[j]] = NoJob]

Next == \E j \in Jobs : Acquire(j) \/ Release(j)

Spec == Init /\ [][Next]_holder
=============================================================================
