----------------------------- MODULE Acquisition -----------------------------
(***************************************************************************)
(* For TLC: the two ways media get into the system, in one run: the        *)
(* downloads the poller watches, and the import jobs, with clients that    *)
(* leave, lost answers and a crash.  They share no variable, so that a     *)
(* behaviour follows one of them.                                          *)
(***************************************************************************)
EXTENDS DownloadCompletion

CONSTANTS Jobs, Requests, NoJob, Follow, Subscribed, Ops, Outcomes, ImportFaults,
          MaxAuto, MaxAttempt, MaxCrashes

VARIABLES row, pipe, sub, th, up, todo, crashes

imports == <<row, pipe, sub, th, up, todo, crashes>>

(* Every job imports a season of its own. *)
I == INSTANCE ResourceImport WITH SeasonOf <- [j \in Jobs |-> j], Faults <- ImportFaults

VARIABLE focus   \* what this behaviour follows

AcquisitionInit == focus \in {"imports", "downloads"} /\ I!Init /\ Init

AcquisitionNext ==
  \/ focus = "imports" /\ I!Next /\ UNCHANGED <<focus, vars>>
  \/ focus = "downloads" /\ Next /\ UNCHANGED <<focus, imports>>

(* The fairness of each service, in the behaviours that follow it: imports *)
(* nobody follows rest in their initial state, where theirs asks for no    *)
(* step.                                                                   *)
AcquisitionSpec ==
  /\ AcquisitionInit /\ [][AcquisitionNext]_<<focus, vars, imports>>
  /\ I!Fairness
  /\ WF_vars(focus = "downloads" /\ Poller)
  /\ WF_vars(focus = "downloads" /\ Worker)
  /\ SF_vars(focus = "downloads" /\ auto /\ Organize /\ worker'.pc = "record")
  /\ \A t \in Torrents : WF_vars(focus = "downloads" /\ Send(t))

-----------------------------------------------------------------------------
(* What the pipeline accepted settles, unless its client abandoned it      *)
(* before it had a task id, and after a restart in any case                *)
(* (ResourceImport.AcceptedSettles).                                       *)
AcceptedSettles == I!AcceptedSettles
=============================================================================
