---------------------------- MODULE ImportServices ----------------------------
(***************************************************************************)
(* For TLC: the import jobs, their concurrency slots and the ingest jobs   *)
(* that media-pipeline asks for at the end of an import, in one run.  They *)
(* share no variable, so that a behaviour follows one of them.             *)
(***************************************************************************)
EXTENDS MCResourceImport, ImportSlots, PipelineIngest

CONSTANT b1   \* the import of a second user

MCUser == [j \in Imports |-> IF j = b1 THEN "b" ELSE "a"]

VARIABLE focus   \* what this behaviour follows

ImportsInit == focus \in {"imports", "slots", "ingest"} /\ Init /\ SlotsInit /\ IngestInit

ImportsNext ==
  \/ focus = "imports" /\ Next /\ UNCHANGED <<focus, SlotsVars, IngestVars>>
  \/ focus = "slots" /\ SlotsNext /\ UNCHANGED <<focus, vars, IngestVars>>
  \/ focus = "ingest" /\ IngestNext /\ UNCHANGED <<focus, vars, SlotsVars>>

(* What no behaviour follows rests in its initial state, where its          *)
(* fairness asks for no step.                                              *)
ImportsSpec ==
  /\ ImportsInit /\ [][ImportsNext]_<<focus, vars, SlotsVars, IngestVars>>
  /\ Fairness /\ SlotsFairness /\ IngestFairness

(* The type invariants of the two services that share nothing with the     *)
(* import jobs, whose own is checked under more faults elsewhere.          *)
ImportTypesOK == SlotsTypeOK /\ IngestTypeOK
=============================================================================
