--------------------------- MODULE MCOrchestrator ---------------------------
(***************************************************************************)
(* Instances of Orchestrator for TLC.                                      *)
(***************************************************************************)
EXTENDS Orchestrator

\* Requests that name every domain.
OneSubmission == {Domains}

\* One optimized classification and one that is not.
TwoStatuses == {"IEPL_Direct", "Standard_163"}
=============================================================================
