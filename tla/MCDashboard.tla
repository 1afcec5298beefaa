---------------------------- MODULE MCDashboard ----------------------------
(***************************************************************************)
(* Instances of Dashboard for TLC.                                         *)
(***************************************************************************)
EXTENDS Dashboard

\* Over a slow connection a job passes every status with a single domain.
MCSizes == [l \in Links |-> IF l = "prompt" THEN 2 ELSE 1]
=============================================================================
