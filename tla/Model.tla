------------------------------- MODULE Model -------------------------------
(***************************************************************************)
(* The data the packages of the backend share: the five classifications of *)
(* a traced path, the status of a probe job and the per-classification     *)
(* counters of a job (backend/internal/model).                             *)
(***************************************************************************)
EXTENDS Integers

ClassificationStatus ==
    {"IEPL_Direct", "CN2_Premium", "CERNET_Detour", "Blocked", "Standard_163"}

\* Only these two are promoted to the rulesets handed to clients.
OptimizedStatus == {"IEPL_Direct", "CN2_Premium"}

\* "failed" is declared by the code and assigned nowhere.
ProbeJobStatus == {"queued", "running", "completed", "failed"}

CountMap == [ClassificationStatus -> Nat]

emptyCounts == [s \in ClassificationStatus |-> 0]

Bump(counts, s) == [counts EXCEPT ![s] = @ + 1]

\* The sum is written out so that it needs no recursion.
CountTotal(counts) ==
    counts["IEPL_Direct"] + counts["CN2_Premium"] + counts["CERNET_Detour"]
        + counts["Blocked"] + counts["Standard_163"]
=============================================================================
