----------------------------- MODULE MCProbeApi -----------------------------
(***************************************************************************)
(* Instances of ProbeApi for TLC.                                          *)
(***************************************************************************)
EXTENDS ProbeApi, TLC

\* All the sets of domains a request may name, the empty one included.
AllSubmissions == SUBSET Domains

\* Requests that name every domain.
OneSubmission == {Domains}

\* One optimized classification and one that is not.
TwoStatuses == {"IEPL_Direct", "Standard_163"}

Interchangeable == Permutations(Workers) \cup Permutations(Domains)
=============================================================================
