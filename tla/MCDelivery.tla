----------------------------- MODULE MCDelivery -----------------------------
(***************************************************************************)
(* Instances of Delivery for TLC.                                          *)
(***************************************************************************)
EXTENDS Delivery

\* A job's domain ".a" (asked for as "..a") is a once more normalized; a host
\* name with an underscore resolves and is outside the pattern.
MCDomains == {"a", ".a", "a_b"}
MCnormalizeDomain == [d \in MCDomains |-> IF d = ".a" THEN "a" ELSE d]
=============================================================================
