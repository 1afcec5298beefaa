------------------------------- MODULE Prober -------------------------------
(***************************************************************************)
(* Where the paths of Classifier come from: NexttraceProber runs nexttrace *)
(* and reads its JSON, the orchestrator enriches every hop from the        *)
(* databases that could be opened at boot.  A path is known hop by hop as  *)
(* the object is decoded; whatever goes wrong before leaves no hop at all. *)
(* The hops are those of Classifier, which this module implements.         *)
(*                                                                         *)
(* nexttrace is given no source of locations (disable-geoip), so what its  *)
(* samples may say of an address is left out.                              *)
(***************************************************************************)
EXTENDS Classifier

CONSTANTS
    Addresses,    \* the addresses on the way
    NoAddress,    \* a sample without one
    class,        \* address -> what the classifier asks of it
    City,         \* address -> the country of its record, "" without one
    ASN,          \* address -> its autonomous system, "none" without one
    SampleLists,  \* what nexttrace may report of a TTL, in the order of its queries
    Outputs,      \* what it may print: the pieces of its output
    Configs       \* the sets of databases that may be configured

Sample == [Success : BOOLEAN, Address : Addresses \cup {NoAddress}, RTT : Nat]

\* A log line that does not begin with a brace, any other object, the trace.
Piece == {"text", "object", "trace"}

Database == {"city", "asn"}

\* The hop that a sample becomes once it is enriched from the databases `db'.
EnrichHop(db, s) ==
    [responded |-> TRUE, ip |-> class[s.Address], rtt |-> s.RTT,
     country |-> IF "city" \in db THEN City[s.Address] ELSE "",
     asn |-> IF "asn" \in db THEN ASN[s.Address] ELSE "none"]

Usable(s) == s.Success /\ s.Address # NoAddress

ASSUME ProberAssumption ==
    /\ NoAddress \notin Addresses
    /\ SampleLists \subseteq Seq(Sample)
    /\ Outputs \subseteq Seq(Piece)
    /\ Configs \subseteq SUBSET Database
    /\ \A db \in SUBSET Database, samples \in SampleLists :
          \A q \in DOMAIN samples :
             Usable(samples[q]) => EnrichHop(db, samples[q]) \in Hops

VARIABLES
    databases,  \* the databases that are open
    stage       \* where Probe is and how it ended

probeVars == <<hops, databases, stage>>

ProbeTypeOK ==
    /\ TypeOK
    /\ databases \subseteq Database
    /\ stage \in {"run", "decode", "empty", "failed"}

\* Open: one database that cannot be opened closes the other, and the process
\* goes on without any.
Opened(cfg) == {cfg, {}}

ProbeInit ==
    /\ Init
    /\ databases \in UNION {Opened(cfg) : cfg \in Configs}
    /\ stage = "run"

-----------------------------------------------------------------------------
\* The whole output when it begins with a brace, else the last object that
\* nothing follows.
extractJSON(out) ==
    IF out = <<>> THEN "none"
    ELSE IF Head(out) # "text" THEN IF Len(out) = 1 THEN Head(out) ELSE "garbage"
    ELSE IF out[Len(out)] # "text" THEN out[Len(out)] ELSE "none"

\* Another object decodes as a trace without hops, and that is no error.
Run ==
    /\ stage = "run"
    /\ \E out \in Outputs :
          stage' = CASE extractJSON(out) = "trace"  -> "decode"
                     [] extractJSON(out) = "object" -> "empty"
                     [] OTHER -> "failed"
    /\ UNCHANGED <<hops, databases>>

\* nexttrace is missing, exits with an error or is killed at the probe's timeout:
\* the hops it has found until then are lost.
RunFails ==
    /\ stage = "run"
    /\ stage' = "failed"
    /\ UNCHANGED <<hops, databases>>

\* The first usable sample of a TTL is its hop.
HopOf(samples) ==
    LET usable == {q \in DOMAIN samples : Usable(samples[q])}
        first  == CHOOSE q \in usable : \A r \in usable : q <= r
    IN  IF usable = {} THEN Silent ELSE EnrichHop(databases, samples[first])

\* The next TTL of the object.
DecodeHop(samples) ==
    /\ stage = "decode"
    /\ Extend(HopOf(samples))
    /\ UNCHANGED <<databases, stage>>

ProbeNext == Run \/ RunFails \/ \E samples \in SampleLists : DecodeHop(samples)

ProbeSpec == ProbeInit /\ [][ProbeNext]_probeVars

-----------------------------------------------------------------------------
(* Properties.                                                             *)

\* A process that could not open its database of countries goes on tracing and
\* promotes nothing, whatever the autonomous systems and the RTTs say: the
\* domains it traces leave the rulesets.
UnlocatedIsNotPromoted == "city" \notin databases => ~Optimized
=============================================================================
