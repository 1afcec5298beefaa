---------------------------- MODULE SurgeParser ----------------------------
(***************************************************************************)
(* The expansion of Surge rule lists (backend/internal/parser).  A list is *)
(* a sequence of lines; a RULE-SET or DOMAIN-SET line names another list,  *)
(* which is fetched and parsed in its place.  No list is remembered, so    *)
(* lists that include each other are fetched again and again, until a      *)
(* fetch fails: of a URL because the request's context has ended, of a     *)
(* local file because the process has no file left to open.                *)
(*                                                                         *)
(* parseRules calls itself: `stack' holds its activations.  A line is      *)
(* taken up to its type, its argument and what ignoredPolicy says of it;   *)
(* cleanLine drops the rest.                                               *)
(***************************************************************************)
EXTENDS Integers, Sequences, FiniteSets

CONSTANTS
    Domains,      \* domain names as lists and requests write them
    NoDomain,     \* what is left of a name of blanks and a dot
    addDomain,    \* a name in lower case without blanks or its first dot
    Sources,      \* what a list can be fetched from
    Remote,       \* those of Sources that are URLs and not local files
    Worlds,       \* what the lists may be
    MaxOpen,      \* how many local files the process may have open
    MaxNested     \* how deep URLs can be nested within the time of a request

Types == {"bare", "DOMAIN", "RULE-SET", "DOMAIN-SET", "other"}
Includes == {"RULE-SET", "DOMAIN-SET"}

\* A bare line is one without a comma.
Line == [type : Types \ Includes, value : Domains, ignored : BOOLEAN]
        \cup [type : Includes, value : Sources, ignored : BOOLEAN]

ASSUME ParserAssumption ==
    /\ NoDomain \notin Domains
    /\ addDomain \in [Domains -> Domains \cup {NoDomain}]
    /\ Remote \subseteq Sources
    /\ Worlds \subseteq [Sources -> Seq(Line)]
    /\ {MaxOpen, MaxNested} \subseteq Nat \ {0}

VARIABLES
    world,    \* source -> the lines it has
    ctx,      \* the context of the request: "live" or "over"
    stack,    \* the activations of parseRules, the innermost one last
    domains,  \* the domains found so far
    skipped   \* the fetches that have failed

parserVars == <<world, ctx, stack, domains, skipped>>

\* set: whether the list is read as a DOMAIN-SET; next: the line to scan.
Frame == [source : Sources, set : BOOLEAN, next : Nat \ {0}]

\* A fetch that failed: of what, and what the context was then.
Failure == [source : Sources, ctx : {"live", "over"}]

\* The sources a fetch of which failed while the context was one of `when'.
Failed(when) == {f.source : f \in {g \in skipped : g.ctx \in when}}

ParserTypeOK ==
    /\ world \in Worlds
    /\ ctx \in {"live", "over"}
    /\ stack \in Seq(Frame)
    /\ domains \subseteq Domains
    /\ skipped \subseteq Failure

ParserInit ==
    /\ world \in Worlds
    /\ ctx = "live"
    /\ stack = <<>>
    /\ domains = {}
    /\ skipped = {}

Open(source, set) == [source |-> source, set |-> set, next |-> 1]

-----------------------------------------------------------------------------
\* Mutant: a name of which nothing is left is added as well.
Added_Empty(line, set) ==
    IF \/ line.type = "DOMAIN" /\ ~line.ignored
       \/ line.type = "bare" /\ set
    THEN {addDomain[line.value]}
    ELSE {}

\* The names a line that includes no other list adds.
Added(line, set) ==
    IF \/ line.type = "DOMAIN" /\ ~line.ignored
       \/ line.type = "bare" /\ set
    THEN {addDomain[line.value]} \ {NoDomain}
    ELSE {}

Included(line) == line.type \in Includes /\ ~line.ignored

Top  == stack[Len(stack)]
Rest == SubSeq(stack, 1, Len(stack) - 1)

Scanning == stack # <<>> /\ Top.next <= Len(world[Top.source])
Scanned  == world[Top.source][Top.next]
Advanced == Append(Rest, [Top EXCEPT !.next = @ + 1])

OpenFiles == Cardinality({k \in DOMAIN stack : stack[k].source \notin Remote})

\* A URL is fetched with the request's context; a local file is opened without.
Fetchable(source) ==
    \/ source \in Remote /\ ctx = "live" /\ Len(stack) < MaxNested
    \/ source \notin Remote /\ OpenFiles < MaxOpen

\* The answer to a URL so deep does not come before the context ends.
Late(source) == source \in Remote /\ ctx = "live" /\ Len(stack) >= MaxNested

AddLine ==
    /\ Scanning
    /\ ~Included(Scanned)
    /\ domains' = domains \cup Added(Scanned, Top.set)
    /\ stack' = Advanced
    /\ UNCHANGED <<world, ctx, skipped>>

\* Mutant: a list included by a DOMAIN-SET is read as one too.
Include_Inherits ==
    /\ Scanning
    /\ Included(Scanned)
    /\ Fetchable(Scanned.value)
    /\ stack' = Append(Advanced, Open(Scanned.value,
                                      Top.set \/ Scanned.type = "DOMAIN-SET"))
    /\ UNCHANGED <<world, ctx, domains, skipped>>

Include ==
    /\ Scanning
    /\ Included(Scanned)
    /\ Fetchable(Scanned.value)
    /\ stack' = Append(Advanced, Open(Scanned.value, Scanned.type = "DOMAIN-SET"))
    /\ UNCHANGED <<world, ctx, domains, skipped>>

\* A fetch may fail for reasons of its own; the line is passed over.
SkipInclude ==
    /\ Scanning
    /\ Included(Scanned)
    /\ ~Late(Scanned.value)
    /\ skipped' = skipped \cup {[source |-> Scanned.value, ctx |-> ctx]}
    /\ stack' = Advanced
    /\ UNCHANGED <<world, ctx, domains>>

\* The end of an included list; the caller goes on behind its line.
Return ==
    /\ Len(stack) > 1
    /\ ~Scanning
    /\ stack' = Rest
    /\ UNCHANGED <<world, ctx, domains, skipped>>

\* A body breaks off, or has a line the scanner cannot hold: parseRules returns
\* the error through all its activations, and each closes its body.
ReadFails ==
    /\ stack # <<>>
    /\ stack' = <<>>
    /\ UNCHANGED <<world, ctx, domains, skipped>>

\* Mutant: a request has no deadline, and its client waits.
EndContext_Never == FALSE

\* The request's deadline (30 s) or its client ends the context.
EndContext ==
    /\ ctx = "live"
    /\ ctx' = "over"
    /\ UNCHANGED <<world, stack, domains, skipped>>

Parse == AddLine \/ Include \/ SkipInclude \/ Return

Finished == Len(stack) = 1 /\ ~Scanning

-----------------------------------------------------------------------------
(* What a list stands for in a world: the domains of the lists it reaches. *)

Listing == [source : Sources, set : BOOLEAN]

Lines(w, l) == {w[l.source][i] : i \in DOMAIN w[l.source]}

Named(line) == [source |-> line.value, set |-> line.type = "DOMAIN-SET"]

\* The listings that a listing includes, but for the sources in `cut'.
Inclusions(w, l, cut) ==
    {Named(x) : x \in {y \in Lines(w, l) : Included(y) /\ y.value \notin cut}}

Closed(w, listings, cut) == \A l \in listings : Inclusions(w, l, cut) \subseteq listings

\* The listings reached from some: the least closed set that holds them.
Reach(w, from, cut) ==
    {l \in Listing : \A S \in SUBSET Listing :
                         from \subseteq S /\ Closed(w, S, cut) => l \in S}

Expansion(w, from, cut) ==
    UNION {UNION {Added(x, l.set) : x \in Lines(w, l)} : l \in Reach(w, from, cut)}
=============================================================================
