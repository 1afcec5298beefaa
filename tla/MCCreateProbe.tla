--------------------------- MODULE MCCreateProbe ---------------------------
(***************************************************************************)
(* Instances of CreateProbe for TLC: two URLs, a local file and the text   *)
(* of the request.                                                         *)
(***************************************************************************)
EXTENDS CreateProbe

MCDomains == {"a", "b", "c", ".a", "A", "."}
MCaddDomain == [d \in MCDomains |-> CASE d \in {"a", ".a", "A"} -> "a"
                                      [] d = "." -> "none"
                                      [] OTHER -> d]

Rule(type, value)    == [type |-> type, value |-> value, ignored |-> FALSE]
Direct(type, value) == [Rule(type, value) EXCEPT !.ignored = TRUE]

\* A list included in both formats, names written in several ways, policies.
Shared == [url1 |-> <<Rule("DOMAIN", ".a"), Rule("RULE-SET", "url2"), Rule("DOMAIN-SET", "url2")>>,
           url2 |-> <<Rule("bare", "b"), Rule("other", "c")>>,
           file |-> <<Rule("DOMAIN", "c")>>,
           text |-> <<Direct("RULE-SET", "file"), Rule("DOMAIN-SET", "url2"),
                      Direct("DOMAIN", "c")>>]

\* A DOMAIN-SET that includes a RULE-SET.
Nested == [url1 |-> <<Rule("DOMAIN-SET", "url2"), Rule("DOMAIN", ".")>>,
           url2 |-> <<Rule("RULE-SET", "file"), Rule("bare", "b")>>,
           file |-> <<Rule("bare", "c"), Rule("DOMAIN", "A")>>,
           text |-> <<Rule("RULE-SET", "url1")>>]

\* Two URLs that include each other, a local file that includes itself twice.
Cyclic == [url1 |-> <<Rule("RULE-SET", "url2"), Rule("DOMAIN", "a")>>,
           url2 |-> <<Rule("DOMAIN-SET", "url1"), Rule("bare", "b")>>,
           file |-> <<Rule("RULE-SET", "file"), Rule("DOMAIN", "c"), Rule("RULE-SET", "file")>>,
           text |-> <<Rule("RULE-SET", "file"), Rule("bare", "c")>>]

MCWorlds == {Shared, Nested, Cyclic}

MCRequests == [domains : {{}, {"A", "b"}}, url : {"url1", "file", NoSource},
               inline : {"text", NoSource}]
=============================================================================
