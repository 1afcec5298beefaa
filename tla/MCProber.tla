------------------------------ MODULE MCProber ------------------------------
(***************************************************************************)
(* The samples TLC builds its paths from: for each table of the classifier *)
(* an address on either side of the border, with RTTs at and just past     *)
(* each bound, reported by the first query or after two lost ones.         *)
(***************************************************************************)
EXTENDS Prober, TLC

\* An address is named by what is known of it.
A(kind, country, asn) == [class |-> kind, country |-> country, asn |-> asn]

MCRTTs ==
    [a \in {A("private", "", "none"), A("public", "CN", "none")}
           \cup {A("public", "CN", as) : as \in {"carrier", "cn2", "cernet"}}
           |-> IF a.class = "private" THEN {1} ELSE {5}]
    @@ A("public", "US", "carrier") :> {4, 10, 11}
    @@ A("public", "US", "cn2") :> {4, 10}
    @@ A("public", "US", "transit") :> {10}
    @@ A("public", "US", "other") :> {80, 81}
    @@ A("target", "US", "other") :> {10}
    @@ A("public", "", "other") :> {10}

MCAddresses == DOMAIN MCRTTs
MCclass == [a \in MCAddresses |-> a.class]
MCCity  == [a \in MCAddresses |-> a.country]
MCASN   == [a \in MCAddresses |-> a.asn]

Ok(a, rtt) == [Success |-> TRUE, Address |-> a, RTT |-> rtt]
Lost    == [Success |-> FALSE, Address |-> NoAddress, RTT |-> 0]
Unnamed == [Success |-> TRUE, Address |-> NoAddress, RTT |-> 7]

Oks == UNION {{Ok(a, rtt) : rtt \in MCRTTs[a]} : a \in MCAddresses}

MCSampleLists ==
    {<<s, Lost>> : s \in Oks} \cup {<<Lost, Unnamed, Ok(A("public", "US", "cn2"), 4),
                                      Ok(A("private", "", "none"), 1)>>}
        \cup {<<Lost, Unnamed>>, <<>>}

MCHops == {EnrichHop(db, s) : db \in SUBSET Database, s \in Oks}

MCOutputs == {<<"trace">>, <<"text", "trace">>, <<"text", "object", "trace">>,
              <<"object", "trace">>, <<"text", "trace", "object">>, <<"trace", "text">>,
              <<"text">>, <<>>}
=============================================================================
