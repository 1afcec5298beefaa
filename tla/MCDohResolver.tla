--------------------------- MODULE MCDohResolver ---------------------------
(***************************************************************************)
(* Instances of DohResolver for TLC: answers that lead to an address by an *)
(* alias or after a broken record, and answers without one.                *)
(***************************************************************************)
EXTENDS DohResolver

MCPayloads == {<<"CNAME", "A">>, <<"bad A", "A">>, <<"CNAME", "bad A">>, <<>>}
=============================================================================
