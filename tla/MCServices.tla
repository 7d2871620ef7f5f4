----------------------------- MODULE MCServices -----------------------------
(* The service the guardian stops first.                                   *)
EXTENDS Services

MCOrder == <<"llama">>
=============================================================================
