--------------------------- MODULE MCPassthrough ---------------------------
(* Passthrough with two accounts and an error of every kind of consequence. *)
EXTENDS Passthrough, TLC

CONSTANTS a1, a2
MCAccounts == {a1, a2}
\* Retried elsewhere; retried here too; final; quota.
MCErrors == {{"http401"}, {"network"}, {"http404"}, {"http429"}, {"rate_limit"}}
=============================================================================
