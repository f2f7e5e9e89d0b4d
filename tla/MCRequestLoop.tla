--------------------------- MODULE MCRequestLoop ---------------------------
(* Instances of RequestLoop: for the accounts and retries, for the dedup    *)
(* keys, and for the end of every request.                                 *)
EXTENDS RequestLoop, TLC

CONSTANTS r1, r2, a1, a2, nokey

\* The same body sent twice; two accounts of equal weight.
MCOneKey == {"e"}
MCSameExactKey == [r \in {r1, r2} |-> "e"]
MCNoSemanticKey == [r \in {r1, r2} |-> nokey]
MCWeight == [a \in {a1, a2} |-> 1]
MCRequestSymmetry == Permutations({r1, r2})
MCSymmetry == Permutations({r1, r2}) \cup Permutations({a1, a2})

\* An error that ends the request and marks the account, one that condemns it,
\* and one that marks it though it may be called again.
MCErrors == {{"http404"}, {"http401"}, {"forbidden"}}

\* The same user text sent twice, with the same body.
MCKeys == {"e", "s"}
MCSemanticKey == [r \in {r1, r2} |-> "s"]
MCOneAccount == [a \in {a1} |-> 1]

\* One that condemns the account and one that lets it be called again.
MCTwoErrors == {{"http401"}, {"network"}}
=============================================================================
