---------------------------- MODULE ConnTracker ----------------------------
(* What a ConnTracker promises (internal/loadbalancer/conn_tracker.go): one *)
(* counter per account, changed in single steps, that never goes below zero. *)
EXTENDS Naturals

CONSTANT Accounts

VARIABLE count

Init == count = [a \in Accounts |-> 0]

Acquire(a) == count' = [count EXCEPT ![a] = @ + 1]
Release(a) == count[a] > 0 /\ count' = [count EXCEPT ![a] = @ - 1]

Next == \E a \in Accounts : Acquire(a) \/ Release(a)

Spec == Init /\ [][Next]_count
=============================================================================
