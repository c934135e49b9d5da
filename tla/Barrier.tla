------------------------------ MODULE Barrier ------------------------------
(***************************************************************************)
(* What a barrier promises: a process returns from its n-th call only      *)
(* after every process has made its n-th call.                             *)
(***************************************************************************)
EXTENDS Naturals

CONSTANT Procs

VARIABLES
    calls,      \* how many times a process has called the barrier
    returns     \* from how many of these calls it has returned

Init ==
    /\ calls = [p \in Procs |-> 0]
    /\ returns = [p \in Procs |-> 0]

Call(p) ==
    /\ returns[p] = calls[p]
    /\ calls' = [calls EXCEPT ![p] = @ + 1]
    /\ UNCHANGED returns

Return(p) ==
    /\ returns[p] < calls[p]
    /\ \A q \in Procs : calls[q] >= calls[p]
    /\ returns' = [returns EXCEPT ![p] = calls[p]]
    /\ UNCHANGED calls

Next == \E p \in Procs : Call(p) \/ Return(p)

Spec == Init /\ [][Next]_<<calls, returns>>
=============================================================================
