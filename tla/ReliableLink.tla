---------------------------- MODULE ReliableLink ----------------------------
(***************************************************************************)
(* What a path between two processes promises: every fragment submitted    *)
(* is delivered at most once, in any order, and the sender keeps it until  *)
(* it has been delivered.  Losses, retransmissions, acks and descriptors   *)
(* are not visible at this level.                                          *)
(***************************************************************************)
EXTENDS Naturals

CONSTANT MaxSeq

VARIABLES submitted,  \* number of fragments submitted so far
          count,      \* how often each was delivered
          released    \* fragments that the sender has let go of

vars == <<submitted, count, released>>

Init == submitted = 0 /\ count = [s \in 1..MaxSeq |-> 0] /\ released = {}

Submit == /\ submitted' \in (submitted + 1)..MaxSeq
          /\ UNCHANGED <<count, released>>

Deliver(s) == /\ s <= submitted /\ count[s] = 0
              /\ count' = [count EXCEPT ![s] = 1]
              /\ UNCHANGED <<submitted, released>>

\* One handler of the sender can release several fragments.
Release == /\ released' \in SUBSET {s \in 1..submitted : count[s] = 1}
           /\ released \subseteq released'
           /\ UNCHANGED <<submitted, count>>

Next == Submit \/ Release \/ \E s \in 1..MaxSeq : Deliver(s)

Spec == Init /\ [][Next]_vars
=============================================================================
