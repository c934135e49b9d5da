-------------------------------- MODULE Fifo --------------------------------
(***************************************************************************)
(* What a circular buffer between two processes promises: a bounded queue, *)
(* first in, first out.  A place may be taken before its item is known; it *)
(* holds up what comes behind it until the item is filled in.              *)
(***************************************************************************)
EXTENDS Integers, Sequences

CONSTANTS Capacity, Items, Reserved

VARIABLE fifo

Init == fifo = <<>>

Enqueue(x) == Len(fifo) < Capacity /\ fifo' = Append(fifo, x)

Reserve == Enqueue(Reserved)

Fill(i, x) == fifo[i] = Reserved /\ fifo' = [fifo EXCEPT ![i] = x]

Dequeue == fifo # <<>> /\ Head(fifo) \in Items /\ fifo' = Tail(fifo)

Next ==
    \/ Reserve
    \/ Dequeue
    \/ \E x \in Items : Enqueue(x) \/ \E i \in 1..Len(fifo) : Fill(i, x)

Spec == Init /\ [][Next]_fifo
=============================================================================
