------------------------------- MODULE CbQueue -------------------------------
(***************************************************************************)
(* The circular buffer of util/cbQueue.h through which the processes of a  *)
(* host pass the first fragment of a message.  The writer owns the head    *)
(* and the reader the tail; they meet only in the slots.  A slot that was  *)
(* read is given back to the writer lazily: after LazyFree reads the       *)
(* reader clears that many slots, one by one, while the writer goes on.    *)
(*                                                                         *)
(* The indices wrap with a mask in the code, so Size stands for a power of *)
(* two there (512, with LazyFree = 500).  put and got count the slots      *)
(* taken and read since the start; only the properties use them.           *)
(***************************************************************************)
EXTENDS Integers, Sequences

CONSTANTS Size,      \* cbSize
          LazyFree,  \* lazyFreeFrequency
          Items,     \* the data
          Unused,    \* unusedMarker
          Reserved   \* sigSlot

ASSUME CbSizes == Size \in Nat \ {0} /\ LazyFree \in 1..Size
ASSUME CbMarkers == Unused \notin Items /\ Reserved \notin Items /\ Unused # Reserved

VARIABLES queue,       \* the slots
          headIndex,   \* head->arrayIndex
          tailIndex,   \* tail->arrayIndex
          numToClear,  \* slots read and not yet cleared
          clearing,    \* the reader is in its clearing loop
          put, got

cbVars == <<queue, headIndex, tailIndex, numToClear, clearing, put, got>>

Slots == 0..(Size - 1)

CbInit ==
    /\ queue = [s \in Slots |-> Unused]
    /\ headIndex = 0 /\ tailIndex = 0
    /\ numToClear = 0 /\ clearing = FALSE
    /\ put = 0 /\ got = 0

\* The slot after slot i, and the one n slots before it.
Advance(i) == (i + 1) % Size
Back(i, n) == (i - n) % Size

\* What writeToHead and getSlot find: no room, unless the slot was cleared.
HeadIsFree == queue[headIndex] = Unused

TakeHead(x) ==
    /\ HeadIsFree
    /\ queue' = [queue EXCEPT ![headIndex] = x]
    /\ headIndex' = Advance(headIndex)
    /\ put' = put + 1
    /\ UNCHANGED <<tailIndex, numToClear, clearing, got>>

writeToHead(x) == TakeHead(x)
getSlot == TakeHead(Reserved)

writeToSlot(s, x) ==
    /\ queue[s] = Reserved
    /\ queue' = [queue EXCEPT ![s] = x]
    /\ UNCHANGED <<headIndex, tailIndex, numToClear, clearing, put, got>>

\* readFromTail up to its clearing loop: the item is copied and, if it is time,
\* the loop begins.  Nobody else looks at the tail, so it advances here.
\* Mutant: a slot that is taken and not filled is read as well.
readFromTail_TakesReserved(x) ==
    /\ ~clearing
    /\ queue[tailIndex] # Unused
    /\ x \in Items /\ queue[tailIndex] \in {x, Reserved}
    /\ tailIndex' = Advance(tailIndex)
    /\ numToClear' = numToClear + 1
    /\ clearing' = (numToClear' = LazyFree)
    /\ got' = got + 1
    /\ UNCHANGED <<queue, headIndex, put>>
readFromTail(x) ==
    /\ ~clearing
    /\ queue[tailIndex] \notin {Unused, Reserved} /\ queue[tailIndex] = x
    /\ tailIndex' = Advance(tailIndex)
    /\ numToClear' = numToClear + 1
    /\ clearing' = (numToClear' = LazyFree)
    /\ got' = got + 1
    /\ UNCHANGED <<queue, headIndex, put>>

\* One round of the clearing loop, the oldest slot first.
ClearSlot ==
    /\ clearing
    /\ queue' = [queue EXCEPT ![Back(tailIndex, numToClear)] = Unused]
    /\ numToClear' = numToClear - 1
    /\ clearing' = (numToClear' # 0)
    /\ UNCHANGED <<headIndex, tailIndex, put, got>>

CbNext ==
    \/ getSlot
    \/ ClearSlot
    \/ \E x \in Items :
        \/ writeToHead(x)
        \/ readFromTail(x)
        \/ \E s \in Slots : writeToSlot(s, x)

CbSpec == CbInit /\ [][CbNext]_cbVars

-----------------------------------------------------------------------------
\* The slots taken so far are numbered from 0; those before Cleared were given back.
Cleared == got - numToClear

\* Why the writer may look at one slot only: the slots of the numbers from Cleared to
\* put are in use, all others are marked unused, and no two numbers that lie less
\* than Size apart have the same slot.
CbInv ==
    /\ put \in Nat /\ got \in Nat /\ numToClear \in 0..LazyFree
    /\ 0 <= Cleared /\ got <= put /\ put <= Cleared + Size
    /\ (clearing => numToClear > 0) /\ (~clearing => numToClear < LazyFree)
    /\ headIndex = put % Size /\ tailIndex = got % Size
    /\ queue \in [Slots -> Items \union {Unused, Reserved}]
    /\ \A k \in Cleared..(put - 1) : queue[k % Size] # Unused
    /\ \A k \in put..(Cleared + Size - 1) : queue[k % Size] = Unused

\* What is in the buffer and was not read.
Waiting == [i \in 1..(put - got) |-> queue[(got + i - 1) % Size]]

Queue == INSTANCE Fifo WITH Capacity <- Size, fifo <- Waiting

\* The circular buffer is a first-in first-out queue: what the reader gets is
\* what was written, in that order, each once.  The writer never takes a slot
\* that was not read, although it only looks at the one slot at its head and
\* slots are given back in batches while it runs.
ImplementsFifo == Queue!Spec
=============================================================================
