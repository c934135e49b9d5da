---------------------------- MODULE BarrierPool ----------------------------
(***************************************************************************)
(* The shared resources of a communicator on one host: an element of the   *)
(* pool of barriers (collective/barrierSetup.cc) and one of the pool of    *)
(* collective buffers (initializeCollectives).  The first process of a     *)
(* communicator to arrive takes a free element, the others find it by      *)
(* context and root, the last one to free gives it back.  The lock of the  *)
(* barrier is initialised again by every process that joins.  Contexts are *)
(* created and freed as MPI_Comm_dup and MPI_Comm_split do.                *)
(***************************************************************************)
EXTENDS Integers, FiniteSets, FiniteSetsExt

CONSTANTS
    PoolProcs,      \* the processes of the host, numbered
    NContexts,      \* bound on the communicators created, 1..NContexts
    GroupOf(_, _),  \* the group of a process in a context
    NElements,      \* the size of each of the two pools
    PoolCalls       \* barrier calls a process makes on a communicator

VARIABLES
    bar,        \* control and shared data of the barrier elements
    coll,       \* control data of the collective buffers
    life,       \* what a process has done of the life of a communicator
    barCtl,     \* its element of the barrier pool, 0 for none
    collIdx,    \* its element of the buffer pool, 0 for none
    priv,       \* the private copies of barrierData: commSize, releaseCnt
    busy,       \* the barrier call a process is in
    made        \* barrier calls made, per process and context

poolVars == <<bar, coll, life, barCtl, collIdx, priv, busy, made>>

Contexts == 1..NContexts
Elements == 1..NElements
Root(p, c) == Min(GroupOf(p, c))
NoCall == [at |-> "out", ctx |-> 0, loaded |-> 0]

PoolInit ==
    /\ bar = [e \in Elements |-> [inUse |-> FALSE, contextID |-> -1, commRoot |-> -1,
                                  nFreed |-> 0, Counter |-> 0, holder |-> {}]]
    /\ coll = [e \in Elements |-> [inUse |-> FALSE, contextID |-> -1,
                                   commRoot |-> -1, nFreed |-> 0]]
    /\ life = [p \in PoolProcs |-> [c \in Contexts |-> "none"]]
    /\ barCtl = [p \in PoolProcs |-> [c \in Contexts |-> 0]]
    /\ collIdx = [p \in PoolProcs |-> [c \in Contexts |-> 0]]
    /\ priv = [p \in PoolProcs |->
                  [e \in Elements |-> [commSize |-> 0, releaseCnt |-> 0]]]
    /\ busy = [p \in PoolProcs |-> NoCall]
    /\ made = [p \in PoolProcs |-> [c \in Contexts |-> 0]]

FreeIn(pool) == {e \in Elements : ~pool[e].inUse}

\* The element that a process of the same communicator has taken already.
HeldFor(pool, p, c) ==
    {e \in Elements : pool[e].inUse /\ pool[e].contextID = c
                                    /\ pool[e].commRoot = Root(p, c)}

\* A process is in the application: not in a barrier, not creating anything.
Idle(p) ==
    /\ busy[p] = NoCall
    /\ \A c \in Contexts : life[p][c] \notin {"barrier", "setup"}

\* The shared data of an element, as a process that joins leaves it.
Join(e) == [bar[e] EXCEPT !.holder = {}]

\* genericSMPBarrierSetup, under swBarrier.Lock.
BarrierSetup(p, c) ==
    LET held == HeldFor(bar, p, c)
        e == IF held # {} THEN Min(held) ELSE Min(FreeIn(bar))
    IN  /\ Idle(p)
        /\ life[p][c] = "none"
        /\ \A d \in Contexts : d < c => life[p][d] # "none"
        /\ IF held = {} /\ FreeIn(bar) = {}
           THEN /\ life' = [life EXCEPT ![p][c] = "failed"]
                /\ UNCHANGED <<bar, barCtl, priv>>
           ELSE /\ bar' = [bar EXCEPT ![e] =
                     IF held # {} THEN Join(e)
                     ELSE [inUse |-> TRUE, contextID |-> c, commRoot |-> Root(p, c),
                           nFreed |-> 0, Counter |-> 0, holder |-> {}]]
                /\ priv' = [priv EXCEPT ![p][e] =
                     [commSize |-> Cardinality(GroupOf(p, c)), releaseCnt |-> 0]]
                /\ barCtl' = [barCtl EXCEPT ![p][c] = e]
                /\ life' = [life EXCEPT ![p][c] = "barrier"]
        /\ UNCHANGED <<coll, collIdx, busy, made>>

\* initializeCollectives, under the lock of the pool of buffers.
CollectiveSetup(p, c) ==
    LET held == HeldFor(coll, p, c)
        e == IF held # {} THEN Min(held) ELSE Min(FreeIn(coll))
    IN  /\ life[p][c] = "barrier"
        /\ IF held = {} /\ FreeIn(coll) = {}
           THEN /\ life' = [life EXCEPT ![p][c] = "failed"]
                /\ UNCHANGED <<coll, collIdx>>
           ELSE /\ coll' = IF held # {} THEN coll
                           ELSE [coll EXCEPT ![e] =
                                   [inUse |-> TRUE, contextID |-> c,
                                    commRoot |-> Root(p, c), nFreed |-> 0]]
                /\ collIdx' = [collIdx EXCEPT ![p][c] = e]
                /\ life' = [life EXCEPT ![p][c] = "setup"]
        /\ UNCHANGED <<bar, barCtl, priv, busy, made>>

\* Mutant: MPI_Comm_dup returns without the barrier on the old communicator.
NobodyToWaitFor(c) == TRUE

\* The barrier on the old communicator at the end of MPI_Comm_dup and split.
AllSetUp(c) == \A q \in PoolProcs : life[q][c] \notin {"none", "barrier"}

CreateReturns(p, c) ==
    /\ life[p][c] = "setup"
    /\ AllSetUp(c)
    /\ life' = [life EXCEPT ![p][c] = "ready"]
    /\ UNCHANGED <<bar, coll, barCtl, collIdx, priv, busy, made>>

PoolEnter(p, c) ==
    LET e == barCtl[p][c]
    IN  /\ Idle(p)
        /\ life[p][c] = "ready"
        /\ made[p][c] < PoolCalls
        /\ made' = [made EXCEPT ![p][c] = @ + 1]
        /\ priv' = [priv EXCEPT ![p][e].releaseCnt = @ + priv[p][e].commSize]
        /\ busy' = [busy EXCEPT ![p] = [at |-> "lock", ctx |-> c, loaded |-> 0]]
        /\ UNCHANGED <<bar, coll, life, barCtl, collIdx>>

PoolLock(p) ==
    LET e == barCtl[p][busy[p].ctx]
    IN  /\ busy[p].at = "lock"
        /\ bar[e].holder = {}
        /\ bar' = [bar EXCEPT ![e].holder = {p}]
        /\ busy' = [busy EXCEPT ![p].at = "store", ![p].loaded = bar[e].Counter]
        /\ UNCHANGED <<coll, life, barCtl, collIdx, priv, made>>

PoolStore(p) ==
    LET e == barCtl[p][busy[p].ctx]
    IN  /\ busy[p].at = "store"
        /\ bar' = [bar EXCEPT ![e].Counter = busy[p].loaded + 1, ![e].holder = {}]
        /\ busy' = [busy EXCEPT ![p].at = "spin"]
        /\ UNCHANGED <<coll, life, barCtl, collIdx, priv, made>>

PoolLeave(p) ==
    LET e == barCtl[p][busy[p].ctx]
    IN  /\ busy[p].at = "spin"
        /\ bar[e].Counter >= priv[p][e].releaseCnt
        /\ busy' = [busy EXCEPT ![p] = NoCall]
        /\ UNCHANGED <<bar, coll, life, barCtl, collIdx, priv, made>>

\* The control data of an element after one more process has freed it.
Freed(ctl, n) == [ctl EXCEPT !.nFreed = @ + 1, !.inUse = (ctl.nFreed + 1 # n)]

\* nToFree in freeCollectivesResources.
NToFree(p, c) == Cardinality(GroupOf(p, c))

\* barrierFree and freeCollectivesResources, when the communicator is freed.
FreeCommunicator(p, c) ==
    LET e == barCtl[p][c]
        k == collIdx[p][c]
        freed == Freed(coll[k], NToFree(p, c))
    IN  /\ Idle(p)
        /\ life[p][c] = "ready"
        /\ made[p][c] = PoolCalls
        /\ bar' = [bar EXCEPT ![e] = Freed(bar[e], priv[p][e].commSize)]
        /\ coll' = [coll EXCEPT ![k] =
              IF freed.inUse THEN freed
              ELSE [freed EXCEPT !.contextID = -1, !.commRoot = -1]]
        /\ barCtl' = [barCtl EXCEPT ![p][c] = 0]
        /\ collIdx' = [collIdx EXCEPT ![p][c] = 0]
        /\ life' = [life EXCEPT ![p][c] = "freed"]
        /\ UNCHANGED <<priv, busy, made>>

PoolNext == \E p \in PoolProcs :
    \/ PoolLock(p)
    \/ PoolStore(p)
    \/ PoolLeave(p)
    \/ \E c \in Contexts :
        \/ BarrierSetup(p, c)
        \/ CollectiveSetup(p, c)
        \/ CreateReturns(p, c)
        \/ PoolEnter(p, c)
        \/ FreeCommunicator(p, c)

-----------------------------------------------------------------------------
\* Processes use the same element exactly when they are in the same
\* communicator: two communicators never share a barrier or a buffer, although
\* MPI_Comm_split gives several of them the same context, and elements are
\* reused.
SharedByOneCommunicator ==
    \A p, q \in PoolProcs, c, d \in Contexts :
        /\ barCtl[p][c] # 0 /\ barCtl[q][d] # 0 =>
             (barCtl[p][c] = barCtl[q][d] <=> c = d /\ GroupOf(p, c) = GroupOf(q, d))
        /\ collIdx[p][c] # 0 /\ collIdx[q][d] # 0 =>
             (collIdx[p][c] = collIdx[q][d] <=> c = d /\ GroupOf(p, c) = GroupOf(q, d))

Arrived(p, c) ==
    IF busy[p].ctx = c /\ busy[p].at \in {"lock", "store"}
    THEN made[p][c] - 1 ELSE made[p][c]

\* The counter of a barrier in use has all the arrivals of its communicator:
\* neither the reset by the first process nor the initialisation of the lock by
\* the later ones falls into somebody's barrier.
ArrivalsCounted ==
    \A p \in PoolProcs, c \in Contexts : barCtl[p][c] # 0 =>
        bar[barCtl[p][c]].Counter =
            MapThenSumSet(LAMBDA q : Arrived(q, c), GroupOf(p, c))

\* An element is given back when, and only when, all processes of its
\* communicator have freed it: none leaks, and none is taken from under a
\* process that still spins.
GivenBackByTheLast ==
    \A p \in PoolProcs, c \in Contexts : life[p][c] = "freed" =>
        /\ (\E e \in Elements : e \in HeldFor(bar, p, c)) <=>
             (\E q \in GroupOf(p, c) : life[q][c] # "freed")
        /\ (\E e \in Elements : e \in HeldFor(coll, p, c)) <=>
             (\E q \in GroupOf(p, c) : life[q][c] # "freed")

\* The shared elements serve one communicator at a time, through set-up, barriers and
\* freeing by processes that run at their own pace (barrierSetup.cc).
PoolElementsSafe == SharedByOneCommunicator /\ ArrivalsCounted /\ GivenBackByTheLast
=============================================================================
