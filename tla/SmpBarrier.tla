----------------------------- MODULE SmpBarrier -----------------------------
(***************************************************************************)
(* The barrier between the processes of one host (queue/barrier.cc).  The  *)
(* counter and its lock are in shared memory; releaseCnt is private to a   *)
(* process.  The increment is a load and a store, so that what the lock    *)
(* protects can be seen.  The counter only grows: it is never reset        *)
(* between two rounds.                                                     *)
(***************************************************************************)
EXTENDS Naturals, FiniteSets

CONSTANTS
    Procs,      \* the processes of the communicator on this host
    MaxCalls    \* bound on the calls of a process

ASSUME ProcsAssumption == IsFiniteSet(Procs) /\ Procs # {}
ASSUME MaxCallsAssumption == MaxCalls \in Nat

VARIABLES
    calls,      \* calls made by each process
    releaseCnt, \* barData->releaseCnt
    Counter,    \* *(barData->Counter)
    holder,     \* the process that holds barData->lock, in a set
    at,         \* where a process is in SMPSWBarrier
    loaded      \* the value of the counter it has loaded

barrierVars == <<calls, releaseCnt, Counter, holder, at, loaded>>

commSize == Cardinality(Procs)

\* The processes that have called the barrier and not yet stored the counter.
Counting == {"lock", "load", "store"}

BarrierTypeOK ==
    /\ calls \in [Procs -> 0..MaxCalls]
    /\ releaseCnt \in [Procs -> Nat]
    /\ Counter \in Nat
    /\ holder \in SUBSET Procs
    /\ at \in [Procs -> Counting \cup {"out", "unlock", "spin"}]
    /\ loaded \in [Procs -> Nat]

BarrierInit ==
    /\ calls = [p \in Procs |-> 0]
    /\ releaseCnt = [p \in Procs |-> 0]
    /\ Counter = 0
    /\ holder = {}
    /\ at = [p \in Procs |-> "out"]
    /\ loaded = [p \in Procs |-> 0]

Enter(p) ==
    /\ at[p] = "out"
    /\ calls[p] < MaxCalls
    /\ calls' = [calls EXCEPT ![p] = @ + 1]
    /\ releaseCnt' = [releaseCnt EXCEPT ![p] = @ + commSize]
    /\ at' = [at EXCEPT ![p] = "lock"]
    /\ UNCHANGED <<Counter, holder, loaded>>

\* Mutant: the counter is incremented without the lock.
LockNoWait(p) ==
    /\ at[p] = "lock"
    /\ holder' = holder \cup {p}
    /\ at' = [at EXCEPT ![p] = "load"]
    /\ UNCHANGED <<calls, releaseCnt, Counter, loaded>>

Lock(p) ==
    /\ at[p] = "lock"
    /\ holder = {}
    /\ holder' = {p}
    /\ at' = [at EXCEPT ![p] = "load"]
    /\ UNCHANGED <<calls, releaseCnt, Counter, loaded>>

Load(p) ==
    /\ at[p] = "load"
    /\ loaded' = [loaded EXCEPT ![p] = Counter]
    /\ at' = [at EXCEPT ![p] = "store"]
    /\ UNCHANGED <<calls, releaseCnt, Counter, holder>>

Store(p) ==
    /\ at[p] = "store"
    /\ Counter' = loaded[p] + 1
    /\ at' = [at EXCEPT ![p] = "unlock"]
    /\ UNCHANGED <<calls, releaseCnt, holder, loaded>>

Unlock(p) ==
    /\ at[p] = "unlock"
    /\ holder' = holder \ {p}
    /\ at' = [at EXCEPT ![p] = "spin"]
    /\ UNCHANGED <<calls, releaseCnt, Counter, loaded>>

\* Mutant: a process is released one arrival early.
ReleasedEarly(p) == Counter + 1 >= releaseCnt[p]

\* The loop ends when the counter is no longer below releaseCnt.
Released(p) == Counter >= releaseCnt[p]

Leave(p) ==
    /\ at[p] = "spin"
    /\ Released(p)
    /\ at' = [at EXCEPT ![p] = "out"]
    /\ UNCHANGED <<calls, releaseCnt, Counter, holder, loaded>>

InBarrier(p) == Lock(p) \/ Load(p) \/ Store(p) \/ Unlock(p) \/ Leave(p)

BarrierNext == \E p \in Procs : Enter(p) \/ InBarrier(p)

BarrierSpec == BarrierInit /\ [][BarrierNext]_barrierVars

-----------------------------------------------------------------------------
\* A process returns when it has left the loop.
returns == [p \in Procs |-> IF at[p] = "out" THEN calls[p] ELSE calls[p] - 1]

Abstract == INSTANCE Barrier

\* The counting barrier of SMPSWBarrier is a barrier: nobody returns from its
\* n-th call before all have made theirs, whatever the interleaving, although
\* the counter is not reset and a fast process may already be in the next call.
ImplementsBarrier == Abstract!Spec

\* Once all processes have made their n-th call, each of them returns from it:
\* no arrival is lost from the counter.
AllReleased ==
    \A p \in Procs, n \in 1..MaxCalls :
        (\A q \in Procs : calls[q] >= n) ~> (returns[p] >= n)

-----------------------------------------------------------------------------
(* The inductive invariant.  All processes have been counted R or R+1       *)
(* times, and the counter says how many times that is in total.             *)

Counted(p) == IF at[p] \in Counting THEN calls[p] - 1 ELSE calls[p]

Ahead(R) == {p \in Procs : Counted(p) = R + 1}

BarrierInv ==
    /\ BarrierTypeOK
    /\ \A p \in Procs :
        /\ releaseCnt[p] = calls[p] * commSize
        /\ at[p] # "out" => calls[p] > 0
        /\ at[p] \in {"load", "store", "unlock"} <=> holder = {p}
        /\ at[p] = "store" => loaded[p] = Counter
        /\ returns[p] * commSize <= Counter
    /\ \E R \in 0..MaxCalls :
        /\ \A p \in Procs : Counted(p) \in {R, R + 1}
        /\ Counter = R * commSize + Cardinality(Ahead(R))
=============================================================================
