------------------------------ MODULE MCOnHost ------------------------------
(***************************************************************************)
(* What the processes of one host share, for TLC: the barrier, the pools   *)
(* of barriers and buffers, the collective operations, and the tracking    *)
(* lists, whose arrays have a fixed size in shared memory.  The four do    *)
(* not share state, so a behaviour is one of a single part.                *)
(***************************************************************************)
EXTENDS SmpBarrier, BarrierPool, HostCollectives, SeqTrackingList

CONSTANTS p1, p2, p3

\* Context 1 is everybody; context 2 splits the processes in two groups.
MCGroupOf(p, c) ==
    CASE c = 1 -> {0, 1, 2}
      [] p = 2 -> {2}
      [] OTHER -> {0, 1}

CollCall(op, root, stripes) == [op |-> op, root |-> root, stripes |-> stripes]

\* Each operation, with one block or two, then two others; with two descriptors
\* the ring wraps within the second call.
MCPrograms ==
    {<<CollCall(first, 1, n), CollCall(then[1], 0, 1), CollCall(then[2], 0, 1)>> :
        first \in {"bcast", "scatter", "scatterv", "gather", "gatherv",
                   "allgather", "reduce"},
        n \in {1, 2}, then \in {<<"bcast", "reduce">>, <<"gather", "scatter">>}}

\* Every range of small numbers, and two invalid ones.
AllRanges == {r \in (1..5) \X (1..5) : r[1] <= r[2]} \cup {<<0, 3>>, <<3, 2>>}

VARIABLE part

onHostVars == <<part, barrierVars, poolVars, collVars, vars>>

BarrierStep == BarrierNext /\ UNCHANGED <<poolVars, collVars, vars>>
PoolStep == PoolNext /\ UNCHANGED <<barrierVars, collVars, vars>>
CollectiveStep == CollNext /\ UNCHANGED <<barrierVars, poolVars, vars>>
ListStep == Next /\ UNCHANGED <<barrierVars, poolVars, collVars>>

OnHostInit ==
    /\ part \in {"barrier", "pool", "collective", "list"}
    /\ BarrierInit
    /\ PoolInit
    /\ CollInit
    /\ Init
    /\ part # "collective" => program = CHOOSE pr \in Programs : TRUE
    /\ part # "list" => arraySize = 0

OnHostNext ==
    /\ \/ part = "barrier" /\ BarrierStep
       \/ part = "pool" /\ PoolStep
       \/ part = "collective" /\ CollectiveStep
       \/ part = "list" /\ ListStep
    /\ part' = part

\* A process in a barrier or in a collective operation keeps running.
OnHostSpec ==
    /\ OnHostInit
    /\ [][OnHostNext]_onHostVars
    /\ \A p \in Procs : WF_onHostVars(part = "barrier" /\ InBarrier(p)
                                       /\ UNCHANGED <<part, poolVars, collVars, vars>>)
    /\ \A p \in Ranks : WF_onHostVars(part = "collective" /\ CollStep(p)
                                       /\ UNCHANGED <<part, barrierVars, poolVars, vars>>)
=============================================================================
