------------------------------ MODULE MCProcess ------------------------------
(***************************************************************************)
(* Tables of a process, for TLC: the buffer for buffered sends, the        *)
(* communicators and groups, and the identifiers of new communicators.     *)
(* They do not share state, so a behaviour is one of a single part.  The   *)
(* buffer is examined twice, with persistent requests and with more of the *)
(* others.                                                                 *)
(***************************************************************************)
EXTENDS BsendBuffer, CommTable, ContextIDs

Parts == {"bsend", "persistent", "comms", "ids"}

Intra(group) == [kind |-> "intra", local |-> group, remote |-> <<>>,
                 localLeader |-> 1, remoteLeader |-> 1]
Inter(local, remote) == [kind |-> "inter", local |-> local, remote |-> remote,
                         localLeader |-> 1, remoteLeader |-> 1]
Create(local, remote, l, r) == [kind |-> "create", local |-> local, remote |-> remote,
                                localLeader |-> l, remoteLeader |-> r]

\* Process 0 generates for two groups that are not the same, so it leaves its first
\* block, and the owner of a later block generates for an inter-communicator.
MCCalls == <<Intra(<<0, 1>>), Intra(<<0, 1, 2>>), Inter(<<0, 1>>, <<2>>),
             Create(<<0, 3>>, <<1, 2>>, 1, 1)>>

VARIABLE part

processVars == <<part, bsendVars, commVars, idVars>>

\* Which free structure or descriptor is taken makes no difference: the first.
Place == [d1 |-> 1, d2 |-> 2, d3 |-> 3]
InOrder ==
    /\ \A a \in Allocated(bsendData') \ Allocated(bsendData) :
            \A b \in Blocks \ Allocated(bsendData) : a <= b
    /\ \A d \in InPool \ InPool' : \A e \in InPool : Place[d] <= Place[e]

\* Three requests that are not persistent, of both sizes; or two, and two
\* messages that fill the buffer.
NoPersistent == \A t \in Threads :
    call[t].op # "init" /\ (call[t].op = "retry" => call[t].for # "init")
TwoLarge ==
    /\ \A a \in Allocated(bsendData) : bsendData.allocations[a].len = 2
    /\ \A t \in Threads : call[t].op = "retry" => call[t].size = 2
    /\ "d3" \in InPool

\* Groups the application holds, communicators with messages or an attribute.
Extras ==
    MapThenSumSet(LAMBDA g : appGroups[g], Groups)
    + Cardinality({c \in Existing : tables.comms[c].busy})
    + Cardinality({c \in Existing : tables.comms[c].attribute})

BsendStep ==
    /\ part \in {"bsend", "persistent"} /\ BsendNext /\ InOrder
    /\ IF part = "bsend" THEN NoPersistent' ELSE TwoLarge'
    /\ UNCHANGED <<part, commVars, idVars>>
CommStep == /\ part = "comms" /\ CommNext
            /\ Extras' <= (IF nextComm' = 3 THEN 2 ELSE 1)
            /\ UNCHANGED <<part, bsendVars, idVars>>
IdPartStep == part = "ids" /\ IdNext /\ UNCHANGED <<part, bsendVars, commVars>>

ProcessInit ==
    /\ part \in Parts
    /\ BsendInit /\ CommInit /\ IdInit

ProcessNext == BsendStep \/ CommStep \/ IdPartStep

ProcessSpec == ProcessInit /\ [][ProcessNext]_processVars
=============================================================================
