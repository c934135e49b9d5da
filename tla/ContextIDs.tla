----------------------------- MODULE ContextIDs -----------------------------
(***************************************************************************)
(* How the processes of a job agree on the identifier of a new             *)
(* communicator.  Identifiers are dealt out in blocks: process p owns the  *)
(* blocks p, p + NProcs, p + 2 NProcs, ...  In each call that makes a      *)
(* communicator one process takes its next identifier, and the others get  *)
(* it from that one through broadcasts and messages between leaders.       *)
(*                                                                         *)
(* A call is [kind, local, remote, localLeader, remoteLeader].  "intra" is *)
(* dup, create or split of an intra-communicator with the group local;     *)
(* "inter" is dup or merge of an inter-communicator with the groups local  *)
(* and remote; "create" is MPI_Intercomm_create of two groups, whose       *)
(* leaders are given as positions.  Each call is made by a thread of its   *)
(* own, on a communicator of its own.                                      *)
(***************************************************************************)
EXTENDS Integers, Sequences, FiniteSets

CONSTANTS NProcs, BlockSize, FirstID, Calls

ASSUME JobAssumption ==
    /\ NProcs \in Nat \ {0}
    /\ BlockSize \in Nat \ {0}
    /\ FirstID \in Nat

IdProcs == 0..(NProcs - 1)
CallIds == DOMAIN Calls
NoID == -1

cycleSize == BlockSize * NProcs

VARIABLES
  nextID,       \* the next identifier of each process
  outOfBounds,  \* the end of the block it is in
  newID,        \* newID[k][p]: what p holds as the result of call k
  issued        \* the identifiers taken, with the call and the process

idVars == <<nextID, outOfBounds, newID, issued>>

Member(k, p) == \E i \in DOMAIN Calls[k].local : Calls[k].local[i] = p
RemoteMember(k, p) == \E i \in DOMAIN Calls[k].remote : Calls[k].remote[i] = p

\* The two groups, and the leaders, as process p of the call sees them.
Mine(k, p) == IF Member(k, p) THEN Calls[k].local ELSE Calls[k].remote
Leader(k, p) == IF Member(k, p) THEN Calls[k].local[Calls[k].localLeader]
                                ELSE Calls[k].remote[Calls[k].remoteLeader]
OtherLeader(k, p) == IF Member(k, p) THEN Calls[k].remote[Calls[k].remoteLeader]
                                     ELSE Calls[k].local[Calls[k].localLeader]
Root(k, p) == Mine(k, p)[1]

\* The root that generates for an inter-communicator is the larger of the two,
\* whatever its comment says.
minRoot(k) == IF Calls[k].remote[1] > Calls[k].local[1] THEN Calls[k].remote[1]
                                                        ELSE Calls[k].local[1]

\* In ulm_intercomm_create every process compares its own rank, not that of its
\* leader, with the rank of the other leader.
Generating(k, p) == p < OtherLeader(k, p)
BcastRoot(k, p) == IF Generating(k, p) THEN Root(k, p) ELSE Leader(k, p)

\* From whom p gets the identifier; itself means that p takes a new one.
Source(k, p) ==
    CASE Calls[k].kind = "intra" -> Root(k, p)
      [] Calls[k].kind = "inter" -> IF p = Root(k, p) THEN minRoot(k) ELSE Root(k, p)
      [] OTHER -> IF ~Generating(k, p) /\ p = Leader(k, p) THEN OtherLeader(k, p)
                                                           ELSE BcastRoot(k, p)

\* Mutant: the leaders' roles in the exchange are swapped.
SendsSwapped(k, q, p) ==
    Calls[k].kind = "create" =>
        IF p = Leader(k, p) /\ ~Generating(k, p) THEN ~Generating(k, q)
                                                 ELSE BcastRoot(k, q) = q

\* Whether q sends p what p waits for: in a broadcast q must take itself for the
\* root, and a leader sends its identifier if it is the generating one.
Sends(k, q, p) ==
    Calls[k].kind = "create" =>
        IF p = Leader(k, p) /\ ~Generating(k, p) THEN Generating(k, q)
                                                 ELSE BcastRoot(k, q) = q

Waits(k, p) == (Member(k, p) \/ RemoteMember(k, p)) /\ newID[k][p] = NoID

-----------------------------------------------------------------------------
IdInit ==
    /\ nextID = [p \in IdProcs |-> FirstID + p * BlockSize]
    /\ outOfBounds = [p \in IdProcs |-> FirstID + p * BlockSize + BlockSize]
    /\ newID = [k \in CallIds |-> [p \in IdProcs |-> NoID]]
    /\ issued = {}

\* Mutant: skips one block, not the blocks of the other processes.
AdvanceSamePlace(p) ==
    IF nextID[p] + 1 = outOfBounds[p]
    THEN /\ nextID' = [nextID EXCEPT ![p] = @ + 1 + BlockSize]
         /\ outOfBounds' = [outOfBounds EXCEPT ![p] = @ + cycleSize]
    ELSE /\ nextID' = [nextID EXCEPT ![p] = @ + 1]
         /\ UNCHANGED outOfBounds

\* After the last identifier of a block comes the first of the next cycle.
Advance(p) ==
    IF nextID[p] + 1 = outOfBounds[p]
    THEN /\ nextID' = [nextID EXCEPT ![p] = @ + 1 + (cycleSize - BlockSize)]
         /\ outOfBounds' = [outOfBounds EXCEPT ![p] = @ + cycleSize]
    ELSE /\ nextID' = [nextID EXCEPT ![p] = @ + 1]
         /\ UNCHANGED outOfBounds

\* Under idLock.
Generate(k, p) ==
    /\ Waits(k, p)
    /\ Source(k, p) = p
    /\ newID' = [newID EXCEPT ![k][p] = nextID[p]]
    /\ issued' = issued \cup {[id |-> nextID[p], call |-> k, proc |-> p]}
    /\ Advance(p)

GetFrom(k, q, p) ==
    /\ Waits(k, p)
    /\ Source(k, p) = q
    /\ q # p
    /\ newID[k][q] # NoID
    /\ Sends(k, q, p)
    /\ newID' = [newID EXCEPT ![k][p] = newID[k][q]]
    /\ UNCHANGED <<nextID, outOfBounds, issued>>

IdStep(k, p) == Generate(k, p) \/ \E q \in IdProcs : GetFrom(k, q, p)

IdNext == \E k \in CallIds, p \in IdProcs : IdStep(k, p)

IdSpec == IdInit /\ [][IdNext]_idVars

-----------------------------------------------------------------------------
\* Two communicators never have the same identifier, also in processes that do
\* not know of each other's communicators: messages are told apart by it.
ContextsDistinct ==
    \A j, k \in CallIds : \A p, q \in IdProcs :
        j # k /\ newID[j][p] # NoID => newID[j][p] # newID[k][q]

\* The members of a new communicator hold the same identifier for it, and only
\* one was taken.
SameContextID ==
    \A k \in CallIds : \A p, q \in IdProcs :
        newID[k][p] # NoID /\ newID[k][q] # NoID => newID[k][p] = newID[k][q]

\* As long as a process waits for an identifier somebody can go on; since every
\* step ends one wait, every process gets its identifier (getNewContextID,
\* ulm_intercomm_create: the broadcasts and messages of a call match).
NobodyStuck ==
    (\E k \in CallIds, p \in IdProcs : Waits(k, p)) =>
        \E k \in CallIds, p \in IdProcs :
            /\ Waits(k, p)
            /\ LET q == Source(k, p) IN q = p \/ (newID[k][q] # NoID /\ Sends(k, q, p))

\* Every call ends, with the same identifier at all the members.
CallsAgree == SameContextID /\ NobodyStuck

\* Process p takes identifiers from its own blocks only.
Stripe(p) == {i \in Nat : \E c \in Nat : /\ FirstID + p * BlockSize + c * cycleSize <= i
                                         /\ i < FirstID + (p + 1) * BlockSize + c * cycleSize}

\* The inductive invariant behind ContextsDistinct: where a process is in its
\* blocks, and that an identifier a process holds was issued for that call.
IdInv ==
    /\ nextID \in [IdProcs -> Nat]
    /\ outOfBounds \in [IdProcs -> Nat]
    /\ newID \in [CallIds -> [IdProcs -> Nat \cup {NoID}]]
    /\ issued \subseteq [id : Nat, call : CallIds, proc : IdProcs]
    /\ \A p \in IdProcs : \E c \in Nat :
          /\ outOfBounds[p] = FirstID + (p + 1) * BlockSize + c * cycleSize
          /\ nextID[p] >= outOfBounds[p] - BlockSize
          /\ nextID[p] < outOfBounds[p]
    /\ \A r \in issued : r.id \in Stripe(r.proc) /\ r.id < nextID[r.proc]
    /\ \A r, s \in issued : r.id = s.id => r = s
    /\ \A k \in CallIds, p \in IdProcs :
          newID[k][p] # NoID => \E r \in issued : r.id = newID[k][p] /\ r.call = k
=============================================================================
