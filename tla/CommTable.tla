------------------------------ MODULE CommTable ------------------------------
(***************************************************************************)
(* The communicators and groups of one process (ulm_communicator_alloc.cc, *)
(* ulm_comm_free.cc and the calls that create communicators; Group.cc).    *)
(* Communicators and groups are counted by hand: a group is held once for  *)
(* each of the two roles it has in a communicator and for every handle of  *)
(* the application, a communicator by the application and by the           *)
(* inter-communicators made from it.  A communicator with no reference is  *)
(* marked and deleted by a later call, when its queues are empty.          *)
(***************************************************************************)
EXTENDS Integers, Sequences, FiniteSets, FiniteSetsExt, SequencesExt

CONSTANTS
    MaxComms,            \* bound: the identifiers 1 .. MaxComms are handed out
    MaxGroups,           \* bound: the slots of the group pool that are used
    AttributesOnInter    \* do inter-communicators get attributes?

ASSUME CommAssumption == /\ MaxComms \in Nat /\ MaxComms >= 2
                         /\ MaxGroups \in Nat /\ MaxGroups >= 2
                         /\ AttributesOnInter \in BOOLEAN

Comms == 1 .. MaxComms
Groups == 1 .. MaxGroups
World == 1
Self == 2
Absent == [refCount |-> -1]

VARIABLES
    tables,        \* the tables of the library: a record with the fields
                   \*   comms   communicators[], Absent where it is null
                   \*   groups  the reference count of each slot, 0 if free
                   \*   active  activeCommunicators[], as long as it is in use
    nextComm,      \* the next context identifier
    appComms,      \* the communicators the application may still use
    appGroups      \* how many handles the application holds of each group

commVars == <<tables, nextComm, appComms, appGroups>>

Exists(t, c) == t.comms[c] # Absent
IsInter(t, c) == t.comms[c].localGroupsComm # 0

NewComm(local, remote, localGroupsComm, okToDelete) ==
    [refCount |-> 1, marked |-> FALSE, canFree |-> okToDelete, local |-> local,
     remote |-> remote, localGroupsComm |-> localGroupsComm,
     busy |-> FALSE, attribute |-> FALSE]

-----------------------------------------------------------------------------
(* Group::incrementRefCount and ulm_group_free, on the count of a slot. *)
Hold(t, g, n) == [t EXCEPT !.groups[g] = @ + n]

(* getGroupElement: the first free slot; the group starts with one reference. *)
FreeSlots(t) == {g \in Groups : t.groups[g] = 0}
FreeSlot(t) == Min(FreeSlots(t))
NewGroup(t, n) == Hold(t, FreeSlot(t), n)

(* How often the communicators in D use group g. *)
Uses(t, D, g) ==
    Cardinality({c \in D : t.comms[c].local = g}) +
        Cardinality({c \in D : t.comms[c].remote = g})

Deletable(t) == {c \in Comms : Exists(t, c) /\ t.comms[c].marked /\ ~t.comms[c].busy}

(* The loop over the marked communicators with ulm_communicator_really_free *)
(* for each of them.                                                        *)
Sweep(t) ==
    LET D == Deletable(t) IN
    [t EXCEPT !.comms = [c \in Comms |-> IF c \in D THEN Absent ELSE @[c]],
              !.groups = [g \in Groups |-> @[g] - Uses(t, D, g)],
              !.active = SelectSeq(@, LAMBDA c : c \notin D)]

(* ulm_communicator_alloc. *)
Alloc(t, c, new) ==
    LET s == Sweep(t) IN
    [s EXCEPT !.comms[c] = new, !.active = Append(@, c)]

-----------------------------------------------------------------------------
(* ulm_comm_free of a communicator whose localGroupsComm, if any, is dealt *)
(* with: nothing happens if it may not be freed or if a delete function of *)
(* an attribute fails.                                                     *)
Refused(t, c) == ~t.comms[c].canFree \/ t.comms[c].refCount <= 0

DeleteFails(t, c, deleted) == t.comms[c].attribute /\ ~deleted

Release(t, c) ==
    LET n == t.comms[c].refCount - 1 IN
    Sweep([t EXCEPT !.comms[c].refCount = n,
                    !.comms[c].marked = (n = 0)])

FreeOne(t, c, deleted) ==
    IF Refused(t, c) \/ DeleteFails(t, c, deleted)
    THEN [ok |-> FALSE, tables |-> t]
    ELSE [ok |-> TRUE, tables |-> Release(t, c)]

(* ulm_comm_free.  An inter-communicator first frees its localGroupsComm; *)
(* what that did stays when the rest fails.                               *)
FreeComm(t, c, deletedLocal, deleted) ==
    IF Refused(t, c) \/ ~IsInter(t, c)
    THEN FreeOne(t, c, deleted)
    ELSE LET inner == FreeOne(t, t.comms[c].localGroupsComm, deletedLocal) IN
         IF inner.ok THEN FreeOne(inner.tables, c, deleted) ELSE inner

-----------------------------------------------------------------------------
(* lampi_init_postfork_communicators: two communicators that may not be *)
(* freed, each with a group of its own in both roles.                    *)
CommInit ==
    /\ tables = [comms |-> [c \in Comms |-> IF c <= Self THEN NewComm(c, c, 0, FALSE)
                                                          ELSE Absent],
                 groups |-> [g \in Groups |-> IF g <= Self THEN 2 ELSE 0],
                 active |-> <<World, Self>>]
    /\ nextComm = Self + 1
    /\ appComms = {World, Self}
    /\ appGroups = [g \in Groups |-> 0]

(* A call that made the communicator nextComm returns it. *)
Returns(t) ==
    /\ tables' = t
    /\ nextComm' = nextComm + 1
    /\ appComms' = appComms \cup {nextComm}
    /\ UNCHANGED appGroups

MayCreate(c) == c \in appComms /\ nextComm <= MaxComms

(* The inter-communicator that is made from localGroupsComm c counts it, and *)
(* its groups.                                                                *)
HoldLocalGroups(t, c) == Hold(Hold(t, t.comms[c].local, 1), t.comms[c].remote, 1)

HoldLocal(t, c) == HoldLocalGroups([t EXCEPT !.comms[c].refCount = @ + 1], c)

(* ulm_comm_dup.  The copy function of an attribute says whether the new *)
(* communicator has it.                                                  *)
\* Mutant: the localGroupsComm is not counted.
DupHoldsOnce(t, c) == HoldLocalGroups(t, c)

DupHolds(t, c) ==
    LET held == HoldLocalGroups(t, c) IN
    IF IsInter(t, c) THEN HoldLocal(held, t.comms[c].localGroupsComm) ELSE held

CommDup(c, copied) ==
    /\ MayCreate(c)
    /\ LET old == tables.comms[c]
           new == NewComm(old.local, old.remote, old.localGroupsComm, TRUE)
       IN  Returns(Alloc(DupHolds(tables, c), nextComm,
                         [new EXCEPT !.attribute = old.attribute /\ copied]))

(* ulm_comm_create. *)
CommCreateHolds == 2

CommCreate(c, g) ==
    /\ MayCreate(c)
    /\ appGroups[g] > 0
    /\ Returns(Alloc(Hold(tables, g, CommCreateHolds), nextComm, NewComm(g, g, 0, TRUE)))

(* ulm_comm_split: ulm_group_incl counts the group once, and it is counted *)
(* twice again.                                                             *)
CommSplit(c) ==
    /\ MayCreate(c)
    /\ ~IsInter(tables, c)
    /\ FreeSlots(tables) # {}
    /\ LET g == FreeSlot(tables)
       IN  Returns(Alloc(NewGroup(tables, 1 + 2), nextComm, NewComm(g, g, 0, TRUE)))

(* ulm_intercomm_create.  The group of the other side is made from the group *)
(* of MPI_COMM_WORLD, which ulm_comm_group counts.                           *)
IntercommCreate(c) ==
    /\ MayCreate(c)
    /\ ~IsInter(tables, c)
    /\ c # World
    /\ FreeSlots(tables) # {}
    /\ LET g == FreeSlot(tables)
           held == Hold(HoldLocal(tables, c), World, 1)
       IN  Returns(Alloc(NewGroup(held, 1), nextComm,
                         NewComm(tables.comms[c].local, g, c, TRUE)))

(* ulm_intercomm_merge. *)
IntercommMerge(c) ==
    /\ MayCreate(c)
    /\ IsInter(tables, c)
    /\ FreeSlots(tables) # {}
    /\ LET g == FreeSlot(tables)
       IN  Returns(Alloc(NewGroup(Hold(tables, World, 1), 1 + 1), nextComm,
                         NewComm(g, g, 0, TRUE)))

(* What the delete or copy function of an attribute may answer. *)
Answers(c) == IF c # 0 /\ tables.comms[c].attribute THEN BOOLEAN ELSE {TRUE}

CommFree(c, deletedLocal, deleted) ==
    /\ c \in appComms
    /\ LET result == FreeComm(tables, c, deletedLocal, deleted) IN
       /\ tables' = result.tables
       /\ appComms' = IF result.ok THEN appComms \ {c} ELSE appComms
    /\ UNCHANGED <<nextComm, appGroups>>

-----------------------------------------------------------------------------
GroupCall(t, g, n) ==
    /\ tables' = t
    /\ appGroups' = [appGroups EXCEPT ![g] = @ + n]
    /\ UNCHANGED <<nextComm, appComms>>

(* ulm_comm_group. *)
CommGroup(c) ==
    /\ c \in appComms
    /\ LET g == tables.comms[c].local
       IN  /\ appGroups[g] = 0
           /\ GroupCall(Hold(tables, g, 1), g, 1)

(* ulm_group_incl, of a group of the application. *)
GroupIncl(g) ==
    /\ appGroups[g] > 0
    /\ FreeSlots(tables) # {}
    /\ GroupCall(NewGroup(tables, 1), FreeSlot(tables), 1)

(* ulm_group_free. *)
GroupFree(g) ==
    /\ appGroups[g] > 0
    /\ GroupCall(Hold(tables, g, -1), g, -1)

(* ulm_attr_put, and ulm_attr_delete when the delete function succeeds. *)
Attribute(c) ==
    /\ c \in appComms
    /\ IsInter(tables, c) => AttributesOnInter
    /\ tables' = [tables EXCEPT !.comms[c].attribute = ~@]
    /\ UNCHANGED <<nextComm, appComms, appGroups>>

(* Messages of a communicator make its queues non-empty; they are drained *)
(* also after it was marked (Communicator::areQueuesEmpty).               *)
Traffic(c) ==
    /\ Exists(tables, c)
    /\ ~tables.comms[c].busy => c \in appComms
    /\ tables.comms[c].canFree
    /\ tables' = [tables EXCEPT !.comms[c].busy = ~@]
    /\ UNCHANGED <<nextComm, appComms, appGroups>>

CommNext ==
    \/ \E c \in appComms : \/ \E copied \in Answers(c) : CommDup(c, copied)
                           \/ \E g \in Groups : CommCreate(c, g)
                           \/ CommSplit(c)
                           \/ IntercommCreate(c)
                           \/ IntercommMerge(c)
                           \/ \E l \in Answers(tables.comms[c].localGroupsComm),
                                 d \in Answers(c) : CommFree(c, l, d)
                           \/ CommGroup(c)
                           \/ Attribute(c)
    \/ \E c \in Comms : Traffic(c)
    \/ \E g \in Groups : GroupIncl(g) \/ GroupFree(g)

CommSpec == CommInit /\ [][CommNext]_commVars

-----------------------------------------------------------------------------
Existing == {c \in Comms : Exists(tables, c)}

(* The tables agree with each other.  The reference count of a             *)
(* communicator is the number of its users: the application and the        *)
(* inter-communicators that name it as localGroupsComm and are not freed.  *)
(* A group is counted at least once for each role it has in a communicator *)
(* that exists and for each handle of the application.                     *)
(* activeCommunicators, whose members ulm_pending_messages looks up        *)
(* without a check, lists the communicators that exist, each of them once. *)
CommCountsExact ==
    /\ \A c \in Existing :
        tables.comms[c].refCount =
            Cardinality({i \in Existing : tables.comms[i].localGroupsComm = c /\
                                          ~tables.comms[i].marked})
            + (IF c \in appComms THEN 1 ELSE 0)
    /\ \A g \in Groups : tables.groups[g] >= Uses(tables, Existing, g) + appGroups[g]
    /\ ToSet(tables.active) = Existing /\ IsInjective(tables.active)

(* What the application may still use is there: a communicator it did not  *)
(* free, or whose ulm_comm_free failed, is not marked for deletion, nor is *)
(* the localGroupsComm on which an inter-communicator runs the collective  *)
(* parts of its calls, and the groups they name are held.                  *)
Usable(c) ==
    /\ Exists(tables, c)
    /\ ~tables.comms[c].marked
    /\ tables.groups[tables.comms[c].local] > 0
    /\ tables.groups[tables.comms[c].remote] > 0

UsedCommsKept ==
    \A c \in appComms :
        Usable(c) /\ (IsInter(tables, c) => Usable(tables.comms[c].localGroupsComm))
=============================================================================
