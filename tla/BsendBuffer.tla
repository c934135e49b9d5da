----------------------------- MODULE BsendBuffer -----------------------------
(***************************************************************************)
(* The buffer of a process for buffered sends: MPI_Buffer_attach and       *)
(* detach, the ranges that MPI_Bsend, MPI_Ibsend and MPI_Bsend_init take   *)
(* from it (first fit), their reference counts, and the life of the send   *)
(* descriptors that use them.  Threads of the application call these       *)
(* operations; the library's progress loops run in between.  Every access  *)
(* to the buffer is under bsendData->lock.                                 *)
(*                                                                         *)
(* A correct application is assumed: it starts or completes only requests  *)
(* it holds, and takes no part of the buffer while it detaches it.  A      *)
(* persistent send whose start fails is left out (an error that ends the   *)
(* program unless it has an error handler of its own).                     *)
(***************************************************************************)
EXTENDS Integers, FiniteSets, FiniteSetsExt

CONSTANTS
  Blocks,     \* addresses of ULMBufferRange_t structures
  Requests,   \* send descriptors
  Threads,
  MsgSizes,   \* the packed sizes of messages; an empty one takes no range
  BufferLength

ASSUME BsendAssumption == MsgSizes \subseteq Nat \ {0} /\ BufferLength \in Nat

VARIABLES
  bsendData,  \* [poolInUse, bufferLength, bytesInUse, allocations]
  sendDesc,
  call,       \* what a thread does between two critical sections
  detaching   \* MPI_Buffer_detach is in its loop

bsendVars == <<bsendData, sendDesc, call, detaching>>

NoRequest == "no request"

\* where: the list of the descriptor; "off" is ONNOLIST, "in use" is
\* REQUESTINUSE, "pool" the free list.
FreeDesc == [where |-> "pool", persistent |-> FALSE, status |-> "invalid",
             done |-> FALSE, freeCalled |-> FALSE, persistFreeCalled |-> FALSE,
             offset |-> 0, len |-> 0]
Idle == [op |-> "none"]

Allocated(b) == DOMAIN b.allocations

-----------------------------------------------------------------------------
(* The list of ranges: operators on the structure.                         *)

\* Mutant: the last byte of a range is taken for free.
OpenAtOffByOne(b, o, size) ==
    \A a \in Allocated(b) : LET r == b.allocations[a] IN
        o + size <= r.offset \/ r.offset + r.len - 1 <= o

OpenAt(b, o, size) ==
    \A a \in Allocated(b) : LET r == b.allocations[a] IN
        o + size <= r.offset \/ r.offset + r.len <= o

\* The places the walk along the sorted list tries: the start of the buffer and
\* the end of each range.
Places(b, size) ==
    IF b.bufferLength - b.bytesInUse < size THEN {}
    ELSE {o \in {0} \cup {b.allocations[a].offset + b.allocations[a].len : a \in Allocated(b)} :
            OpenAt(b, o, size) /\ o + size <= b.bufferLength}

FirstPlace(b, size) == {o \in Places(b, size) : \A p \in Places(b, size) : o <= p}

With(b, bytes, allocations) ==
    [poolInUse |-> b.poolInUse, bufferLength |-> b.bufferLength,
     bytesInUse |-> bytes, allocations |-> allocations]

\* ulm_bsend_alloc: structure a gets the place o.
BsendAlloc(b, a, o, size, freeAtZero) ==
    With(b, b.bytesInUse + size,
         [x \in Allocated(b) \cup {a} |->
            IF x = a THEN [offset |-> o, len |-> size, request |-> NoRequest,
                           refCount |-> -1, freeAtZero |-> freeAtZero]
                     ELSE b.allocations[x]])

\* The three fields of a range that change.
Mark(b, a, request, refCount, freeAtZero) ==
    With(b, b.bytesInUse,
         [x \in Allocated(b) |->
            IF x = a THEN [offset |-> b.allocations[x].offset, len |-> b.allocations[x].len,
                           request |-> request, refCount |-> refCount, freeAtZero |-> freeAtZero]
                     ELSE b.allocations[x]])

\* The ranges in gone are freed; detaching marks the others.
Drop(b, gone, wantToDetach) ==
    With(b, b.bytesInUse - MapThenSumSet(LAMBDA a : b.allocations[a].len, gone),
         [a \in Allocated(b) \ gone |-> LET r == b.allocations[a] IN
            [offset |-> r.offset, len |-> r.len, request |-> r.request,
             refCount |-> r.refCount, freeAtZero |-> r.freeAtZero \/ wantToDetach]])

\* Mutant: forgets that a range without a count belongs to a call under way.
BsendCleanAny(b, wantToDetach) ==
    Drop(b, {a \in Allocated(b) : LET r == b.allocations[a] IN
               (wantToDetach \/ r.freeAtZero) /\ r.refCount \in {-1, 0}}, wantToDetach)

\* ulm_bsend_clean_alloc
BsendClean(b, wantToDetach) ==
    Drop(b, {a \in Allocated(b) : LET r == b.allocations[a] IN
               \/ wantToDetach /\ r.refCount \in {-1, 0}
               \/ r.freeAtZero /\ r.refCount = 0}, wantToDetach)

\* ulm_bsend_find_alloc, with an offset and with -1; the search ends at the
\* first range, and NoRequest stands for NULL.
First(b, S) == CHOOSE a \in S : \A x \in S : b.allocations[a].offset <= b.allocations[x].offset

FindAt(b, offset, d) ==
    {a \in Allocated(b) : LET r == b.allocations[a] IN
        /\ r.offset = offset
        /\ r.request = d \/ (r.request = NoRequest /\ r.refCount = -1)}
FindOf(b, d) ==
    {a \in Allocated(b) : b.allocations[a].request = d /\ ~b.allocations[a].freeAtZero}

\* ulm_bsend_increment_refcount and ulm_bsend_decrement_refcount, when the range
\* is found.
Increment(b, d, offset) ==
    LET a == First(b, FindAt(b, offset, d))
        r == b.allocations[a]
    IN  Mark(b, a, d, IF r.refCount = -1 THEN 1 ELSE r.refCount + 1, r.freeAtZero)

\* Mutant: searches the way ulm_request_free does.
DecrementOf(b, d, offset) ==
    LET a == First(b, FindOf(b, d))
        r == b.allocations[a]
    IN  IF FindOf(b, d) = {} THEN b
        ELSE BsendClean(Mark(b, a, r.request, r.refCount - 1, r.freeAtZero), FALSE)

Decrement(b, d, offset) ==
    LET a == First(b, FindAt(b, offset, d))
        r == b.allocations[a]
        c == Mark(b, a, r.request, r.refCount - 1, r.freeAtZero)
    IN  IF FindAt(b, offset, d) = {} THEN b
        ELSE IF r.refCount = 1 /\ r.freeAtZero THEN BsendClean(c, FALSE) ELSE c

\* What a failed call does to the range it took, if it was not counted.
GiveUp(b, a) ==
    LET r == b.allocations[a]
    IN  IF r.refCount = -1 THEN BsendClean(Mark(b, a, r.request, 0, r.freeAtZero), FALSE) ELSE b

-----------------------------------------------------------------------------
(* Requests.                                                               *)

BsendInit ==
    /\ bsendData = [poolInUse |-> FALSE, bufferLength |-> 0, bytesInUse |-> 0,
                    allocations |-> [a \in {} |-> 0]]
    /\ sendDesc = [d \in Requests |-> FreeDesc]
    /\ call = [t \in Threads |-> Idle]
    /\ detaching = FALSE

InPool == {d \in Requests : sendDesc[d].where = "pool"}

\* isend_start leaves the descriptor on one of two lists; once it is sent, a
\* buffered send is done, and one that is not persistent was done before.
Started(d, w) == [d EXCEPT !.where = w, !.status = "incomplete",
                           !.done = ~d.persistent \/ w = "unacked",
                           !.freeCalled = FALSE, !.persistFreeCalled = FALSE]

Lists == {"incomplete", "unacked"}

MPI_Buffer_attach ==
    /\ ~bsendData.poolInUse
    /\ bsendData' = [poolInUse |-> TRUE, bufferLength |-> BufferLength, bytesInUse |-> 0,
                     allocations |-> [a \in {} |-> 0]]
    /\ UNCHANGED <<sendDesc, call, detaching>>

\* MPI_Bsend, MPI_Ibsend and MPI_Bsend_init up to the first unlock.
TakeRange(t, op, size) ==
    /\ call[t] = Idle /\ ~detaching
    /\ \/ /\ Places(bsendData, size) # {}
          /\ \E a \in Blocks \ Allocated(bsendData), o \in FirstPlace(bsendData, size) :
                /\ bsendData' = BsendAlloc(bsendData, a, o, size, op = "bsend")
                /\ call' = [call EXCEPT ![t] = [op |-> op, block |-> a]]
       \/ /\ Places(bsendData, size) = {}
          /\ call' = [call EXCEPT ![t] = [op |-> "retry", for |-> op, size |-> size]]
          /\ UNCHANGED bsendData
    /\ UNCHANGED <<sendDesc, detaching>>

\* After ulm_make_progress the ranges are cleaned and the call tries once more,
\* now always with freeAtZeroRefCount set.
RetryTake(t) ==
    /\ call[t].op = "retry"
    /\ call[t].for \in {"bsend", "init"}
    /\ LET b == BsendClean(bsendData, FALSE) IN
        \/ /\ Places(b, call[t].size) # {}
           /\ \E a \in Blocks \ Allocated(b), o \in FirstPlace(b, call[t].size) :
                /\ bsendData' = BsendAlloc(b, a, o, call[t].size, TRUE)
                /\ call' = [call EXCEPT ![t] = [op |-> call[t].for, block |-> a]]
        \/ /\ Places(b, call[t].size) = {}
           /\ bsendData' = b
           /\ call' = [call EXCEPT ![t] = Idle]
    /\ UNCHANGED <<sendDesc, detaching>>

\* The rest of MPI_Bsend and MPI_Ibsend: packing, or finding a path, may fail;
\* isend_start counts the range, and ReturnDesc gives the count back if the path
\* fails to send.
StartBsend(t) ==
    /\ call[t].op = "bsend"
    /\ \/ /\ bsendData' = GiveUp(bsendData, call[t].block)
          /\ UNCHANGED sendDesc
       \/ \E d \in InPool, w \in Lists :
            LET r == bsendData.allocations[call[t].block] IN
            /\ bsendData' = Increment(bsendData, d, r.offset)
            /\ sendDesc' = [sendDesc EXCEPT ![d] =
                    [Started(@, w) EXCEPT !.offset = r.offset, !.len = r.len]]
       \/ \E d \in InPool :
            LET r == bsendData.allocations[call[t].block] IN
            /\ bsendData' = Decrement(Increment(bsendData, d, r.offset), d, r.offset)
            /\ UNCHANGED sendDesc
    /\ call' = [call EXCEPT ![t] = Idle]
    /\ UNCHANGED detaching

\* The rest of MPI_Bsend_init.
EndBsendInit(t) ==
    /\ call[t].op = "init"
    /\ LET a == call[t].block IN
        \/ /\ bsendData' = BsendClean(Mark(bsendData, a, NoRequest, 0, TRUE), FALSE)
           /\ UNCHANGED sendDesc
        \/ \E d \in InPool :
            /\ bsendData' = Mark(bsendData, a, d, -1, bsendData.allocations[a].freeAtZero)
            /\ sendDesc' = [sendDesc EXCEPT ![d] =
                    [@ EXCEPT !.where = "in use", !.persistent = TRUE, !.status = "inited",
                              !.offset = bsendData.allocations[a].offset,
                              !.len = bsendData.allocations[a].len]]
    /\ call' = [call EXCEPT ![t] = Idle]
    /\ UNCHANGED detaching

\* The application may start a persistent request that is not active while the
\* buffer it was made for is attached.
MayStart(d) ==
    /\ sendDesc[d].persistent /\ ~sendDesc[d].freeCalled
    /\ sendDesc[d].status \in {"inited", "inactive"}
    /\ \E a \in Allocated(bsendData) : bsendData.allocations[a].request = d
    /\ ~detaching

\* ulm_start uses a descriptor again that was never started, or whose message is
\* acknowledged and on no list.
Reusable(d) == sendDesc[d].status = "inited" \/ (sendDesc[d].where = "off" /\ sendDesc[d].done)

StartAgain(t, d) ==
    /\ call[t] = Idle /\ MayStart(d) /\ Reusable(d)
    /\ \E w \in Lists : sendDesc' = [sendDesc EXCEPT ![d] = Started(@, w)]
    /\ UNCHANGED <<bsendData, call, detaching>>

\* e takes over from d with range a.
TakeOver(descs, b, e, a, w) ==
    /\ bsendData' = Mark(b, a, e, -1, b.allocations[a].freeAtZero)
    /\ sendDesc' = [descs EXCEPT ![e] = [Started(@, w) EXCEPT !.offset = b.allocations[a].offset]]

\* Otherwise ulm_start takes a new descriptor and a new range; the old
\* descriptor is released when its message is.
StartAnew(t, d) ==
    /\ call[t] = Idle /\ MayStart(d) /\ ~Reusable(d)
    /\ \E e \in InPool :
        LET descs == [sendDesc EXCEPT
                ![d] = [@ EXCEPT !.persistent = FALSE, !.done = TRUE,
                                 !.freeCalled = TRUE, !.persistFreeCalled = TRUE],
                ![e] = [@ EXCEPT !.where = "in use", !.persistent = TRUE,
                                 !.status = "inited", !.len = sendDesc[d].len]]
            size == sendDesc[d].len
        IN  \/ /\ Places(bsendData, size) # {}
               /\ \E a \in Blocks \ Allocated(bsendData), o \in FirstPlace(bsendData, size), w \in Lists :
                    TakeOver(descs, BsendAlloc(bsendData, a, o, size, FALSE), e, a, w)
               /\ UNCHANGED call
            \/ /\ Places(bsendData, size) = {}
               /\ sendDesc' = descs
               /\ call' = [call EXCEPT ![t] = [op |-> "retry", for |-> e, size |-> size]]
               /\ UNCHANGED bsendData
    /\ UNCHANGED detaching

\* When there is no space after all, the new descriptor is lost.
RetryStart(t) ==
    /\ call[t].op = "retry"
    /\ call[t].for \in Requests
    /\ LET b == BsendClean(bsendData, FALSE) IN
        \/ /\ Places(b, call[t].size) # {}
           /\ \E a \in Blocks \ Allocated(b), o \in FirstPlace(b, call[t].size), w \in Lists :
                TakeOver(sendDesc, BsendAlloc(b, a, o, call[t].size, TRUE), call[t].for, a, w)
        \/ /\ Places(b, call[t].size) = {}
           /\ bsendData' = b
           /\ UNCHANGED sendDesc
    /\ call' = [call EXCEPT ![t] = Idle]
    /\ UNCHANGED detaching

\* ulm_request_free; ulm_bsend_find_alloc with -1 looks for a range that is not
\* to be freed at zero anyway.
RequestFreed(d) ==
    LET a == First(bsendData, FindOf(bsendData, d))
        r == bsendData.allocations[a]
        count == IF r.refCount = -1 THEN 0 ELSE r.refCount
        b == Mark(bsendData, a, d, count, TRUE)
    IN  /\ bsendData' = IF FindOf(bsendData, d) = {} THEN bsendData
                        ELSE IF count = 0 THEN BsendClean(b, FALSE) ELSE b
        /\ sendDesc' = [sendDesc EXCEPT ![d].freeCalled = TRUE, ![d].status = "invalid"]

HeldByApp(d) == sendDesc[d].where # "pool" /\ ~sendDesc[d].freeCalled
                /\ \A t \in Threads : call[t].op = "retry" => call[t].for # d

\* ulm_wait and ulm_test once messageDone is set.
Completes(d) ==
    /\ HeldByApp(d) /\ sendDesc[d].status = "incomplete" /\ sendDesc[d].done
    /\ IF sendDesc[d].persistent
       THEN /\ sendDesc' = [sendDesc EXCEPT ![d].persistFreeCalled = TRUE,
                                            ![d].status = "inactive"]
            /\ UNCHANGED bsendData
       ELSE RequestFreed(d)
    /\ UNCHANGED <<call, detaching>>

MPI_Request_free(d) ==
    /\ HeldByApp(d) /\ RequestFreed(d)
    /\ UNCHANGED <<call, detaching>>

\* Whether ReturnDesc gives up the count of the range.
CountsRange(desc) == ~(desc.persistent \/ desc.persistFreeCalled)

\* The message is off the lists; its descriptor is returned if the request was
\* freed.
OffList(d) ==
    IF sendDesc[d].freeCalled
    THEN /\ bsendData' = IF CountsRange(sendDesc[d])
                         THEN Decrement(bsendData, d, sendDesc[d].offset) ELSE bsendData
         /\ sendDesc' = [sendDesc EXCEPT ![d] = FreeDesc]
    ELSE /\ sendDesc' = [sendDesc EXCEPT ![d].where = "off", ![d].done = TRUE]
         /\ UNCHANGED bsendData

\* push_frags_into_network sends the last of a message, which may have been
\* acknowledged already.
PushSend(d) ==
    /\ sendDesc[d].where = "incomplete"
    /\ \/ OffList(d)
       \/ /\ sendDesc' = [sendDesc EXCEPT ![d].where = "unacked", ![d].done = TRUE]
          /\ UNCHANGED bsendData
    /\ UNCHANGED <<call, detaching>>

\* CheckForAckedMessages
AckedSend(d) ==
    /\ sendDesc[d].where = "unacked"
    /\ sendDesc[d].freeCalled \/ sendDesc[d].persistFreeCalled
    /\ OffList(d)
    /\ UNCHANGED <<call, detaching>>

\* CheckForRetransmits
ResendSend(d) ==
    /\ sendDesc[d].where = "unacked"
    /\ sendDesc' = [sendDesc EXCEPT ![d].where = "incomplete"]
    /\ UNCHANGED <<bsendData, call, detaching>>

\* The end of MPI_Buffer_detach.
Detached(b) == [poolInUse |-> FALSE, bufferLength |-> 0,
                bytesInUse |-> b.bytesInUse, allocations |-> b.allocations]

MPI_Buffer_detach ==
    /\ bsendData.poolInUse /\ ~detaching
    /\ \A t \in Threads : call[t] = Idle
    /\ IF bsendData.bytesInUse > 0
       THEN detaching' = TRUE /\ UNCHANGED bsendData
       ELSE bsendData' = Detached(bsendData) /\ UNCHANGED detaching
    /\ UNCHANGED <<sendDesc, call>>

\* Once round the loop; the call fails if ulm_make_progress does.
DetachLoop ==
    /\ detaching
    /\ \/ LET b == BsendClean(bsendData, TRUE) IN
          /\ bsendData' = IF b.bytesInUse > 0 THEN b ELSE Detached(b)
          /\ detaching' = (b.bytesInUse > 0)
       \/ detaching' = FALSE /\ UNCHANGED bsendData
    /\ UNCHANGED <<sendDesc, call>>

BsendNext ==
    \/ MPI_Buffer_attach
    \/ \E t \in Threads, size \in MsgSizes : \/ TakeRange(t, "bsend", size)
                                             \/ TakeRange(t, "init", size)
    \/ \E t \in Threads : RetryTake(t) \/ StartBsend(t) \/ EndBsendInit(t) \/ RetryStart(t)
    \/ \E t \in Threads, d \in Requests : StartAgain(t, d) \/ StartAnew(t, d)
    \/ \E d \in Requests : \/ Completes(d) \/ MPI_Request_free(d)
                           \/ PushSend(d) \/ AckedSend(d) \/ ResendSend(d)
    \/ MPI_Buffer_detach
    \/ DetachLoop

BsendSpec == BsendInit /\ [][BsendNext]_bsendVars

-----------------------------------------------------------------------------
Apart(b) ==
    /\ \A a, c \in Allocated(b) : LET r == b.allocations[a] q == b.allocations[c] IN
          a # c => r.offset + r.len <= q.offset \/ q.offset + q.len <= r.offset
    /\ b.poolInUse => \A a \in Allocated(b) : LET r == b.allocations[a] IN
          r.offset + r.len <= b.bufferLength

\* The ranges handed out do not overlap and lie within the attached buffer
\* (ulm_bsend_alloc).
RangesApart == Apart(bsendData)

\* A send that counts its range keeps it, with one count, until its descriptor is
\* returned; a range a call has just taken is still there when the call goes on.
\* (A persistent send does not count its range, and loses it when the request is
\* freed while the message may still be sent again: Pt2PtGroupSend.cc:119.)
CountedSendKeepsRange ==
    /\ \A d \in Requests :
          sendDesc[d].where # "pool" /\ CountsRange(sendDesc[d]) =>
             \E a \in Allocated(bsendData) :
                bsendData.allocations[a] = [offset |-> sendDesc[d].offset, len |-> sendDesc[d].len,
                                            request |-> d, refCount |-> 1, freeAtZero |-> TRUE]
    /\ \A t \in Threads : call[t].op \in {"bsend", "init"} =>
          call[t].block \in Allocated(bsendData)
          /\ bsendData.allocations[call[t].block].refCount = -1

\* MPI_Buffer_detach waits until bytesInUse is 0, and never for nobody: bytesInUse is
\* the size of the ranges, and a positive count, which keeps a range, is due to a
\* send whose descriptor was not returned yet.
DetachWaitsForSends ==
    /\ bsendData.bytesInUse = MapThenSumSet(LAMBDA a : bsendData.allocations[a].len,
                                            Allocated(bsendData))
    /\ \A a \in Allocated(bsendData) : bsendData.allocations[a].refCount > 0 =>
        \E d \in Requests :
            /\ sendDesc[d].where # "pool" /\ CountsRange(sendDesc[d])
            /\ sendDesc[d].offset = bsendData.allocations[a].offset
            /\ bsendData.allocations[a].request = d

=============================================================================
