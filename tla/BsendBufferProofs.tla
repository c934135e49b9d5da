------------------------- MODULE BsendBufferProofs -------------------------
(***************************************************************************)
(* The ranges of the buffer for buffered sends never overlap, for any      *)
(* number of threads, requests and ranges.  Nothing is assumed about the   *)
(* counts: a range that is freed early may be handed out again, but never  *)
(* while it is on the list.                                                *)
(***************************************************************************)
EXTENDS BsendBuffer, TLAPS

\* c has some of the ranges of b, in the same places, in the same buffer.
Within(c, b) ==
    /\ c.poolInUse = b.poolInUse /\ c.bufferLength = b.bufferLength
    /\ Allocated(c) \subseteq Allocated(b)
    /\ \A a \in Allocated(c) : /\ c.allocations[a].offset = b.allocations[a].offset
                               /\ c.allocations[a].len = b.allocations[a].len

LEMMA WithinApart ==
  ASSUME NEW b, NEW c, Apart(b), Within(c, b)
  PROVE  Apart(c)
<1>1. ASSUME NEW a \in Allocated(c), NEW x \in Allocated(c), a # x
      PROVE  \/ c.allocations[a].offset + c.allocations[a].len <= c.allocations[x].offset
             \/ c.allocations[x].offset + c.allocations[x].len <= c.allocations[a].offset
  <2>1. a \in Allocated(b) /\ x \in Allocated(b)
    BY DEF Within
  <2>2. \/ b.allocations[a].offset + b.allocations[a].len <= b.allocations[x].offset
        \/ b.allocations[x].offset + b.allocations[x].len <= b.allocations[a].offset
    BY <1>1, <2>1 DEF Apart
  <2> QED BY <2>2 DEF Within
<1>2. ASSUME c.poolInUse, NEW a \in Allocated(c)
      PROVE  c.allocations[a].offset + c.allocations[a].len <= c.bufferLength
  <2>1. a \in Allocated(b) /\ b.poolInUse
    BY <1>2 DEF Within
  <2>2. b.allocations[a].offset + b.allocations[a].len <= b.bufferLength
    BY <2>1 DEF Apart
  <2> QED BY <2>2 DEF Within
<1> QED BY <1>1, <1>2 DEF Apart

LEMMA WithinTrans ==
  ASSUME NEW b, NEW c, NEW e, Within(c, b), Within(e, c)
  PROVE  Within(e, b)
BY DEF Within

LEMMA WithinSelf == \A b : Within(b, b)
BY DEF Within

-----------------------------------------------------------------------------
(* The operations on the list.                                             *)

LEMMA MarkWithin ==
  ASSUME NEW b, NEW a, NEW request, NEW refCount, NEW freeAtZero
  PROVE  Within(Mark(b, a, request, refCount, freeAtZero), b)
<1> DEFINE f == [x \in Allocated(b) |->
                   IF x = a THEN [offset |-> b.allocations[x].offset,
                                  len |-> b.allocations[x].len, request |-> request,
                                  refCount |-> refCount, freeAtZero |-> freeAtZero]
                            ELSE b.allocations[x]]
           m == Mark(b, a, request, refCount, freeAtZero)
<1>1. /\ m.poolInUse = b.poolInUse /\ m.bufferLength = b.bufferLength
      /\ m.allocations = f
  BY DEF Mark, With
<1>2. DOMAIN f = Allocated(b)
  OBVIOUS
<1>3. \A x \in Allocated(b) : f[x].offset = b.allocations[x].offset
                              /\ f[x].len = b.allocations[x].len
  OBVIOUS
<1> HIDE DEF f, m
<1> QED BY <1>1, <1>2, <1>3 DEF Within, Allocated, m

LEMMA CleanWithin ==
  ASSUME NEW b, NEW want
  PROVE  Within(BsendClean(b, want), b)
<1> DEFINE gone == {a \in Allocated(b) : LET r == b.allocations[a] IN
                      \/ want /\ r.refCount \in {-1, 0}
                      \/ r.freeAtZero /\ r.refCount = 0}
           f == [a \in Allocated(b) \ gone |-> LET r == b.allocations[a] IN
                   [offset |-> r.offset, len |-> r.len, request |-> r.request,
                    refCount |-> r.refCount, freeAtZero |-> r.freeAtZero \/ want]]
           m == BsendClean(b, want)
<1>1. /\ m.poolInUse = b.poolInUse /\ m.bufferLength = b.bufferLength
      /\ m.allocations = f
  BY DEF BsendClean, Drop, With
<1>2. DOMAIN f \subseteq Allocated(b)
  OBVIOUS
<1>3. \A x \in DOMAIN f : f[x].offset = b.allocations[x].offset
                          /\ f[x].len = b.allocations[x].len
  OBVIOUS
<1> HIDE DEF f, m
<1> QED BY <1>1, <1>2, <1>3 DEF Within, Allocated, m

LEMMA IncrementWithin ==
  ASSUME NEW b, NEW d, NEW offset
  PROVE  Within(Increment(b, d, offset), b)
BY MarkWithin DEF Increment

LEMMA DecrementWithin ==
  ASSUME NEW b, NEW d, NEW offset
  PROVE  Within(Decrement(b, d, offset), b)
<1> DEFINE a == First(b, FindAt(b, offset, d))
           r == b.allocations[a]
           c == Mark(b, a, r.request, r.refCount - 1, r.freeAtZero)
<1>1. Within(c, b)
  BY MarkWithin
<1>2. Within(BsendClean(c, FALSE), c)
  BY CleanWithin
<1>3. Decrement(b, d, offset) \in {b, c, BsendClean(c, FALSE)}
  BY DEF Decrement
<1>4. Within(b, b)
  BY WithinSelf
<1> HIDE DEF c
<1>5. Within(BsendClean(c, FALSE), b)
  BY <1>1, <1>2, WithinTrans
<1> QED BY <1>1, <1>3, <1>4, <1>5

LEMMA GiveUpWithin ==
  ASSUME NEW b, NEW a
  PROVE  Within(GiveUp(b, a), b)
<1> DEFINE r == b.allocations[a]
           c == Mark(b, a, r.request, 0, r.freeAtZero)
<1>1. Within(c, b)
  BY MarkWithin
<1>2. Within(BsendClean(c, FALSE), c)
  BY CleanWithin
<1>3. GiveUp(b, a) \in {b, BsendClean(c, FALSE)}
  BY DEF GiveUp
<1>4. Within(b, b)
  BY WithinSelf
<1> HIDE DEF c
<1>5. Within(BsendClean(c, FALSE), b)
  BY <1>1, <1>2, WithinTrans
<1> QED BY <1>1, <1>3, <1>4, <1>5

\* First fit: a new range is placed where no other is.
LEMMA AllocApart ==
  ASSUME NEW b, Apart(b), NEW size, NEW a, a \notin Allocated(b),
         NEW o \in FirstPlace(b, size), NEW freeAtZero
  PROVE  Apart(BsendAlloc(b, a, o, size, freeAtZero))
<1> DEFINE new == [offset |-> o, len |-> size, request |-> NoRequest,
                   refCount |-> -1, freeAtZero |-> freeAtZero]
           f == [x \in Allocated(b) \cup {a} |-> IF x = a THEN new ELSE b.allocations[x]]
           c == BsendAlloc(b, a, o, size, freeAtZero)
<1>1. c.poolInUse = b.poolInUse /\ c.bufferLength = b.bufferLength /\ c.allocations = f
  BY DEF BsendAlloc, With
<1>2. o \in Places(b, size)
  BY DEF FirstPlace
<1>3. OpenAt(b, o, size) /\ o + size <= b.bufferLength
  BY <1>2 DEF Places
<1>4. DOMAIN f = Allocated(b) \cup {a}
  OBVIOUS
<1>5. f[a].offset = o /\ f[a].len = size
  OBVIOUS
<1>6. \A x \in Allocated(b) : f[x] = b.allocations[x]
  OBVIOUS
<1> HIDE DEF f, c
<1>7. Allocated(c) = Allocated(b) \cup {a}
  BY <1>1, <1>4 DEF Allocated
<1>8. ASSUME NEW x \in Allocated(b)
      PROVE  o + size <= f[x].offset \/ f[x].offset + f[x].len <= o
  BY <1>3, <1>6 DEF OpenAt
<1>9. ASSUME NEW x \in Allocated(c), NEW y \in Allocated(c), x # y
      PROVE  f[x].offset + f[x].len <= f[y].offset \/ f[y].offset + f[y].len <= f[x].offset
  <2>1. CASE x = a
    BY <1>5, <1>7, <1>8, <1>9, <2>1
  <2>2. CASE y = a
    BY <1>5, <1>7, <1>8, <1>9, <2>2
  <2>3. CASE x # a /\ y # a
    <3>1. x \in Allocated(b) /\ y \in Allocated(b)
      BY <1>7, <2>3
    <3>2. \/ b.allocations[x].offset + b.allocations[x].len <= b.allocations[y].offset
          \/ b.allocations[y].offset + b.allocations[y].len <= b.allocations[x].offset
      BY <1>9, <3>1 DEF Apart
    <3> QED BY <1>6, <3>1, <3>2
  <2> QED BY <2>1, <2>2, <2>3
<1>10. ASSUME b.poolInUse, NEW x \in Allocated(c)
       PROVE  f[x].offset + f[x].len <= b.bufferLength
  <2>1. CASE x = a
    BY <1>3, <1>5, <2>1
  <2>2. CASE x # a
    <3>1. x \in Allocated(b)
      BY <1>7, <2>2
    <3> QED BY <1>6, <1>10, <3>1 DEF Apart
  <2> QED BY <2>1, <2>2
<1>11. Apart(c)
  BY <1>1, <1>9, <1>10 DEF Apart
<1> QED BY <1>11 DEF c
-----------------------------------------------------------------------------
(* The actions.  Each leaves the buffer within what it was, adds a range to *)
(* a cleaned buffer, or starts with an empty one.                          *)

LEMMA TakeOverApart ==
  ASSUME NEW descs, NEW b, NEW e, NEW a, NEW w, Apart(b), TakeOver(descs, b, e, a, w)
  PROVE  RangesApart'
<1>1. bsendData' = Mark(b, a, e, -1, b.allocations[a].freeAtZero)
  BY DEF TakeOver
<1>2. Apart(Mark(b, a, e, -1, b.allocations[a].freeAtZero))
  BY MarkWithin, WithinApart
<1>3. Apart(bsendData')
  BY <1>1, <1>2
<1> QED BY <1>3 DEF RangesApart, Apart, Allocated

LEMMA WithinStep ==
  ASSUME RangesApart, Within(bsendData', bsendData)
  PROVE  RangesApart'
<1>1. Apart(bsendData')
  BY WithinApart DEF RangesApart
<1> QED BY <1>1 DEF RangesApart, Apart, Allocated

LEMMA ApartStep ==
  ASSUME Apart(bsendData')
  PROVE  RangesApart'
BY DEF RangesApart, Apart, Allocated

\* The calls that take a range, at once or after a retry.
LEMMA TakingStep ==
  ASSUME RangesApart, NEW t \in Threads, NEW op, NEW size,
         TakeRange(t, op, size) \/ RetryTake(t)
  PROVE  RangesApart'
<1>1. CASE TakeRange(t, op, size)
  <2>1. CASE Places(bsendData, size) # {}
    <3>1. PICK a \in Blocks \ Allocated(bsendData), o \in FirstPlace(bsendData, size) :
             bsendData' = BsendAlloc(bsendData, a, o, size, op = "bsend")
      BY <1>1, <2>1 DEF TakeRange
    <3>2. Apart(BsendAlloc(bsendData, a, o, size, op = "bsend"))
      BY AllocApart DEF RangesApart
    <3> QED BY <3>1, <3>2, ApartStep
  <2>2. CASE Places(bsendData, size) = {}
    <3>1. bsendData' = bsendData
      BY <1>1, <2>2 DEF TakeRange
    <3> QED BY <3>1, WithinSelf, WithinStep
  <2> QED BY <2>1, <2>2
<1>2. CASE RetryTake(t)
  <2> DEFINE b == BsendClean(bsendData, FALSE)
  <2>1. Within(b, bsendData)
    BY CleanWithin
  <2>2. Apart(b)
    BY <2>1, WithinApart DEF RangesApart
  <2>3. CASE Places(b, call[t].size) # {}
    <3>1. PICK a \in Blocks \ Allocated(b), o \in FirstPlace(b, call[t].size) :
             bsendData' = BsendAlloc(b, a, o, call[t].size, TRUE)
      BY <1>2, <2>3 DEF RetryTake
    <3> HIDE DEF b
    <3>2. Apart(BsendAlloc(b, a, o, call[t].size, TRUE))
      BY <2>2, AllocApart
    <3> QED BY <3>1, <3>2, ApartStep
  <2>4. CASE Places(b, call[t].size) = {}
    <3>1. bsendData' = b
      BY <1>2, <2>4 DEF RetryTake
    <3> QED BY <2>1, <3>1, WithinStep
  <2> QED BY <2>3, <2>4
<1> QED BY <1>1, <1>2

\* ulm_start when it needs a new range.
LEMMA StartAnewStep ==
  ASSUME RangesApart, NEW t \in Threads, NEW d \in Requests, StartAnew(t, d)
  PROVE  RangesApart'
<1> DEFINE descs(e) == [sendDesc EXCEPT
                ![d] = [@ EXCEPT !.persistent = FALSE, !.done = TRUE,
                                 !.freeCalled = TRUE, !.persistFreeCalled = TRUE],
                ![e] = [@ EXCEPT !.where = "in use", !.persistent = TRUE,
                                 !.status = "inited", !.len = sendDesc[d].len]]
           size == sendDesc[d].len
<1>1. CASE Places(bsendData, size) # {}
  <2>1. PICK e \in InPool, a \in Blocks \ Allocated(bsendData),
             o \in FirstPlace(bsendData, size), w \in Lists :
          TakeOver(descs(e), BsendAlloc(bsendData, a, o, size, FALSE), e, a, w)
    BY <1>1 DEF StartAnew
  <2> HIDE DEF descs, size
  <2>2. Apart(BsendAlloc(bsendData, a, o, size, FALSE))
    BY AllocApart DEF RangesApart
  <2> QED BY <2>1, <2>2, TakeOverApart
<1>2. CASE Places(bsendData, size) = {}
  <2>1. bsendData' = bsendData
    BY <1>2 DEF StartAnew
  <2> QED BY <2>1, WithinSelf, WithinStep
<1> QED BY <1>1, <1>2

LEMMA RetryStartStep ==
  ASSUME RangesApart, NEW t \in Threads, RetryStart(t)
  PROVE  RangesApart'
<1> DEFINE b == BsendClean(bsendData, FALSE)
           size == call[t].size
<1>1. Within(b, bsendData)
  BY CleanWithin
<1>2. Apart(b)
  BY <1>1, WithinApart DEF RangesApart
<1>3. CASE Places(b, size) # {}
  <2>1. PICK a \in Blocks \ Allocated(b), o \in FirstPlace(b, size), w \in Lists :
          TakeOver(sendDesc, BsendAlloc(b, a, o, size, TRUE), call[t].for, a, w)
    BY <1>3 DEF RetryStart
  <2> HIDE DEF b, size
  <2>2. Apart(BsendAlloc(b, a, o, size, TRUE))
    BY <1>2, AllocApart
  <2> QED BY <2>1, <2>2, TakeOverApart
<1>4. CASE Places(b, size) = {}
  <2>1. bsendData' = b
    BY <1>4 DEF RetryStart
  <2> QED BY <1>1, <2>1, WithinStep
<1> QED BY <1>3, <1>4

\* ulm_request_free, by the application or at the end of a wait.
LEMMA FreedWithin ==
  ASSUME NEW d \in Requests, RequestFreed(d)
  PROVE  Within(bsendData', bsendData)
<1> DEFINE a == First(bsendData, FindOf(bsendData, d))
           r == bsendData.allocations[a]
           count == IF r.refCount = -1 THEN 0 ELSE r.refCount
           b == Mark(bsendData, a, d, count, TRUE)
<1>1. Within(b, bsendData)
  BY MarkWithin
<1>2. bsendData' \in {bsendData, b, BsendClean(b, FALSE)}
  BY DEF RequestFreed
<1>3. Within(BsendClean(b, FALSE), b)
  BY CleanWithin
<1> HIDE DEF b
<1>4. Within(BsendClean(b, FALSE), bsendData)
  BY <1>1, <1>3, WithinTrans
<1>5. Within(bsendData, bsendData)
  BY WithinSelf
<1> QED BY <1>1, <1>2, <1>4, <1>5

\* The other steps that free ranges or change a count.
LEMMA OffListWithin ==
  ASSUME NEW d \in Requests, OffList(d)
  PROVE  Within(bsendData', bsendData)
<1>1. bsendData' \in {bsendData, Decrement(bsendData, d, sendDesc[d].offset)}
  BY DEF OffList
<1> QED BY <1>1, WithinSelf, DecrementWithin

LEMMA StartBsendWithin ==
  ASSUME NEW t \in Threads, StartBsend(t)
  PROVE  Within(bsendData', bsendData)
<1>1. CASE bsendData' = GiveUp(bsendData, call[t].block)
  BY <1>1, GiveUpWithin
<1>2. CASE \E d \in InPool :
             bsendData' = Increment(bsendData, d,
                                    bsendData.allocations[call[t].block].offset)
  BY <1>2, IncrementWithin
<1>3. ASSUME NEW d, NEW o, bsendData' = Decrement(Increment(bsendData, d, o), d, o)
      PROVE  Within(bsendData', bsendData)
  BY <1>3, IncrementWithin, DecrementWithin, WithinTrans
<1> QED BY <1>1, <1>2, <1>3 DEF StartBsend

LEMMA EndBsendInitWithin ==
  ASSUME NEW t \in Threads, EndBsendInit(t)
  PROVE  Within(bsendData', bsendData)
<1> DEFINE a == call[t].block
           b == Mark(bsendData, a, NoRequest, 0, TRUE)
<1>1. CASE bsendData' = BsendClean(b, FALSE)
  <2>1. Within(b, bsendData)
    BY MarkWithin
  <2>2. Within(BsendClean(b, FALSE), b)
    BY CleanWithin
  <2> HIDE DEF b
  <2> QED BY <1>1, <2>1, <2>2, WithinTrans
<1>2. CASE \E d \in InPool :
             bsendData' = Mark(bsendData, a, d, -1, bsendData.allocations[a].freeAtZero)
  BY <1>2, MarkWithin
<1> QED BY <1>1, <1>2 DEF EndBsendInit

LEMMA DetachStep ==
  ASSUME RangesApart, MPI_Buffer_detach \/ DetachLoop
  PROVE  RangesApart'
<1>1. ASSUME NEW b, Apart(b) PROVE Apart(Detached(b))
  BY <1>1 DEF Apart, Detached, Allocated
<1>2. Apart(bsendData)
  BY DEF RangesApart
<1>3. Apart(BsendClean(bsendData, TRUE))
  BY <1>2, CleanWithin, WithinApart
<1>4. bsendData' \in {bsendData, Detached(bsendData), BsendClean(bsendData, TRUE),
                      Detached(BsendClean(bsendData, TRUE))}
  BY DEF MPI_Buffer_detach, DetachLoop
<1>5. Apart(bsendData')
  BY <1>1, <1>2, <1>3, <1>4
<1> QED BY <1>5, ApartStep

\* The ranges handed out for buffered sends never overlap and never leave the
\* buffer, whatever threads, requests and progress do (ulm_bsend_alloc).
THEOREM RangesAlwaysApart == BsendSpec => []RangesApart
<1>1. BsendInit => RangesApart
  BY DEF BsendInit, RangesApart, Apart, Allocated
<1>2. RangesApart /\ [BsendNext]_bsendVars => RangesApart'
  <2> SUFFICES ASSUME RangesApart, [BsendNext]_bsendVars PROVE RangesApart'
    OBVIOUS
  <2>1. CASE MPI_Buffer_attach
    BY <2>1 DEF MPI_Buffer_attach, RangesApart, Apart, Allocated
  <2>2. CASE \E t \in Threads, size \in MsgSizes :
                TakeRange(t, "bsend", size) \/ TakeRange(t, "init", size)
    BY <2>2, TakingStep
  <2>3. CASE \E t \in Threads : RetryTake(t)
    BY <2>3, TakingStep
  <2>4. CASE \E t \in Threads : StartBsend(t) \/ EndBsendInit(t)
    BY <2>4, StartBsendWithin, EndBsendInitWithin, WithinStep
  <2>5. CASE \E t \in Threads : RetryStart(t)
    BY <2>5, RetryStartStep
  <2>6. CASE \E t \in Threads, d \in Requests : StartAnew(t, d)
    BY <2>6, StartAnewStep
  <2>7. CASE bsendData' = bsendData
    BY <2>7, WithinSelf, WithinStep
  <2>8. CASE \E d \in Requests : Completes(d) \/ MPI_Request_free(d)
    <3>1. Within(bsendData', bsendData) \/ bsendData' = bsendData
      BY <2>8, FreedWithin DEF Completes, MPI_Request_free
    <3> QED BY <2>7, <3>1, WithinStep
  <2>9. CASE \E d \in Requests : PushSend(d) \/ AckedSend(d)
    <3>1. Within(bsendData', bsendData) \/ bsendData' = bsendData
      BY <2>9, OffListWithin DEF PushSend, AckedSend
    <3> QED BY <2>7, <3>1, WithinStep
  <2>10. CASE MPI_Buffer_detach \/ DetachLoop
    BY <2>10, DetachStep
  <2>11. CASE UNCHANGED bsendVars
    BY <2>7, <2>11 DEF bsendVars
  <2>12. CASE \E t \in Threads, d \in Requests : StartAgain(t, d)
    BY <2>7, <2>12 DEF StartAgain
  <2>13. CASE \E d \in Requests : ResendSend(d)
    BY <2>7, <2>13 DEF ResendSend
  <2> QED BY <2>1, <2>2, <2>3, <2>4, <2>5, <2>6, <2>8, <2>9, <2>10, <2>11, <2>12, <2>13
          DEF BsendNext
<1> QED BY <1>1, <1>2, PTL DEF BsendSpec
=============================================================================
