---------------------------- MODULE CbQueueProofs ----------------------------
(***************************************************************************)
(* For any size of the buffer and of the batches in which slots are given  *)
(* back, the circular buffer is a first-in first-out queue.                *)
(***************************************************************************)
EXTENDS CbQueue, SequenceTheorems, TLAPS

\* A remainder lies within the array, and there is a quotient to go with it.
LEMMA Quotient ==
  ASSUME NEW a \in Int, NEW n \in Int, n > 0
  PROVE  \E q \in Int : \E r \in 0..(n - 1) : a % n = r /\ a = n * q + r
<1>1. a % n \in 0..(n - 1) /\ a \div n \in Int
  OBVIOUS
<1>2. a = n * (a \div n) + (a % n)
  OBVIOUS
<1> WITNESS a \div n \in Int
<1> WITNESS a % n \in 0..(n - 1)
<1> QED BY <1>2

\* A number has one remainder.
LEMMA OneRemainder ==
  ASSUME NEW n \in Int, n > 0, NEW q1 \in Int, NEW q2 \in Int,
         NEW r1 \in Int, NEW r2 \in Int, r1 - r2 < n, r2 - r1 < n,
         n * q1 + r1 = n * q2 + r2
  PROVE  r1 = r2
OBVIOUS

\* The slot of the number m after a is found by going on m slots from that of a, ...
LEMMA SlotFrom ==
  ASSUME NEW a \in Int, NEW m \in Int, NEW n \in Int, n > 0
  PROVE  ((a % n) + m) % n = (a + m) % n
<1>1. PICK q \in Int, r \in 0..(n - 1) : a % n = r /\ a = n * q + r
  BY Quotient
<1>2. PICK p \in Int, s \in 0..(n - 1) : (a + m) % n = s /\ a + m = n * p + s
  <2> a + m \in Int
    OBVIOUS
  <2> QED BY Quotient
<1>3. PICK k \in Int, t \in 0..(n - 1) : (r + m) % n = t /\ r + m = n * k + t
  <2> r + m \in Int
    OBVIOUS
  <2> QED BY Quotient
<1>4. q + k \in Int /\ n * (q + k) + t = n * p + s
  BY <1>1, <1>2, <1>3
<1>5. t = s
  BY <1>4, OneRemainder
<1> QED BY <1>1, <1>2, <1>3, <1>5

\* ... numbers a whole buffer apart share a slot, ...
LEMMA SlotAgain ==
  ASSUME NEW a \in Int, NEW n \in Int, n > 0
  PROVE  (a + n) % n = a % n
<1>1. PICK q \in Int, r \in 0..(n - 1) : a % n = r /\ a = n * q + r
  BY Quotient
<1>2. PICK p \in Int, s \in 0..(n - 1) : (a + n) % n = s /\ a + n = n * p + s
  BY Quotient
<1>3. q + 1 \in Int /\ n * (q + 1) + r = n * p + s
  BY <1>1, <1>2
<1>4. r = s
  BY <1>3, OneRemainder
<1> QED BY <1>1, <1>2, <1>4

\* ... and numbers less than a whole buffer apart do not.
LEMMA SlotsDistinct ==
  ASSUME NEW a \in Int, NEW b \in Int, NEW n \in Int, n > 0,
         a - b < n, b - a < n, a % n = b % n
  PROVE  a = b
<1>1. PICK q \in Int, r \in 0..(n - 1) : a % n = r /\ a = n * q + r
  BY Quotient
<1>2. PICK p \in Int, s \in 0..(n - 1) : b % n = s /\ b = n * p + s
  BY Quotient
<1>3. n * q + b = n * p + a
  BY <1>1, <1>2
<1> QED BY <1>3, OneRemainder

-----------------------------------------------------------------------------
\* The numbers the invariant is about are integers in this order, ...
LEMMA Ranges ==
  ASSUME CbInv
  PROVE  /\ Size \in Int /\ Size > 0 /\ LazyFree \in Int /\ LazyFree <= Size
         /\ put \in Int /\ got \in Int /\ Cleared \in Int /\ numToClear \in Int
         /\ 0 <= Cleared /\ Cleared <= got /\ got <= put /\ put <= Cleared + Size
<1>1. Size \in Int /\ Size > 0 /\ LazyFree \in Int /\ LazyFree <= Size
  BY CbSizes
<1> QED BY <1>1 DEF CbInv, Cleared

\* ... and every number has a slot.
LEMMA InArray ==
  ASSUME NEW k \in Int
  PROVE  k % Size \in Slots
<1>1. Size \in Int /\ Size > 0
  BY CbSizes
<1> QED BY <1>1, Quotient DEF Slots

LEMMA CbInvInit == CbInit => CbInv
<1> SUFFICES ASSUME CbInit PROVE CbInv
  OBVIOUS
<1>1. Size \in Int /\ Size > 0 /\ LazyFree \in Int /\ LazyFree > 0
  BY CbSizes
<1>2. Cleared = 0
  BY DEF CbInit, Cleared
<1>3. 0 % Size = 0
  BY <1>1
<1>4. ASSUME NEW k \in 0..(Size - 1) PROVE queue[k % Size] = Unused
  BY <1>1, Quotient DEF CbInit, Slots
<1>5. queue \in [Slots -> Items \union {Unused, Reserved}]
  BY DEF CbInit
<1>6. /\ \A k \in Cleared..(put - 1) : queue[k % Size] # Unused
      /\ \A k \in put..(Cleared + Size - 1) : queue[k % Size] = Unused
  BY <1>1, <1>2, <1>4 DEF CbInit
<1>7. ~clearing
  BY Zenon DEF CbInit
<1>8. put = 0 /\ got = 0 /\ numToClear = 0 /\ headIndex = 0 /\ tailIndex = 0
  BY DEF CbInit
<1> QED BY <1>1, <1>2, <1>3, <1>5, <1>6, <1>7, <1>8 DEF CbInv

\* The writer finds its slot unused only if there is room.
LEMMA RoomAtHead ==
  ASSUME CbInv, HeadIsFree
  PROVE  put < Cleared + Size
<1> SUFFICES ASSUME put = Cleared + Size PROVE FALSE
  BY Ranges
<1>1. put % Size = Cleared % Size
  BY Ranges, SlotAgain
<1>2. Cleared \in Cleared..(put - 1)
  BY Ranges
<1> QED BY <1>1, <1>2 DEF CbInv, HeadIsFree

\* The reader finds something at its slot only if something was put there.
LEMMA SomethingAtTail ==
  ASSUME CbInv, ~clearing, queue[tailIndex] # Unused
  PROVE  got < put
<1> SUFFICES ASSUME got = put PROVE FALSE
  BY Ranges
<1>1. put \in put..(Cleared + Size - 1)
  BY Ranges DEF CbInv, Cleared
<1> QED BY <1>1 DEF CbInv

\* The slot the reader clears is the oldest one in use.
LEMMA ClearsOldest ==
  ASSUME CbInv
  PROVE  Back(tailIndex, numToClear) = Cleared % Size
<1>1. -numToClear \in Int
  BY Ranges
<1>2. ((got % Size) + (-numToClear)) % Size = (got + (-numToClear)) % Size
  BY <1>1, Ranges, SlotFrom
<1>3. (got % Size) \in Int
  BY Ranges, InArray DEF Slots
<1> QED BY <1>2, <1>3, Ranges DEF CbInv, Back, Cleared

\* Writing the slot of number k leaves those of the numbers around it alone.
LEMMA OtherSlots ==
  ASSUME CbInv, NEW k \in Int, NEW j \in Int, NEW x,
         k # j, k - j < Size, j - k < Size
  PROVE  [queue EXCEPT ![k % Size] = x][j % Size] = queue[j % Size]
<1>1. k % Size # j % Size
  BY Ranges, SlotsDistinct
<1>2. k % Size \in Slots /\ j % Size \in Slots
  BY InArray
<1> QED BY <1>1, <1>2 DEF CbInv

LEMMA SameSlot ==
  ASSUME CbInv, NEW k \in Int, NEW x
  PROVE  [queue EXCEPT ![k % Size] = x][k % Size] = x
BY InArray DEF CbInv

LEMMA TakeHeadKeeps ==
  ASSUME CbInv, NEW x \in Items \union {Reserved}, TakeHead(x)
  PROVE  CbInv'
<1>1. put < Cleared + Size
  BY RoomAtHead DEF TakeHead
<1>2. /\ queue' = [queue EXCEPT ![put % Size] = x]
      /\ put' = put + 1 /\ got' = got /\ numToClear' = numToClear /\ clearing' = clearing
      /\ tailIndex' = tailIndex /\ Cleared' = Cleared
  BY DEF TakeHead, CbInv, Cleared
<1>3. headIndex' = (put + 1) % Size
  <2>1. 1 \in Int
    OBVIOUS
  <2>2. ((put % Size) + 1) % Size = (put + 1) % Size
    BY <2>1, Ranges, SlotFrom
  <2> QED BY <2>2 DEF TakeHead, Advance, CbInv
<1>4. queue' \in [Slots -> Items \union {Unused, Reserved}]
  BY <1>2, Ranges, InArray DEF CbInv
<1>5. ASSUME NEW k \in Cleared..put PROVE queue'[k % Size] # Unused
  <2>1. CASE k = put
    BY <2>1, <1>2, SameSlot, Ranges, CbMarkers
  <2>2. CASE k # put
    <3>1. k \in Int /\ put - k < Size /\ k - put < Size
      BY <1>1, Ranges
    <3>2. queue'[k % Size] = queue[k % Size]
      BY <3>1, <2>2, <1>2, Ranges, OtherSlots
    <3> QED BY <3>2, <2>2, Ranges DEF CbInv
  <2> QED BY <2>1, <2>2
<1>6. ASSUME NEW k \in (put + 1)..(Cleared + Size - 1) PROVE queue'[k % Size] = Unused
  <2>1. k \in Int /\ k # put /\ put - k < Size /\ k - put < Size
    BY Ranges
  <2>2. queue'[k % Size] = queue[k % Size]
    BY <2>1, <1>2, Ranges, OtherSlots
  <2> QED BY <2>2, Ranges DEF CbInv
<1>7. /\ \A k \in Cleared'..(put' - 1) : queue'[k % Size] # Unused
      /\ \A k \in put'..(Cleared' + Size - 1) : queue'[k % Size] = Unused
  BY <1>2, <1>5, <1>6, Ranges
<1> QED BY <1>1, <1>2, <1>3, <1>4, <1>7, Ranges DEF CbInv

LEMMA WriteToSlotKeeps ==
  ASSUME CbInv, NEW s \in Slots, NEW x \in Items, writeToSlot(s, x)
  PROVE  CbInv'
<1>1. /\ queue' = [queue EXCEPT ![s] = x] /\ queue[s] # Unused /\ x # Unused
      /\ UNCHANGED <<headIndex, tailIndex, numToClear, clearing, put, got>>
      /\ Cleared' = Cleared
  BY CbMarkers DEF writeToSlot, Cleared
<1>2. queue' \in [Slots -> Items \union {Unused, Reserved}]
  BY <1>1 DEF CbInv
<1>3. ASSUME NEW k \in Int PROVE (queue'[k % Size] = Unused) <=> (queue[k % Size] = Unused)
  BY <1>1, InArray DEF CbInv
<1>4. /\ \A k \in Cleared'..(put' - 1) : queue'[k % Size] # Unused
      /\ \A k \in put'..(Cleared' + Size - 1) : queue'[k % Size] = Unused
  BY <1>1, <1>3, Ranges DEF CbInv
<1> QED BY <1>1, <1>2, <1>4 DEF CbInv

LEMMA ReadFromTailKeeps ==
  ASSUME CbInv, NEW x \in Items, readFromTail(x)
  PROVE  CbInv'
<1>1. got < put
  BY SomethingAtTail DEF readFromTail
<1>2. /\ queue' = queue /\ headIndex' = headIndex /\ put' = put
      /\ got' = got + 1 /\ numToClear' = numToClear + 1 /\ numToClear < LazyFree
      /\ clearing' = (numToClear + 1 = LazyFree)
  BY DEF readFromTail, CbInv
<1>3. Cleared' = Cleared
  BY <1>2, Ranges DEF Cleared
<1>4. tailIndex' = (got + 1) % Size
  <2>1. 1 \in Int
    OBVIOUS
  <2>2. ((got % Size) + 1) % Size = (got + 1) % Size
    BY <2>1, Ranges, SlotFrom
  <2> QED BY <2>2 DEF readFromTail, Advance, CbInv
<1>5. /\ numToClear' \in 0..LazyFree
      /\ (clearing' => numToClear' > 0) /\ (~clearing' => numToClear' < LazyFree)
  <2>1. ~clearing' => numToClear + 1 # LazyFree
    BY <1>2, Zenon
  <2>2. numToClear' = numToClear + 1 /\ numToClear < LazyFree /\ 0 <= numToClear
    BY <1>2 DEF CbInv
  <2> QED BY <2>1, <2>2, Ranges
<1> QED BY <1>1, <1>2, <1>3, <1>4, <1>5, Ranges DEF CbInv

LEMMA ClearSlotKeeps ==
  ASSUME CbInv, ClearSlot
  PROVE  CbInv'
<1>1. /\ queue' = [queue EXCEPT ![Cleared % Size] = Unused]
      /\ numToClear' = numToClear - 1 /\ numToClear > 0
      /\ clearing' = (numToClear - 1 # 0)
      /\ UNCHANGED <<headIndex, tailIndex, put, got>>
  BY ClearsOldest DEF ClearSlot, CbInv
<1>2. Cleared' = Cleared + 1 /\ Cleared < got
  BY <1>1, Ranges DEF Cleared
<1>3. queue' \in [Slots -> Items \union {Unused, Reserved}]
  BY <1>1 DEF CbInv
<1>4. ASSUME NEW k \in (Cleared + 1)..(put - 1) PROVE queue'[k % Size] # Unused
  <2>1. k \in Int /\ k # Cleared /\ Cleared - k < Size /\ k - Cleared < Size
    BY Ranges
  <2>2. queue'[k % Size] = queue[k % Size]
    BY <2>1, <1>1, Ranges, OtherSlots
  <2> QED BY <2>2, Ranges DEF CbInv
<1>5. ASSUME NEW k \in put..(Cleared + Size) PROVE queue'[k % Size] = Unused
  <2>1. CASE k = Cleared + Size
    <3>1. k % Size = Cleared % Size
      BY <2>1, Ranges, SlotAgain
    <3>2. queue'[Cleared % Size] = Unused
      BY <1>1, Ranges, SameSlot
    <3> QED BY <3>1, <3>2
  <2>2. CASE k # Cleared + Size
    <3>1. k \in Int /\ Cleared # k /\ Cleared - k < Size /\ k - Cleared < Size
      BY <2>2, <1>2, Ranges
    <3>2. Cleared \in Int
      BY Ranges
    <3>3. [queue EXCEPT ![Cleared % Size] = Unused][k % Size] = queue[k % Size]
      BY <3>1, <3>2, OtherSlots
    <3>4. k \in put..(Cleared + Size - 1)
      BY <2>2, Ranges
    <3> QED BY <3>3, <3>4, <1>1 DEF CbInv
  <2> QED BY <2>1, <2>2
<1>6. /\ \A k \in Cleared'..(put' - 1) : queue'[k % Size] # Unused
      /\ \A k \in put'..(Cleared' + Size - 1) : queue'[k % Size] = Unused
  BY <1>1, <1>2, <1>4, <1>5, Ranges
<1>7. /\ numToClear' \in 0..LazyFree
      /\ (clearing' => numToClear' > 0) /\ (~clearing' => numToClear' < LazyFree)
  <2>1. clearing' <=> numToClear - 1 # 0
    BY <1>1, Zenon
  <2> QED BY <2>1, <1>1, CbSizes, Ranges DEF CbInv
<1> QED BY <1>1, <1>2, <1>3, <1>6, <1>7, Ranges DEF CbInv

\* CbInv is inductive: in every state of the buffer the slots in use are those of
\* the numbers from Cleared to put, whatever the sizes (init, writeToHead, getSlot,
\* writeToSlot, readFromTail).
THEOREM CbInductive == CbSpec => []CbInv
<1>1. ASSUME CbInv, [CbNext]_cbVars PROVE CbInv'
  <2>1. CASE getSlot
    BY <1>1, <2>1, TakeHeadKeeps DEF getSlot
  <2>2. CASE ClearSlot
    BY <1>1, <2>2, ClearSlotKeeps
  <2>3. ASSUME NEW x \in Items, writeToHead(x) PROVE CbInv'
    BY <1>1, <2>3, TakeHeadKeeps DEF writeToHead
  <2>4. ASSUME NEW x \in Items, readFromTail(x) PROVE CbInv'
    BY <1>1, <2>4, ReadFromTailKeeps
  <2>5. ASSUME NEW x \in Items, NEW s \in Slots, writeToSlot(s, x) PROVE CbInv'
    BY <1>1, <2>5, WriteToSlotKeeps
  <2>6. CASE UNCHANGED cbVars
    BY <1>1, <2>6 DEF cbVars, CbInv, Cleared
  <2> QED BY <1>1, <2>1, <2>2, <2>3, <2>4, <2>5, <2>6 DEF CbNext
<1> QED BY <1>1, CbInvInit, PTL DEF CbSpec

-----------------------------------------------------------------------------
\* When a sequence is another one with an element more, or without its first.
LEMMA AppendOne ==
  ASSUME NEW S, NEW w \in Seq(S), NEW v \in Seq(S), NEW x \in S,
         Len(v) = Len(w) + 1, v[Len(w) + 1] = x, \A i \in 1..Len(w) : v[i] = w[i]
  PROVE  v = Append(w, x)
<1>1. /\ Append(w, x) \in Seq(S) /\ Len(Append(w, x)) = Len(w) + 1
      /\ \A i \in 1..Len(w) : Append(w, x)[i] = w[i]
      /\ Append(w, x)[Len(w) + 1] = x
  BY AppendProperties
<1>2. Len(w) \in Nat
  OBVIOUS
<1>3. \A i \in 1..Len(v) : v[i] = Append(w, x)[i]
  BY <1>1, <1>2
<1> QED BY <1>1, <1>3, SeqEqual

LEMMA DropOne ==
  ASSUME NEW S, NEW w \in Seq(S), NEW v \in Seq(S), w # <<>>,
         Len(v) = Len(w) - 1, \A i \in 1..Len(v) : v[i] = w[i + 1]
  PROVE  v = Tail(w)
<1>1. /\ Tail(w) \in Seq(S) /\ Len(Tail(w)) = Len(w) - 1
      /\ \A i \in 1..Len(Tail(w)) : Tail(w)[i] = w[i + 1]
  BY HeadTailProperties
<1> QED BY <1>1, SeqEqual

\* The n slots from that of number a, as a sequence.
SlotSeq(q, a, n) == [i \in 1..n |-> q[(a + i - 1) % Size]]
Contents == Items \union {Unused, Reserved}

LEMMA SlotSeqIs ==
  ASSUME NEW q \in [Slots -> Contents], NEW a \in Int, NEW n \in Nat
  PROVE  /\ SlotSeq(q, a, n) \in Seq(Contents)
         /\ Len(SlotSeq(q, a, n)) = n
         /\ \A i \in 1..n : SlotSeq(q, a, n)[i] = q[(a + i - 1) % Size]
<1>1. ASSUME NEW i \in 1..n PROVE q[(a + i - 1) % Size] \in Contents
  <2>1. a + i - 1 \in Int
    OBVIOUS
  <2> QED BY <2>1, InArray
<1> QED BY <1>1 DEF SlotSeq

LEMMA WaitingIs ==
  ASSUME CbInv
  PROVE  /\ Waiting = SlotSeq(queue, got, put - got)
         /\ queue \in [Slots -> Contents] /\ put - got \in Nat /\ got \in Int
BY Ranges DEF Waiting, SlotSeq, CbInv, Contents

LEMMA TakeHeadEnqueues ==
  ASSUME CbInv, CbInv', NEW x \in Items \union {Reserved}, TakeHead(x)
  PROVE  Queue!Enqueue(x)
<1> DEFINE w == SlotSeq(queue, got, put - got)
           v == SlotSeq(queue', got, put - got + 1)
<1>1. put < Cleared + Size
  BY RoomAtHead DEF TakeHead
<1>2. queue' = [queue EXCEPT ![put % Size] = x] /\ put' = put + 1 /\ got' = got
  BY DEF TakeHead, CbInv
<1>3. queue' \in [Slots -> Contents] /\ x \in Contents /\ put - got + 1 \in Nat
  BY Ranges DEF CbInv, Contents
<1>4. /\ w \in Seq(Contents) /\ Len(w) = put - got
      /\ \A i \in 1..(put - got) : w[i] = queue[(got + i - 1) % Size]
  BY WaitingIs, SlotSeqIs
<1>5. /\ v \in Seq(Contents) /\ Len(v) = put - got + 1
      /\ \A i \in 1..(put - got + 1) : v[i] = queue'[(got + i - 1) % Size]
  BY <1>3, WaitingIs, SlotSeqIs
<1>6. ASSUME NEW i \in 1..(put - got) PROVE v[i] = w[i]
  <2>1. /\ got + i - 1 \in Int /\ put # got + i - 1
        /\ put - (got + i - 1) < Size /\ (got + i - 1) - put < Size
    BY <1>1, Ranges
  <2>2. [queue EXCEPT ![put % Size] = x][(got + i - 1) % Size] = queue[(got + i - 1) % Size]
    BY <2>1, Ranges, OtherSlots
  <2>3. i \in 1..(put - got + 1)
    BY Ranges
  <2> QED BY <2>2, <2>3, <1>2, <1>4, <1>5
<1>7. v[put - got + 1] = x
  <2>1. put - got + 1 \in 1..(put - got + 1) /\ got + (put - got + 1) - 1 = put
    BY Ranges
  <2>2. queue'[put % Size] = x
    BY <1>2, SameSlot, Ranges
  <2> QED BY <2>1, <2>2, <1>5
<1>8. v = Append(w, x)
  <2> HIDE DEF w, v
  <2> QED BY <1>3, <1>4, <1>5, <1>6, <1>7, AppendOne
<1>9. Waiting' = v
  <2>1. put' - got' = put - got + 1
    BY <1>2, Ranges
  <2>2. Waiting' = SlotSeq(queue', got', put' - got')
    BY DEF Waiting, SlotSeq
  <2> QED BY <2>1, <2>2, <1>2
<1>10. Len(w) < Size
  BY <1>1, <1>4, Ranges
<1> QED BY <1>8, <1>9, <1>10, WaitingIs DEF Queue!Enqueue

LEMMA ReadFromTailDequeues ==
  ASSUME CbInv, NEW x \in Items, readFromTail(x)
  PROVE  Queue!Dequeue
<1> DEFINE w == SlotSeq(queue, got, put - got)
           v == SlotSeq(queue, got + 1, put - got - 1)
<1>1. got < put
  BY SomethingAtTail DEF readFromTail
<1>2. queue' = queue /\ put' = put /\ got' = got + 1 /\ queue[got % Size] = x
  BY DEF readFromTail, CbInv
<1>3. got + 1 \in Int /\ put - got - 1 \in Nat
  BY <1>1, Ranges
<1>4. /\ w \in Seq(Contents) /\ Len(w) = put - got
      /\ \A i \in 1..(put - got) : w[i] = queue[(got + i - 1) % Size]
  BY WaitingIs, SlotSeqIs
<1>5. /\ v \in Seq(Contents) /\ Len(v) = put - got - 1
      /\ \A i \in 1..(put - got - 1) : v[i] = queue[(got + 1 + i - 1) % Size]
  BY <1>3, WaitingIs, SlotSeqIs
<1>6. w # <<>> /\ Head(w) = x
  <2>1. 1 \in 1..(put - got) /\ got + 1 - 1 = got
    BY <1>1, Ranges
  <2>2. w[1] = x
    BY <2>1, <1>2, <1>4
  <2> HIDE DEF w
  <2>3. Len(w) > 0
    BY <1>1, <1>4, Ranges
  <2> QED BY <2>2, <2>3, <1>4
<1>7. ASSUME NEW i \in 1..(put - got - 1) PROVE v[i] = w[i + 1]
  <2>1. i + 1 \in 1..(put - got) /\ got + (i + 1) - 1 = got + 1 + i - 1
    BY Ranges
  <2> QED BY <2>1, <1>4, <1>5
<1>8. v = Tail(w)
  <2> HIDE DEF w, v
  <2> QED BY <1>4, <1>5, <1>6, <1>7, DropOne
<1>9. Waiting' = v
  <2>1. put' - got' = put - got - 1
    BY <1>2, Ranges
  <2>2. Waiting' = SlotSeq(queue', got', put' - got')
    BY DEF Waiting, SlotSeq
  <2> QED BY <2>1, <2>2, <1>2
<1> QED BY <1>6, <1>8, <1>9, WaitingIs DEF Queue!Dequeue

LEMMA WriteToSlotFills ==
  ASSUME CbInv, NEW s \in Slots, NEW x \in Items, writeToSlot(s, x)
  PROVE  UNCHANGED Waiting \/ \E i \in 1..Len(Waiting) : Queue!Fill(i, x)
<1> DEFINE n == put - got
           w == SlotSeq(queue, got, n)
           v == SlotSeq(queue', got, n)
<1>1. queue' = [queue EXCEPT ![s] = x] /\ queue[s] = Reserved /\ put' = put /\ got' = got
  BY DEF writeToSlot
<1>2. queue' \in [Slots -> Contents] /\ queue \in [Slots -> Contents]
  BY <1>1 DEF CbInv, Contents
<1>3. /\ w \in Seq(Contents) /\ Len(w) = n
      /\ \A i \in 1..n : w[i] = queue[(got + i - 1) % Size]
  BY WaitingIs, SlotSeqIs
<1>4. /\ v \in Seq(Contents) /\ Len(v) = n
      /\ \A i \in 1..n : v[i] = queue'[(got + i - 1) % Size]
  BY <1>2, WaitingIs, SlotSeqIs
<1>5. Waiting = w
  BY WaitingIs
<1>6. Waiting' = v
  BY <1>1 DEF Waiting, SlotSeq
<1>7. n \in Nat /\ \A i \in 1..n : (got + i - 1) \in Int /\ (got + i - 1) % Size \in Slots
  BY Ranges, InArray
<1>8. CASE \E i \in 1..n : (got + i - 1) % Size = s
  <2>1. PICK i \in 1..n : (got + i - 1) % Size = s
    BY <1>8
  <2>2. w[i] = Reserved
    BY <2>1, <1>1, <1>3
  <2>3. ASSUME NEW j \in 1..n PROVE v[j] = IF j = i THEN x ELSE w[j]
    <3>1. CASE j = i
      BY <3>1, <2>1, <1>1, <1>2, <1>4
    <3>2. CASE j # i
      <4>1. (got + i - 1) % Size # (got + j - 1) % Size
        <5>1. /\ got + i - 1 \in Int /\ got + j - 1 \in Int
              /\ got + i - 1 # got + j - 1
              /\ (got + i - 1) - (got + j - 1) < Size
              /\ (got + j - 1) - (got + i - 1) < Size
          BY <3>2, Ranges
        <5> QED BY <5>1, Ranges, SlotsDistinct
      <4> QED BY <4>1, <3>2, <2>1, <1>1, <1>2, <1>3, <1>4, <1>7
    <3> QED BY <3>1, <3>2
  <2>4. v = [w EXCEPT ![i] = x]
    <3> HIDE DEF v, w, n
    <3>1. w = [j \in 1..n |-> w[j]] /\ v = [j \in 1..n |-> v[j]]
      BY <1>3, <1>4
    <3> QED BY <3>1, <2>3
  <2>5. Queue!Fill(i, x) /\ i \in 1..Len(Waiting)
    <3> HIDE DEF v, w, n
    <3> QED BY <2>2, <2>4, <1>3, <1>5, <1>6 DEF Queue!Fill
  <2> QED BY <2>5
<1>9. CASE ~\E i \in 1..n : (got + i - 1) % Size = s
  <2>1. \A i \in 1..n : v[i] = w[i]
    BY <1>9, <1>1, <1>2, <1>3, <1>4, <1>7
  <2>2. v = w
    <3> HIDE DEF v, w, n
    <3> QED BY <2>1, <1>3, <1>4, SeqEqual
  <2> QED BY <2>2, <1>5, <1>6
<1> QED BY <1>8, <1>9

LEMMA ClearSlotStutters ==
  ASSUME CbInv, ClearSlot
  PROVE  UNCHANGED Waiting
<1> DEFINE n == put - got
           w == SlotSeq(queue, got, n)
           v == SlotSeq(queue', got, n)
<1>1. /\ queue' = [queue EXCEPT ![Cleared % Size] = Unused]
      /\ numToClear > 0 /\ put' = put /\ got' = got
  BY ClearsOldest DEF ClearSlot, CbInv
<1>2. queue' \in [Slots -> Contents]
  BY <1>1 DEF CbInv, Contents
<1>3. /\ w \in Seq(Contents) /\ Len(w) = n
      /\ \A i \in 1..n : w[i] = queue[(got + i - 1) % Size]
  BY WaitingIs, SlotSeqIs
<1>4. /\ v \in Seq(Contents) /\ Len(v) = n
      /\ \A i \in 1..n : v[i] = queue'[(got + i - 1) % Size]
  BY <1>2, WaitingIs, SlotSeqIs
<1>5. Cleared < got
  BY <1>1, Ranges DEF Cleared
<1>6. ASSUME NEW i \in 1..n PROVE v[i] = w[i]
  <2>1. /\ got + i - 1 \in Int /\ Cleared # got + i - 1
        /\ Cleared - (got + i - 1) < Size /\ (got + i - 1) - Cleared < Size
    BY <1>5, Ranges
  <2>2. Cleared \in Int
    BY Ranges
  <2>3. [queue EXCEPT ![Cleared % Size] = Unused][(got + i - 1) % Size]
          = queue[(got + i - 1) % Size]
    BY <2>1, <2>2, OtherSlots
  <2> QED BY <2>3, <1>1, <1>3, <1>4
<1>7. v = w
  <2> HIDE DEF v, w, n
  <2> QED BY <1>3, <1>4, <1>6, SeqEqual
<1>8. Waiting = w
  BY WaitingIs
<1>9. Waiting' = v
  BY <1>1 DEF Waiting, SlotSeq
<1> QED BY <1>7, <1>8, <1>9

\* The circular buffer implements a first-in first-out queue for every size and
\* every lazyFreeFrequency up to it: no item is lost, read twice, read before it was
\* filled in or out of order (writeToHead, getSlot, writeToSlot, readFromTail).
THEOREM CbQueueImplementsFifo == CbSpec => ImplementsFifo
<1>1. CbInit => Queue!Init
  <2> SUFFICES ASSUME CbInit PROVE Waiting = <<>>
    BY DEF Queue!Init
  <2>1. put - got = 0
    BY DEF CbInit
  <2> QED BY <2>1 DEF Waiting
<1>2. ASSUME CbInv, CbInv', [CbNext]_cbVars PROVE [Queue!Next]_Waiting
  <2>1. CASE getSlot
    <3>1. Queue!Enqueue(Reserved)
      BY <1>2, <2>1, TakeHeadEnqueues DEF getSlot
    <3> QED BY <3>1 DEF Queue!Next, Queue!Reserve
  <2>2. CASE ClearSlot
    BY <1>2, <2>2, ClearSlotStutters
  <2>3. ASSUME NEW x \in Items, writeToHead(x) PROVE Queue!Next
    <3>1. Queue!Enqueue(x)
      BY <1>2, <2>3, TakeHeadEnqueues DEF writeToHead
    <3> QED BY <3>1 DEF Queue!Next
  <2>4. ASSUME NEW x \in Items, readFromTail(x) PROVE Queue!Next
    BY <1>2, <2>4, ReadFromTailDequeues DEF Queue!Next
  <2>5. ASSUME NEW x \in Items, NEW s \in Slots, writeToSlot(s, x)
        PROVE  [Queue!Next]_Waiting
    BY <1>2, <2>5, WriteToSlotFills DEF Queue!Next
  <2>6. CASE UNCHANGED cbVars
    BY <2>6 DEF cbVars, Waiting
  <2> QED BY <1>2, <2>1, <2>2, <2>3, <2>4, <2>5, <2>6 DEF CbNext
<1> QED BY <1>1, <1>2, CbInductive, PTL DEF CbSpec, ImplementsFifo, Queue!Spec
=============================================================================
