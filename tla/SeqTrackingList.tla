--------------------------- MODULE SeqTrackingList ---------------------------
(***************************************************************************)
(* queue/SeqTrackingList: the sorted list of disjoint ranges in which a    *)
(* process records the fragment sequence numbers it has received from, or  *)
(* delivered for, one peer.  The list lives in an array that grows by      *)
(* growBy elements when it is full and shrinks by shrinkBy when too much   *)
(* of it is free; both reallocate every element, so an element pointer     *)
(* held across a reallocation dangles.                                     *)
(*                                                                         *)
(* The circular doubly linked list is a sequence of ranges whose first     *)
(* element is headp.  hintp only says where a search starts: the           *)
(* operations below use what a search returns, and WalkAgrees states that  *)
(* the search returns it from every hint.                                  *)
(***************************************************************************)
EXTENDS Integers, Sequences, FiniteSets

CONSTANTS Modulus,        \* 2^64 in the code: unsigned long long wraps here
          startSize, growBy, shrinkBy,  \* constructor arguments
          RecordRanges,   \* ranges <<lower, upper>> passed to record
          EraseRanges     \* ranges passed to erase

ASSUME SizesAreNaturals ==
  /\ Modulus \in Nat \ {0}
  /\ startSize \in Nat /\ growBy \in Nat /\ shrinkBy \in Nat

ASSUME RangesAreUnsigned ==
  RecordRanges \union EraseRanges \subseteq (0..(Modulus - 1)) \X (0..(Modulus - 1))

VARIABLES list,       \* ranges [lower, upper] from headp on
          arraySize,
          stale,      \* an operation used an element after it was reallocated
          last        \* the last call and what it returned

vars == <<list, arraySize, stale, last>>

SeqRange(lower, upper) == [lower |-> lower, upper |-> upper]
Inc(n) == (n + 1) % Modulus
Dec(n) == (n - 1) % Modulus
Least(a, b) == IF a < b THEN a ELSE b
Greatest(a, b) == IF a > b THEN a ELSE b

\* l with its elements i..j replaced by those of mid (j = i - 1: an insertion).
Splice(l, i, j, mid) ==
  SubSeq(l, 1, i - 1) \o mid \o SubSeq(l, j + 1, Len(l))

-----------------------------------------------------------------------------
(* The searches, as the code walks, and what they return. *)

findNearestLower(l, hint, seqnum) ==
  LET start == IF hint = 0 THEN 1 ELSE hint
      found(t) == IF seqnum >= l[t].lower
                  THEN t = Len(l) \/ seqnum < l[t + 1].lower
                  ELSE t = 1
      step(t) == IF seqnum >= l[t].lower THEN t + 1 ELSE t - 1
      walk[n \in 0..Len(l)] ==
        IF n = 0 THEN start
        ELSE IF found(walk[n - 1]) THEN walk[n - 1] ELSE step(walk[n - 1])
  IN walk[Len(l)]

findNearestUpper(l, from, seqnum) ==
  LET found(t) == IF seqnum <= l[t].upper
                  THEN t = 1 \/ seqnum > l[t - 1].upper
                  ELSE t = Len(l)
      step(t) == IF seqnum <= l[t].upper THEN t - 1 ELSE t + 1
      walk[n \in 0..Len(l)] ==
        IF n = 0 THEN from
        ELSE IF found(walk[n - 1]) THEN walk[n - 1] ELSE step(walk[n - 1])
  IN walk[Len(l)]

\* The last range that starts at or below seqnum, else the first one.
NearestLower_Strict(l, seqnum) ==
  LET below == {i \in DOMAIN l : l[i].lower < seqnum}
  IN IF below = {} THEN 1 ELSE CHOOSE i \in below : \A j \in below : j <= i
NearestLower(l, seqnum) ==
  LET below == {i \in DOMAIN l : l[i].lower <= seqnum}
  IN IF below = {} THEN 1 ELSE CHOOSE i \in below : \A j \in below : j <= i

\* The first range that ends at or above seqnum, else the last one.
NearestUpper(l, seqnum) ==
  LET above == {i \in DOMAIN l : l[i].upper >= seqnum}
  IN IF above = {} THEN Len(l) ELSE CHOOSE i \in above : \A j \in above : i <= j

-----------------------------------------------------------------------------
(* What an operation does to the list.  An outcome has the new list; get,  *)
(* whether a new element is needed; heldOverGet, whether an older element  *)
(* is used after that; frees, the number of elements freed one by one; and *)
(* heldOverFree, whether an element is used after the last of them.        *)

Outcome(l, get, heldOverGet, frees, heldOverFree) ==
  [list |-> l, get |-> get, heldOverGet |-> heldOverGet,
   frees |-> frees, heldOverFree |-> heldOverFree]
Update(l) == Outcome(l, FALSE, FALSE, 0, FALSE)
Insertion(l) == Outcome(l, TRUE, FALSE, 0, FALSE)
Freeing(l, n, held) == Outcome(l, FALSE, FALSE, n, held)

recordOutcome(l, lower, upper) ==
  LET i == NearestLower(l, lower)
      j == NearestUpper(l, upper)
      new == <<SeqRange(lower, upper)>>
      merged(k) == SeqRange(Least(lower, l[k].lower), Greatest(upper, l[k].upper))
  IN IF l = <<>> THEN Insertion(new)
     ELSE IF i = j THEN
       IF l[i].lower > Inc(upper) THEN Insertion(Splice(l, i, i - 1, new))
       ELSE IF Dec(lower) > l[i].upper THEN Insertion(Splice(l, i + 1, i, new))
       ELSE Update(Splice(l, i, i, <<merged(i)>>))
     ELSE IF lower <= Inc(l[i].upper) THEN
       LET low == Least(lower, l[i].lower)
       IN IF Inc(upper) >= l[j].lower
          THEN Freeing(Splice(l, i, j, <<SeqRange(low, Greatest(upper, l[j].upper))>>),
                       j - i, FALSE)
          ELSE Freeing(Splice(l, i, j - 1, <<SeqRange(low, upper)>>), j - i - 1, TRUE)
     ELSE IF Inc(upper) < l[j].lower THEN
       IF j = i + 1 THEN Insertion(Splice(l, j, i, new))
       ELSE Freeing(Splice(l, i + 1, j - 1, new), j - i - 2, FALSE)
     ELSE Freeing(Splice(l, i + 1, j, <<SeqRange(lower, Greatest(upper, l[j].upper))>>),
                  j - i - 1, FALSE)

eraseOutcome(l, lower, upper) ==
  LET i == NearestLower(l, lower)
      j == NearestUpper(l, upper)
      kept(r) == IF r.upper < r.lower THEN <<>> ELSE <<r>>
      count(s) == IF s = <<>> THEN 1 ELSE 0
  IN IF i # j THEN
       LET left == IF lower <= l[i].lower THEN <<>>
                   ELSE IF lower <= l[i].upper THEN <<SeqRange(l[i].lower, Dec(lower))>>
                   ELSE <<l[i]>>
           right == IF upper >= l[j].upper THEN <<>>
                    ELSE IF upper >= l[j].lower THEN <<SeqRange(Inc(upper), l[j].upper)>>
                    ELSE <<l[j]>>
       IN Freeing(Splice(l, i, j, left \o right),
                  j - i - 1 + count(left) + count(right), right # <<>>)
     ELSE IF upper < l[i].lower \/ lower > l[i].upper THEN Update(l)
     ELSE IF lower < l[i].lower THEN
       LET rest == kept(SeqRange(Inc(upper), l[i].upper))
       IN Freeing(Splice(l, i, i, rest), count(rest), FALSE)
     ELSE IF upper > l[i].upper THEN
       LET rest == kept(SeqRange(l[i].lower, Dec(lower)))
       IN Freeing(Splice(l, i, i, rest), count(rest), FALSE)
     ELSE LET rest == kept(SeqRange(l[i].lower, Dec(lower)))
              split == l[i].upper > upper
              above == IF split THEN <<SeqRange(Inc(upper), l[i].upper)>> ELSE <<>>
          IN Outcome(Splice(l, i, i, rest \o above), split, split, count(rest), FALSE)

-----------------------------------------------------------------------------
(* getSeqRangeListElement and freeSeqRangeListElement. *)

\* The storage after a new element was taken, growing the array if it is full.
Grown == IF Len(list) + 1 > arraySize THEN arraySize + growBy ELSE arraySize

\* An element can only be missing when the array is full, and then malloc may fail.
getFails == Len(list) + 1 > arraySize

\* The free that brings the list down to n elements tries to shrink the array.
shrinksAt(size, n) == shrinkBy > 0 /\ size - n > shrinkBy

\* Carry out an outcome o; the call returns ok, or fail if there is no memory.
Carry(o, ok, fail) ==
  \/ /\ o.get /\ getFails
     /\ last' = fail
     /\ UNCHANGED <<list, arraySize, stale>>
  \/ LET size == IF o.get THEN Grown ELSE arraySize
         count == Len(o.list) + o.frees
         moved == o.get /\ Grown # arraySize
     IN /\ o.get => (getFails => growBy > 0)
        /\ \E k \in 0..o.frees :        \* the first free whose malloc succeeds
             /\ k > 0 => shrinksAt(size, count - k)
             /\ arraySize' = IF k > 0 THEN size - shrinkBy ELSE size
             /\ stale' = \/ moved /\ o.heldOverGet
                         \/ k > 0 /\ (k < o.frees \/ o.heldOverFree)
             /\ list' = IF stale' THEN list ELSE o.list
        /\ last' = ok

Answer(res) ==
  /\ last' = res
  /\ UNCHANGED <<list, arraySize, stale>>

-----------------------------------------------------------------------------
Init ==
  /\ list = <<>>
  /\ arraySize \in {0, IF shrinkBy > 0 THEN Least(startSize, shrinkBy) ELSE startSize}
  /\ stale = FALSE
  /\ last = <<"new">>

record(lower, upper) ==
  LET ret(ok) == <<"record", lower, upper, ok>>
  IN /\ ~stale
     /\ IF lower = 0 THEN Answer(ret(TRUE))
        ELSE IF lower > upper THEN Answer(ret(FALSE))
        ELSE Carry(recordOutcome(list, lower, upper), ret(TRUE), ret(FALSE))

\* isRecorded: how much of a range is recorded.
isRecorded_NeighboursOnly(l, lower, upper) ==
  LET i == NearestLower(l, lower)
      j == NearestUpper(l, upper)
  IN IF l = <<>> THEN "NO"
     ELSE IF i # j THEN IF j = i + 1 THEN "NO" ELSE "PARTIAL"
     ELSE IF upper < l[i].lower \/ lower > l[i].upper THEN "NO"
     ELSE IF lower >= l[i].lower /\ upper <= l[i].upper THEN "COMPLETE" ELSE "PARTIAL"
isRecorded(l, lower, upper) ==
  LET i == NearestLower(l, lower)
      j == NearestUpper(l, upper)
  IN IF l = <<>> THEN "NO"
     ELSE IF i # j THEN
       IF j = i + 1 /\ lower > l[i].upper /\ upper < l[j].lower THEN "NO" ELSE "PARTIAL"
     ELSE IF upper < l[i].lower \/ lower > l[i].upper THEN "NO"
     ELSE IF lower >= l[i].lower /\ upper <= l[i].upper THEN "COMPLETE" ELSE "PARTIAL"

\* Same search and same cases as record, except that a range already recorded,
\* even in part, is left alone.
recordIfNotRecorded(lower, upper) ==
  LET ret(was, ok) == <<"recordIfNotRecorded", lower, upper, was, ok>>
      was == isRecorded(list, lower, upper)
  IN /\ ~stale
     /\ IF lower = 0 \/ lower > upper THEN Answer(ret("NO", FALSE))
        ELSE IF was # "NO" THEN Answer(ret(was, TRUE))
        ELSE Carry(recordOutcome(list, lower, upper), ret("NO", TRUE), ret("NO", FALSE))

erase(lower, upper) ==
  LET ret(ok) == <<"erase", lower, upper, ok>>
  IN /\ ~stale
     /\ IF list = <<>> THEN Answer(ret(TRUE))
        ELSE IF lower = 0 \/ lower > upper THEN Answer(ret(FALSE))
        ELSE Carry(eraseOutcome(list, lower, upper), ret(TRUE), ret(FALSE))

largestInOrder(l) ==
  IF l # <<>> /\ l[1].lower = 1 THEN l[1].upper ELSE 0

Next == \/ \E r \in RecordRanges : record(r[1], r[2])
        \/ \E r \in RecordRanges : recordIfNotRecorded(r[1], r[2])
        \/ \E r \in EraseRanges : erase(r[1], r[2])

Spec == Init /\ [][Next]_vars

-----------------------------------------------------------------------------
Numbers == 0..(Modulus - 1)

\* The sequence numbers the list stands for.
Recorded(l) == UNION {(l[i].lower)..(l[i].upper) : i \in DOMAIN l}

\* What OK() checks in debug builds: no range is empty, the ranges ascend, and
\* two neighbours are never adjacent (they would have been consolidated).
\* 0, the invalid sequence number, is never recorded.
OK ==
  /\ \A i \in DOMAIN list : 0 < list[i].lower /\ list[i].lower <= list[i].upper
  /\ \A i \in 1..(Len(list) - 1) : list[i].upper + 1 < list[i + 1].lower

\* Both searches return the same element from whatever element they start:
\* the hint left by an earlier call, or the lower neighbour of another number.
WalkAgrees ==
  \A s \in Numbers \ {0}, h \in 0..Len(list) :
    list # <<>> =>
      /\ findNearestLower(list, h, s) = NearestLower(list, s)
      /\ h > 0 => findNearestUpper(list, h, s) = NearestUpper(list, s)

\* largestInOrder is the end of the unbroken run 1, 2, ... of recorded numbers.
\* It is what a process puts in every ack, so one number too many would let the
\* sender drop a fragment that never arrived.
LargestInOrderIsRun ==
  LET n == largestInOrder(list)
  IN 1..n \subseteq Recorded(list) /\ n + 1 \notin Recorded(list)

\* After any sequence of calls the list is well formed, and the queries give the
\* right answers from any element they start at.
QueriesAgree == OK /\ Len(list) <= arraySize /\ WalkAgrees /\ LargestInOrderIsRun

\* No operation uses a list element after the array it lies in was freed.
NoStaleElement == ~stale

\* The list implements a set: every call does what SeqSet says, and returns it.
AbstractSet == INSTANCE SeqSet WITH recorded <- Recorded(list)
ImplementsSet == AbstractSet!Spec
=============================================================================
