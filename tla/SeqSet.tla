------------------------------- MODULE SeqSet -------------------------------
(***************************************************************************)
(* What a SeqTrackingList promises its users: a set of sequence numbers.   *)
(* Every call either does what it says to the set, or reports failure and  *)
(* leaves the set as it was.  `last' is the call that was made last, with  *)
(* its return value.                                                       *)
(***************************************************************************)
EXTENDS Naturals

CONSTANTS RecordRanges,   \* ranges <<lower, upper>> passed to record
          EraseRanges     \* ranges passed to erase

VARIABLES recorded, last

vars == <<recorded, last>>

\* The three answers of isRecorded, for a range and a set.
Overlap(S, lower, upper) ==
  IF S \intersect (lower..upper) = {} THEN "NO"
  ELSE IF lower..upper \subseteq S THEN "COMPLETE"
  ELSE "PARTIAL"

Init == recorded = {} /\ last = <<"new">>

Record(lower, upper) ==
  \E ok \in BOOLEAN :
    /\ last' = <<"record", lower, upper, ok>>
    /\ IF lower = 0 THEN ok ELSE lower > upper => ~ok
    /\ recorded' = IF ok /\ lower # 0
                   THEN recorded \union (lower..upper) ELSE recorded

\* A range that is already recorded in part is left alone, without an error.
RecordIfNotRecorded(lower, upper) ==
  \E ok \in BOOLEAN :
    LET valid == lower # 0 /\ lower <= upper
        was == IF valid THEN Overlap(recorded, lower, upper) ELSE "NO"
    IN /\ last' = <<"recordIfNotRecorded", lower, upper, was, ok>>
       /\ ~valid => ~ok
       /\ was # "NO" => ok
       /\ recorded' = IF ok /\ was = "NO"
                      THEN recorded \union (lower..upper) ELSE recorded

Erase(lower, upper) ==
  \E ok \in BOOLEAN :
    /\ last' = <<"erase", lower, upper, ok>>
    /\ recorded = {} => ok
    /\ (recorded # {} /\ (lower = 0 \/ lower > upper)) => ~ok
    /\ recorded' = IF ok THEN recorded \ (lower..upper) ELSE recorded

Next == \/ \E r \in RecordRanges : Record(r[1], r[2])
        \/ \E r \in RecordRanges : RecordIfNotRecorded(r[1], r[2])
        \/ \E r \in EraseRanges : Erase(r[1], r[2])

Spec == Init /\ [][Next]_vars
=============================================================================
