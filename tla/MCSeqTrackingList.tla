-------------------------- MODULE MCSeqTrackingList --------------------------
(* A tracking list in private memory, whose array grows; sequence numbers of  *)
(* 3 bits.                                                                    *)
EXTENDS SeqTrackingList

Numbers5 == {<<s, s>> : s \in 0..5}
=============================================================================
