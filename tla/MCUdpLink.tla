------------------------------ MODULE MCUdpLink ------------------------------
(* UdpLink with at most three descriptors and messages of one to four         *)
(* fragments.                                                                 *)
EXTENDS UdpLink, TLC

CONSTANTS m1, m2, d1, d2, d3

OneMsg == {m1}
TwoMsgs == {m1, m2}
ThreeDescs == {d1, d2, d3}
TwoDescs == {d1, d2}
OneDesc == {d1}

Frags11 == (m1 :> 1 @@ m2 :> 1)
Frags3 == (m1 :> 3)
Frags4 == (m1 :> 4)
KindSync == (m1 :> "sync")
KindBufSync == (m1 :> "buffered" @@ m2 :> "sync")
DataContig == (m1 :> "contig")
DataPackedEmpty == (m1 :> "packed" @@ m2 :> "empty")

\* UDP marks every fragment as good; the copy normally succeeds.
Copied == {[ok |-> TRUE, copied |-> TRUE]}
\* A long non-contiguous fragment for which no buffer could be allocated.
CopiedOrNot == Copied \union {[ok |-> TRUE, copied |-> FALSE]}

DescSymmetry == Permutations(Descs)
=============================================================================
