------------------------------ MODULE MCMatching ------------------------------
(* Matching with two sources: one sends two messages, the first of them in two  *)
(* fragments, the other one message.  There are three receives, or two and a    *)
(* fragment that arrives damaged.                                               *)
EXTENDS Matching, TLC

Sends21 == (0 :> 2 @@ 1 :> 1)
TwoTags == {1, -5}
Parts21 == (0 :> <<2, 1>> @@ 1 :> <<1>>)

\* Receives and damaged fragments together are bounded; a fragment can always
\* arrive undamaged, so the bound stops no progress.
Budget == posted + corrupted <= MaxRecvs

MCSpec == Init /\ [][Next /\ Budget']_vars /\ Fairness
=============================================================================
