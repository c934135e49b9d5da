---------------------------- MODULE MCSharedMem ----------------------------
(* The shared-memory path for TLC: four messages, two send descriptors and   *)
(* a buffer of two slots.                                                    *)
EXTENDS SharedMem

Message(len, tag, sync) == [len |-> len, tag |-> tag, sync |-> sync]
Receive(wildSource, tag, len) == [wild |-> wildSource, tag |-> tag, len |-> len]

MCAnyTag == -1

\* The first message is synchronous and needs more fragments than may be
\* outstanding.  The others use its descriptor again, and the last one may find
\* the third still waiting for a slot.
MCMessages == <<Message(3, 1, TRUE), Message(0, 1, FALSE), Message(1, 2, FALSE),
                Message(0, 1, FALSE)>>

\* The second one is too short for the messages it takes.
MCReceives == {Receive(FALSE, MCAnyTag, 3), Receive(TRUE, 1, 1)}
=============================================================================
