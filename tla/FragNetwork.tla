---------------------------- MODULE FragNetwork ----------------------------
(***************************************************************************)
(* The datagrams between two processes, in one direction: data fragments   *)
(* from the sender, acknowledgements back.  The network (UDP sockets or a  *)
(* Myrinet port, external to the code) may lose, duplicate and reorder     *)
(* both.  A datagram that is lost never enters packets or acks; a          *)
(* duplicated one stays there after it was received.                       *)
(*                                                                         *)
(* A fragment carries its sequence number for this pair of processes and   *)
(* the address of the sender's descriptor; an ack returns both.  Tags,     *)
(* lengths and payload are left out: the sequence number stands for the    *)
(* data, since each fragment of each message gets one of its own.          *)
(***************************************************************************)
EXTENDS Naturals, FiniteSets

CONSTANTS Descs,       \* the sender's pool of send fragment descriptors
          MaxSeq,      \* bound on the sequence numbers handed out (2^64 - 1)
          MaxInFlight  \* bound on the datagrams under way in each direction

ASSUME SeqBound == MaxSeq \in Nat
ASSUME FinitePool == IsFiniteSet(Descs)

VARIABLES packets, acks

Seqs == 1..MaxSeq

Packet == [ptr : Descs, seq : Seqs]
Ack == [ptr : Descs, seq : 0..MaxSeq, status : {"good", "corrupt", "agginfo"},
        received : 0..MaxSeq, delivered : 0..MaxSeq]

\* Some of the datagrams in sent enter the network, the others are lost.
Transmit(net, sent) ==
  {net \union arriving : arriving \in
     {S \in SUBSET sent : Cardinality(net \union S) <= MaxInFlight}}

\* A received datagram leaves the network, or is duplicated and stays.
Receipt(net, datagram) == {net \ {datagram}, net}
=============================================================================
