---------------------------- MODULE FragReceiver ----------------------------
(***************************************************************************)
(* The receiving side of a pair of processes: duplicate detection, copy to *)
(* the application, acknowledgement (Communicator::handleReceivedFrag,     *)
(* ProcessMatchedData, BaseRecvFragDesc_t::processRecvDataSeqs,            *)
(* udpRecvFragDesc::AckData, SendUnsentAcks).                              *)
(*                                                                         *)
(* received and delivered are the two SeqTrackingLists kept for the peer,  *)
(* as the sets they stand for.  Whether a fragment matches a posted        *)
(* receive is a choice here: an unmatched one is held until a receive is   *)
(* posted or an earlier message arrives.                                   *)
(***************************************************************************)
EXTENDS FragNetwork

CONSTANTS CopyOutcomes,  \* what copying a fragment to the application can yield
          MaxUnsent      \* bound on the acks waiting to be sent

\* ok: DataOK, the fragment is acknowledged as good; copied: the data is there.
ASSUME CopyOutcomesTyped == CopyOutcomes \subseteq [ok : BOOLEAN, copied : BOOLEAN]

VARIABLES received,    \* receivedDataSeqs[peer]
          delivered,   \* deliveredDataSeqs[peer]
          held,        \* fragments on OkToMatchRecvFrags or AheadOfSeqRecvFrags
          unsent,      \* UnprocessedAcks: fragments whose ack could not be sent
          copies       \* how often each fragment was copied to the application

receiverVars == <<received, delivered, held, unsent, copies>>

\* A fragment that is to be acknowledged: dup is isDuplicate_m, ok is DataOK.
RecvFrag == [ptr : Descs, seq : Seqs, ok : BOOLEAN,
             dup : {"unique", "delivered", "received"}]
Acked(p, ok, dup) == [ptr |-> p.ptr, seq |-> p.seq, ok |-> ok, dup |-> dup]

\* largestInOrder() of a tracking list: n ends the run 1, 2, ... of S.
IsLargestInOrder_IgnoresGaps(S, n) ==
  (n = 0 /\ S = {}) \/ (n \in S /\ \A s \in S : s <= n)
IsLargestInOrder(S, n) == 1..n \subseteq S /\ (n + 1) \notin S

ReceiverInit ==
  /\ received = {} /\ delivered = {} /\ held = {} /\ unsent = {}
  /\ copies = [s \in Seqs |-> 0]

-----------------------------------------------------------------------------
\* The ack for f, given the tracking lists as they are after processing f.
AckFor_AnyDuplicate(f, r, d) ==
  [ptr |-> f.ptr, seq |-> f.seq, status |-> IF f.ok THEN "good" ELSE "corrupt",
   received |-> r, delivered |-> d]
AckFor(f, r, d) ==
  [ptr |-> f.ptr,
   seq |-> IF f.dup = "received" THEN 0 ELSE f.seq,
   status |-> IF f.dup = "received" THEN "agginfo"
              ELSE IF f.dup = "delivered" \/ f.ok THEN "good"
              ELSE "corrupt",
   received |-> r, delivered |-> d]

\* The tracking lists are updated first; only then is the ack sent, and if that
\* fails the fragment is queued (with those already waiting) and the whole
\* function runs again later.  rcvd is received as the caller left it.
AckData(f, rcvd, waiting) ==
  /\ delivered' = IF f.dup = "unique" /\ f.ok
                  THEN delivered \union {f.seq} ELSE delivered
  /\ received' = IF f.dup = "unique" /\ ~f.ok THEN rcvd \ {f.seq} ELSE rcvd
  /\ \/ /\ unsent' = waiting
        /\ \E r, d \in 0..MaxSeq :
             /\ IsLargestInOrder(received', r)
             /\ IsLargestInOrder(delivered', d)
             /\ acks' \in Transmit(acks, {AckFor(f, r, d)})
     \/ /\ Cardinality(waiting \union {f}) <= MaxUnsent
        /\ unsent' = waiting \union {f}
        /\ UNCHANGED acks

\* CopyToAppLock, then AckData whatever the copy did.
ProcessMatchedData(p, rcvd) ==
  \E o \in CopyOutcomes :
    /\ copies' = IF o.copied THEN [copies EXCEPT ![p.seq] = @ + 1] ELSE copies
    /\ AckData(Acked(p, o.ok, "unique"), rcvd, unsent)

-----------------------------------------------------------------------------
\* handleReceivedFrag for a fragment not seen before: it is recorded and then
\* matched and copied, or kept until it can be matched.
IsNew(p) == p.seq \notin received

ReceiveNew(p) ==
  /\ p \in packets
  /\ IsNew(p)
  /\ packets' \in Receipt(packets, p)
  /\ \/ /\ received' = received \union {p.seq}
        /\ held' = held \union {p}
        /\ UNCHANGED <<delivered, unsent, copies, acks>>
     \/ /\ ProcessMatchedData(p, received \union {p.seq})
        /\ UNCHANGED held

\* handleReceivedFrag for a duplicate: acknowledged again if it was delivered,
\* answered with the aggregate information if everything up to it has arrived,
\* dropped otherwise.
ReceiveDuplicate(p) ==
  /\ p \in packets
  /\ p.seq \in received
  /\ packets' \in Receipt(packets, p)
  /\ IF p.seq \in delivered
     THEN AckData(Acked(p, TRUE, "delivered"), received, unsent)
     ELSE IF 1..p.seq \subseteq received
     THEN AckData(Acked(p, TRUE, "received"), received, unsent)
     ELSE UNCHANGED <<received, delivered, unsent, acks>>
  /\ UNCHANGED <<held, copies>>

\* A held fragment is matched: by irecv_start, or by matchFragsInAheadOfSequenceList.
MatchHeld(p) ==
  /\ p \in held
  /\ held' = held \ {p}
  /\ ProcessMatchedData(p, received)
  /\ UNCHANGED packets

\* One element of the loop of SendUnsentAcks.
SendUnsentAck(f) ==
  /\ f \in unsent
  /\ AckData(f, received, unsent \ {f})
  /\ UNCHANGED <<held, copies, packets>>

ReceiverTypeOK ==
  /\ received \subseteq Seqs
  /\ delivered \subseteq Seqs
  /\ held \subseteq Packet
  /\ unsent \subseteq RecvFrag
  /\ copies \in [Seqs -> Nat]
=============================================================================
