------------------------------- MODULE UdpLink -------------------------------
(***************************************************************************)
(* The UDP path from one process to another: UdpSender and FragReceiver    *)
(* joined by the network.  Each handler runs to its end before the next    *)
(* one starts, as in a build whose progress engine runs in one thread per  *)
(* process.                                                                *)
(***************************************************************************)
EXTENDS UdpSender, FragReceiver

vars == <<senderVars, receiverVars, packets, acks>>

Init == /\ SenderInit /\ ReceiverInit
        /\ packets = {} /\ acks = {}

\* A step of the sender leaves the receiver alone, and the other way round.
Next ==
  \/ \E m \in Msgs : isend_start(m) /\ UNCHANGED receiverVars
  \/ \E m \in Msgs : push_frags(m) /\ UNCHANGED receiverVars
  \/ \E m \in Msgs : resend(m) /\ UNCHANGED receiverVars
  \/ \E a \in acks : processAck(a) /\ UNCHANGED receiverVars
  \/ \E m \in Msgs : CheckForAcked(m) /\ UNCHANGED receiverVars
  \/ \E m \in Msgs : ulm_request_free(m) /\ UNCHANGED receiverVars
  \/ \E p \in packets : ReceiveNew(p) /\ UNCHANGED senderVars
  \/ \E p \in packets : ReceiveDuplicate(p) /\ UNCHANGED senderVars
  \/ \E p \in held : MatchHeld(p) /\ UNCHANGED senderVars
  \/ \E f \in unsent : SendUnsentAck(f) /\ UNCHANGED senderVars

Spec == Init /\ [][Next]_vars

-----------------------------------------------------------------------------
\* Sequence numbers handed out, and those whose fragment is still held by a
\* descriptor of the sender.
Sent == 1..(nextSeq - 1)
Live == {frag[d].seq : d \in Descs} \ {0}

\* Descriptors, lists, tracking lists and datagrams have their types.
TypeOK ==
  /\ SenderTypeOK
  /\ ReceiverTypeOK
  /\ packets \subseteq Packet
  /\ acks \subseteq Ack

\* Reliability, sender's side: a fragment that the sender has let go of (its
\* descriptor is back in the pool, its data can not be sent again) has been
\* copied to the application, whatever was lost, duplicated or reordered, and
\* whichever descriptor a late ack happens to name.
NoFragmentLost == \A s \in Sent \ Live : copies[s] = 1

\* Reliability, receiver's side: no fragment is copied to the application twice,
\* and none before it was sent.
AtMostOnce == \A s \in Seqs : copies[s] <= 1 /\ (copies[s] = 1 => s \in Sent)

\* What the sender was told is true: everything up to the aggregate delivered
\* number was copied to the application, and so was every fragment whose ack,
\* even one that is still under way or for a descriptor reused since, says good.
AcksAreTrue ==
  /\ \A s \in 1..ackinfo.delivered : copies[s] = 1
  /\ \A a \in acks : /\ a.status = "good" => copies[a.seq] = 1
                     /\ \A s \in 1..a.delivered : copies[s] = 1

\* The fragments of a message that are on one of its lists.
Listed(m) == FragsToSend(m, frag) \union FragsToAck(m, frag)

\* ReturnDesc asserts that both lists of the message are empty, and a message
\* leaves for good only when each of its fragments was acknowledged exactly once.
ReturnedIsEmpty ==
  \A m \in Msgs : msg[m].queue \in {"none", "pool"} =>
    Listed(m) = {} /\ msg[m].acked = NumFrags[m]

\* The counters of a message account for its fragments: every fragment allocated
\* is acknowledged or on a list, NumSent counts those not waiting to be sent, and no
\* more than maxOutstandingUDPFrags are unacknowledged.  The length kept for
\* FragsToAck never exceeds the number of linked fragments; it can fall behind,
\* because resend and freeResources both unlink a delivered fragment (path.cc:132,
\* sendFrag.cc:80).
CountersAgree ==
  \A m \in Msgs :
    /\ msg[m].allocated = msg[m].acked + Cardinality(Listed(m))
    /\ msg[m].sent = msg[m].allocated - Cardinality(FragsToSend(m, frag))
    /\ msg[m].allocated - msg[m].acked <= MaxOutstanding
    /\ msg[m].toAckLen <= Cardinality(FragsToAck(m, frag))

\* A synchronous send is done only when each of its fragments was acknowledged,
\* which a receiver does once it has matched them with a receive.
SyncMeansDelivered ==
  \A m \in Msgs : (msg[m].done /\ Kind[m] = "sync") =>
    msg[m].acked = NumFrags[m] /\ Listed(m) = {}

\* The UDP path, with everything it does about loss and duplication, implements
\* a link that delivers each fragment at most once and never gives one up.
Abstract == INSTANCE ReliableLink WITH submitted <- nextSeq - 1, count <- copies,
                                       released <- Sent \ Live
ImplementsReliableLink == Abstract!Spec

-----------------------------------------------------------------------------
(* The inductive invariant.                                                 *)

\* Copying a fragment to the application works, as it does unless a buffer
\* for non-contiguous data can not be allocated.
CopySucceeds == \A o \in CopyOutcomes : o.ok /\ o.copied

\* The receiver: what is delivered was received, what was received was sent, a
\* fragment is copied when it is delivered and not before, and of the fragments
\* that are held no two are the same.
ReceiverInv ==
  /\ delivered \subseteq received
  /\ received \subseteq Sent
  /\ copies = [s \in Seqs |-> IF s \in delivered THEN 1 ELSE 0]
  /\ \A p \in held : p.seq \in received \ delivered
  /\ \A p, q \in held : p.seq = q.seq => p = q
  /\ \A f \in unsent : f.ok /\ (f.dup # "received" => f.seq \in delivered)

\* The network: fragments were sent; acks say what is true at the receiver.
NetworkInv ==
  /\ \A p \in packets : p.seq \in Sent
  /\ \A a \in acks : /\ a.status = "good" => a.seq \in delivered
                     /\ 1..a.delivered \subseteq delivered

\* The sender: it lets go of delivered fragments only, and a descriptor on no
\* list has no sequence number.
SenderInv ==
  /\ 1..ackinfo.delivered \subseteq delivered
  /\ Sent \ Live \subseteq delivered
  /\ \A d \in Descs : /\ frag[d].seq < nextSeq
                      /\ frag[d].seq = 0 <=> frag[d].where \in {"pool", "lost"}
  /\ \A m \in Msgs : msg[m].allocated <= NumFrags[m]

\* Together they are preserved by every step, which no property above is by
\* itself: whether an ack under way may free a descriptor depends on what the
\* receiver has delivered, and that on what it holds and on what was sent.
IInv == TypeOK /\ ReceiverInv /\ NetworkInv /\ SenderInv

-----------------------------------------------------------------------------
(* Fairness.  The progress engine runs for ever in each process (ulm_wait   *)
(* and ulm_test call it), timers expire, the receiver posts its receives,   *)
(* and the network does not lose every copy of a datagram that is sent      *)
(* again and again.                                                         *)

\* push_frags hands every fragment, old or new, to the socket.
PushesAll(m) == push_frags(m) /\ FragsToSend(m, frag') = {}

\* push_frags gets fragment s, which was waiting to be sent, into the network.
PushArrives(s) ==
  \E m \in Msgs, d \in Descs :
    /\ d \in FragsToSend(m, frag) /\ frag[d].seq = s
    /\ push_frags(m)
    /\ frag'[d].where = "toAck" /\ [ptr |-> d, seq |-> s] \in packets'

\* resend finds that every fragment has timed out, unless it was delivered.
TimesOut(m) == resend(m) /\ (corrupted' \/ FragsToAck(m, frag') = {})

\* A fragment is taken from the network and, if it was or is now delivered, an
\* ack that says so enters it.
TakesIn(s) ==
  \E p \in packets :
    /\ p.seq = s
    /\ ReceiveNew(p) \/ ReceiveDuplicate(p)
    /\ p \notin packets'
    /\ s \in delivered' =>
         \E a \in acks' : a.seq = s /\ a.ptr = p.ptr /\ a.status = "good"

\* An ack for fragment s, or one for none (s = 0), is taken from the network.
AckArrives(s) == \E a \in acks : a.seq = s /\ processAck(a) /\ a \notin acks'

\* The fragment is matched, and acknowledged.
Matches(s) == \E p \in held : p.seq = s /\ MatchHeld(p)
SendsLateAck(s) == \E f \in unsent : f.seq = s /\ SendUnsentAck(f) /\ f \notin unsent'

Fairness ==
  /\ \A m \in Msgs : /\ WF_vars(PushesAll(m) /\ UNCHANGED receiverVars)
                     /\ WF_vars(TimesOut(m) /\ UNCHANGED receiverVars)
                     /\ WF_vars(CheckForAcked(m) /\ UNCHANGED receiverVars)
  /\ \A s \in Seqs : /\ SF_vars(PushArrives(s) /\ UNCHANGED receiverVars)
                     /\ SF_vars(TakesIn(s) /\ UNCHANGED senderVars)
                     /\ WF_vars(Matches(s) /\ UNCHANGED senderVars)
                     /\ WF_vars(SendsLateAck(s) /\ UNCHANGED senderVars)
  /\ \A s \in 0..MaxSeq : SF_vars(AckArrives(s) /\ UNCHANGED receiverVars)

FairSpec == Spec /\ Fairness

\* Every send that was started completes: a datagram or its ack may be lost any
\* number of times, but not for ever (resend, "move the timed out frags from
\* FragsToAck back to FragsToSend", path.cc:92).
SendsComplete == \A m \in Msgs : (msg[m].queue # "idle") ~> msg[m].done

\* The length of FragsToAck is still that of the list.  resend (path.cc:132) and
\* freeResources (sendFrag.cc:80) both unlink a delivered fragment, and if another one
\* is linked the length is too small from then on: at 0 retransmitP is false, and what
\* is left on the list is not sent again.
LengthIntact(m) == ~corrupted /\ msg[m].toAckLen = Cardinality(FragsToAck(m, frag))

\* A send of several fragments completes as long as that length is right: window,
\* pool and clearToSend_m never hold it up for ever, whichever datagrams and acks are
\* lost or late (udpPath::send, resend, processAck, CheckForAckedMessages).
IntactSendsComplete ==
  \A m \in Msgs : (msg[m].queue # "idle") ~> (msg[m].done \/ ~LengthIntact(m))

\* The descriptor of a send returns to the pool if the request was freed while
\* the message was on one of the lists, and the length stays right.  One that
\* push_frags_into_network took off every list before that is not visited again
\* (Pt2PtGroupProgress.cc:172).
FreedIsReturned ==
  \A m \in Msgs : (msg[m].freeCalled /\ msg[m].queue \in {"incomplete", "unacked"})
                    ~> (msg[m].queue = "pool" \/ ~LengthIntact(m))
=============================================================================
