------------------------------ MODULE UdpSender ------------------------------
(***************************************************************************)
(* The sending side of the UDP path for the messages to one peer:          *)
(* udpPath::send, BasePath_t::resend, the handling of acks, and the life   *)
(* of a send descriptor (isend_start, push_frags_into_network,             *)
(* CheckForAckedMessages, ulm_request_free, ReturnDesc).                   *)
(*                                                                         *)
(* The loops over posted sends treat each message by itself, so one step   *)
(* here is one iteration for one message.  Clock values are left out: a    *)
(* timer that is set may expire at any moment, and any fragment waiting    *)
(* for its ack may have timed out then.  (resend computes the back-off     *)
(* from the number of transmits after it was incremented, send from the    *)
(* number before, so a timer may well expire with no fragment timed out.)  *)
(*                                                                         *)
(* A fragment descriptor says on which list it is, so the lists are sets   *)
(* here.  Their order is left out: it depends on which sendmsg calls       *)
(* succeeded when, and any order can come about.  FragsToAck also has the  *)
(* length that DblLinkList keeps apart from the links: RemoveLinkNoLock of *)
(* an element that is not linked any more still decrements it, and of an   *)
(* element that is linked does nothing when it is 0.                       *)
(*                                                                         *)
(* Two branches are left out.  UDP receivers set DataOK for every fragment *)
(* (recvFrag.cc:110, 158), so no ack is negative.  An error of send that   *)
(* is not temporary makes the MPI call fail, or ends the program in        *)
(* push_frags_into_network.                                                *)
(***************************************************************************)
EXTENDS FragNetwork, Integers, Sequences

CONSTANTS Msgs,            \* messages to the peer, each with a SendDesc_t
          NumFrags,        \* numfrags of each message
          Kind,            \* sendType: "standard", "sync" or "buffered"
          Data,            \* "contig", "packed" (non-contiguous) or "empty"
          MaxOutstanding,  \* maxOutstandingUDPFrags
          EarlyMayFail,    \* may an early-send buffer be temporarily missing?
          None

ASSUME MsgsAssumption ==
  /\ NumFrags \in [Msgs -> Nat \ {0}]
  /\ Kind \in [Msgs -> {"standard", "sync", "buffered"}]
  /\ Data \in [Msgs -> {"contig", "packed", "empty"}]
  /\ \A m \in Msgs : Data[m] = "empty" => NumFrags[m] = 1
  /\ MaxOutstanding \in Nat \ {0}
  /\ EarlyMayFail \in BOOLEAN
  /\ None \notin Msgs

VARIABLES msg,        \* the send descriptors
          frag,       \* the send fragment descriptors
          nextSeq,    \* next_frag_seqs[peer]
          ackinfo,    \* sender_ackinfo[..].process_array[peer]
          corrupted   \* a list operation went wrong: the program is undefined

senderVars == <<msg, frag, nextSeq, ackinfo, corrupted>>

SendDesc == [queue : {"idle", "incomplete", "unacked", "none", "pool"},
             allocated : Nat, sent : Int, acked : Nat, copied : Nat, toAckLen : Nat,
             clear : BOOLEAN, armed : BOOLEAN, done : BOOLEAN, freeCalled : BOOLEAN]

FragDesc == [where : {"pool", "toSend", "toAck", "lost"},
             parent : Msgs \union {None}, seq : 0..MaxSeq, packed : BOOLEAN]

InPool == [where |-> "pool", parent |-> None, seq |-> 0, packed |-> FALSE]

\* FragsToSend and FragsToAck of a message, in the fragment descriptors fs.
FragsToSend(m, fs) == {d \in Descs : fs[d].where = "toSend" /\ fs[d].parent = m}
FragsToAck(m, fs) == {d \in Descs : fs[d].where = "toAck" /\ fs[d].parent = m}

Elements(s) == {s[i] : i \in DOMAIN s}
Least(a, b) == IF a < b THEN a ELSE b

\* A length after k removals: RemoveLinkNoLock does nothing to an empty list.
Less(n, k) == IF n > k THEN n - k ELSE 0

SenderInit ==
  /\ msg = [m \in Msgs |->
       [queue |-> "idle", allocated |-> 0, sent |-> 0, acked |-> 0, copied |-> 0,
        toAckLen |-> 0, clear |-> FALSE, armed |-> FALSE, done |-> FALSE,
        freeCalled |-> FALSE]]
  /\ frag = [d \in Descs |-> InPool]
  /\ nextSeq = 1
  /\ ackinfo = [received |-> 0, delivered |-> 0]
  /\ corrupted = FALSE

-----------------------------------------------------------------------------
(* udpPath::send, first loop: descriptors for further fragments. *)

Pool == {d \in Descs : frag[d].where = "pool"}

\* What is left of the window of fragments that are not acknowledged.
Room(s) == Less(MaxOutstanding, s.allocated - s.acked)

\* How many descriptors the loop gets.  The first fragment is always tried, and
\* a message with more than one waits for its ack before it goes on.
Allocs(m, s) ==
  LET free == Cardinality(Pool)
  IN IF s.allocated = 0 THEN Least(1, free)
     ELSE IF s.clear THEN Least(Least(NumFrags[m] - s.allocated, Room(s)), free)
     ELSE 0

\* clearToSend_m after the loop.  It is cleared when the window is the limit.  (It
\* is also cleared by a message that exactly fills its only fragment; nothing
\* looks at it then.)
ClearAfter(m, s) ==
  IF s.allocated = 0 THEN Allocs(m, s) = 1 => NumFrags[m] = 1
  ELSE s.clear /\ ~(Room(s) < NumFrags[m] - s.allocated /\ Room(s) <= Cardinality(Pool))

\* new is a sequence of distinct free descriptors.
TakesFromPool(new) ==
  /\ \A i \in DOMAIN new : new[i] \in Pool
  /\ \A i, j \in DOMAIN new : i # j => new[i] # new[j]

\* The fragment descriptors once those in new are initialised for message m,
\* with the sequence numbers that follow.
Initialised(m, new) ==
  [d \in Descs |->
     IF d \in Elements(new)
     THEN [where |-> "toSend", parent |-> m, packed |-> Data[m] # "packed",
           seq |-> nextSeq + (CHOOSE i \in DOMAIN new : new[i] = d) - 1]
     ELSE frag[d]]

(* Second loop: every fragment on FragsToSend is packed if it still has to  *)
(* be, and handed to the socket.  pack and out are the fragments for which  *)
(* that works.                                                              *)

\* The timer runs once a fragment has been handed to the socket.
Armed(s, out) == s.armed \/ out # {}

\* messageDone: all of the message was copied or packed, and nobody has to wait
\* for the receiver.
DoneOnceCopied_AnyKind(m, copied) == copied = NumFrags[m]
DoneOnceCopied(m, copied) == Kind[m] # "sync" /\ copied = NumFrags[m]

\* Where the callers put the message: isend_start on one of the two lists,
\* push_frags_into_network on none when every fragment was acknowledged.
Placed_ForgetsFreed(m, s, t) ==
  IF t.sent # NumFrags[m] THEN [t EXCEPT !.queue = "incomplete"]
  ELSE IF s.queue = "incomplete" /\ t.acked >= NumFrags[m]
  THEN [t EXCEPT !.queue = "none", !.done = TRUE]
  ELSE [t EXCEPT !.queue = "unacked"]
Placed(m, s, t) ==
  IF t.sent # NumFrags[m] THEN [t EXCEPT !.queue = "incomplete"]
  ELSE IF s.queue = "incomplete" /\ t.acked >= NumFrags[m]
  THEN [t EXCEPT !.queue = IF t.freeCalled THEN "pool" ELSE "none", !.done = TRUE]
  ELSE [t EXCEPT !.queue = "unacked"]

\* send on the descriptor s of m, with new descriptors, up to and including
\* what its caller does with the message.
send(m, s, new) ==
  LET fs == Initialised(m, new)
      queued == FragsToSend(m, fs)
      unpacked == {d \in queued : ~fs[d].packed}
  IN \E pack \in SUBSET unpacked :
     \E out \in SUBSET (queued \ (unpacked \ pack)) :
       LET copied == s.copied + Cardinality(pack)
                     + (IF Data[m] = "contig" THEN Len(new) ELSE 0)
           t == [s EXCEPT !.allocated = @ + Len(new), !.copied = copied,
                          !.clear = ClearAfter(m, s),
                          !.sent = @ + Cardinality(out),
                          !.toAckLen = @ + Cardinality(out),
                          !.armed = Armed(s, out),
                          !.done = @ \/ DoneOnceCopied(m, copied)]
       IN /\ msg' = [msg EXCEPT ![m] = Placed(m, s, t)]
          /\ frag' = [d \in Descs |->
               [fs[d] EXCEPT !.packed = @ \/ d \in pack,
                             !.where = IF d \in out THEN "toAck" ELSE @]]
          /\ packets' \in Transmit(packets, {[ptr |-> d, seq |-> fs[d].seq] : d \in out})
          /\ nextSeq' = nextSeq + Len(new)

\* send when an early-send buffer is missing for the fragment after those in
\* new: it returns at once, before its second loop, and the descriptor spare,
\* taken from the pool for that fragment, is on no list.
sendEarlyFails(m, s, new, spare) ==
  LET fs == Initialised(m, new)
  IN /\ EarlyMayFail /\ Data[m] = "contig"
     /\ msg' = [msg EXCEPT ![m] =
          [s EXCEPT !.allocated = @ + Len(new), !.copied = @ + Len(new),
                    !.clear = IF s.allocated = 0 THEN NumFrags[m] = 1 ELSE @,
                    !.queue = "incomplete"]]
     /\ frag' = [fs EXCEPT ![spare] = [where |-> "lost", parent |-> m, seq |-> 0,
                                       packed |-> FALSE]]
     /\ nextSeq' = nextSeq + Len(new)
     /\ UNCHANGED packets

Sends(m, s) ==
  LET k == Allocs(m, s)
  IN /\ nextSeq + k - 1 <= MaxSeq
     /\ \/ \E new \in [1..k -> Descs] : TakesFromPool(new) /\ send(m, s, new)
        \/ \E j \in 0..(k - 1) : \E new \in [1..(j + 1) -> Descs] :
             /\ TakesFromPool(new)
             /\ sendEarlyFails(m, s, SubSeq(new, 1, j), new[j + 1])
     /\ UNCHANGED <<acks, ackinfo, corrupted>>

\* isend_start: a buffered send is complete as soon as it is posted.
isend_start(m) ==
  /\ ~corrupted
  /\ msg[m].queue = "idle"
  /\ Sends(m, [msg[m] EXCEPT !.done = (Kind[m] = "buffered"),
                             !.clear = (Kind[m] # "sync")])

\* push_frags_into_network, for one message on IncompletePostedSends.
push_frags(m) ==
  /\ ~corrupted
  /\ msg[m].queue = "incomplete"
  /\ Sends(m, msg[m])

-----------------------------------------------------------------------------
(* BasePath_t::resend, called by CheckForRetransmits. *)

\* retransmitP: the message has a timer, and FragsToAck a length.
retransmitP(s) == s.armed /\ s.toAckLen # 0

\* Every element of taken is removed twice from a list of length len, in resend
\* and again in freeResources; one of timedOut is removed once.  The loop goes
\* astray if the length is 0 when it reaches one of them: with a timed out one
\* it goes on at a null pointer, a taken one is freed while still linked.
MaySurvive(len, taken, timedOut) ==
  Less(2 * taken, 1) + timedOut <= len
MayGoAstray(len, taken, timedOut) ==
  /\ taken + timedOut > 0
  /\ len <= IF timedOut > 0 THEN 2 * taken + timedOut - 1 ELSE 2 * (taken - 1)

resend(m) ==
  LET s == msg[m]
      listed == FragsToAck(m, frag)
      taken == {d \in listed : frag[d].seq <= ackinfo.delivered}
  IN /\ ~corrupted
     /\ s.queue \in {"incomplete", "unacked"}
     /\ retransmitP(s)
     /\ \E timedOut \in SUBSET (listed \ taken) :
          \/ /\ MayGoAstray(s.toAckLen, Cardinality(taken), Cardinality(timedOut))
             /\ corrupted' = TRUE
             /\ UNCHANGED <<msg, frag>>
          \/ /\ MaySurvive(s.toAckLen, Cardinality(taken), Cardinality(timedOut))
             /\ msg' = [msg EXCEPT ![m] =
                  [s EXCEPT !.toAckLen = Less(@, 2 * Cardinality(taken) + Cardinality(timedOut)),
                            !.sent = @ - Cardinality(timedOut),
                            !.acked = @ + Cardinality(taken),
                            !.clear = @ \/ taken # {},
                            !.armed = listed # taken \union timedOut,
                            !.queue = IF timedOut # {} THEN "incomplete" ELSE @]]
             /\ frag' = [d \in Descs |->
                  IF d \in taken THEN InPool
                  ELSE IF d \in timedOut THEN [frag[d] EXCEPT !.where = "toSend"]
                  ELSE frag[d]]
             /\ UNCHANGED corrupted
     /\ UNCHANGED <<nextSeq, ackinfo, packets, acks>>

-----------------------------------------------------------------------------
(* udpRecvFragDesc::processAck and udpSendFragDesc::freeResources. *)

\* The fragment leaves the list it is on.  One that was to be sent again
\* counts as sent.
Freed_NotCountedSent(s, d) ==
  IF frag[d].where = "toAck"
  THEN [s EXCEPT !.toAckLen = Less(@, 1), !.acked = @ + 1, !.clear = TRUE]
  ELSE [s EXCEPT !.acked = @ + 1, !.clear = TRUE]
Freed(s, d) ==
  IF frag[d].where = "toAck"
  THEN [s EXCEPT !.toAckLen = Less(@, 1), !.acked = @ + 1, !.clear = TRUE]
  ELSE [s EXCEPT !.sent = @ + 1, !.acked = @ + 1, !.clear = TRUE]

\* The aggregate information of an ack.  received may decrease.
UpdatedAckinfo(a) ==
  [received |-> a.received,
   delivered |-> IF a.delivered > ackinfo.delivered THEN a.delivered ELSE ackinfo.delivered]

\* The ack names the fragment that the descriptor holds now.
AckMatches_AnySeq(a) == a.status = "good"
AckMatches(a) == a.status = "good" /\ frag[a.ptr].seq = a.seq

processAck(a) ==
  LET d == a.ptr
      m == frag[d].parent
  IN /\ ~corrupted
     /\ a \in acks
     /\ acks' \in Receipt(acks, a)
     /\ IF m = None
        THEN UNCHANGED <<msg, frag, ackinfo, corrupted>>
        ELSE /\ ackinfo' = UpdatedAckinfo(a)
             /\ IF ~AckMatches(a)
                THEN UNCHANGED <<msg, frag, corrupted>>
                ELSE IF frag[d].where = "toAck" /\ msg[m].toAckLen = 0
                THEN corrupted' = TRUE /\ UNCHANGED <<msg, frag>>
                ELSE /\ msg' = [msg EXCEPT ![m] = Freed(msg[m], d)]
                     /\ frag' = [frag EXCEPT ![d] = InPool]
                     /\ UNCHANGED corrupted
     /\ UNCHANGED <<nextSeq, packets>>

-----------------------------------------------------------------------------
\* BasePath_t::sendDone
sendDone_NotAcked(m) == msg[m].sent >= NumFrags[m]
sendDone_OneMore(m) == msg[m].acked > NumFrags[m] /\ msg[m].sent >= NumFrags[m]
sendDone(m) == msg[m].acked >= NumFrags[m] /\ msg[m].sent >= NumFrags[m]

\* CheckForAckedMessages, for one message on UnackedPostedSends.
CheckForAcked(m) ==
  /\ ~corrupted
  /\ msg[m].queue = "unacked"
  /\ sendDone(m)
  /\ ~msg[m].done \/ msg[m].freeCalled
  /\ msg' = [msg EXCEPT ![m].done = TRUE,
                        ![m].queue = IF msg[m].freeCalled THEN "pool" ELSE @]
  /\ UNCHANGED <<frag, nextSeq, ackinfo, corrupted, packets, acks>>

\* ulm_request_free on a request that was started: by the user, or by ulm_wait
\* or ulm_test once the message is done.
ulm_request_free(m) ==
  /\ ~corrupted
  /\ msg[m].queue \notin {"idle", "pool"}
  /\ ~msg[m].freeCalled
  /\ msg' = [msg EXCEPT ![m].freeCalled = TRUE]
  /\ UNCHANGED <<frag, nextSeq, ackinfo, corrupted, packets, acks>>

SenderTypeOK ==
  /\ msg \in [Msgs -> SendDesc]
  /\ frag \in [Descs -> FragDesc]
  /\ nextSeq \in 1..(MaxSeq + 1)
  /\ ackinfo \in [received : 0..MaxSeq, delivered : 0..MaxSeq]
  /\ corrupted \in BOOLEAN
=============================================================================
