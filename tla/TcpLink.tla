------------------------------ MODULE TcpLink ------------------------------
(***************************************************************************)
(* Messages from one process to another over the connected sockets of a    *)
(* TCPPeer (path/tcp/tcppeer.cc, tcpsend.cc, tcprecv.cc), and how their    *)
(* fragments meet the receives (Communicator::matchReceivedFrag and        *)
(* handleReceivedFrag).  Only the first fragment of a message is sent      *)
(* until its ack says that the receive has been matched.  A fragment is    *)
(* read in two steps, because its data may come later than its header.     *)
(*                                                                         *)
(* The receives are posted in order and take any message, so that receive  *)
(* m is the one for message m (Matching is about the other cases).  Each   *)
(* process has one thread; connections do not fail here (TcpPeer).         *)
(***************************************************************************)
EXTENDS Integers, Sequences, FiniteSets, SequencesExt

CONSTANTS
    Socks,      \* the sockets, 1..n
    NumFrags,   \* NumFrags[m]: numfrags of the m-th message
    Sync,       \* the messages of synchronous sends
    SockBuf     \* what a stream holds, in headers and data blocks (a bound)

Messages == DOMAIN NumFrags

VARIABLES
    up,         \* the sockets that are connected
    desc,       \* the send descriptors, by message
    isent,      \* number of isends so far
    incomplete, \* IncompletePostedSends
    sending,    \* TCPSocket::sendFrag of the sender
    wire, back, \* the streams of each socket, to the receiver and to the sender
    reading,    \* TCPSocket::recvFrag of the receiver, its header read
    acking,     \* TCPSocket::sendFrag of the receiver: fragment whose ack it sends
    ack,        \* fragAcked and fragAckCnt of the first fragments
    unsentAcks, \* UnprocessedAcks
    nextSeq,    \* next_expected_isendSeqs
    recvPosted, \* number of receives posted
    boundTo,    \* the messages a receive has been matched with
    aheadList, okList,  \* AheadOfSeqRecvFrags, OkToMatchRecvFrags
    copies,     \* what was copied to the application, with multiplicity
    listDamaged \* a fragment on a list twice, or taken before it was read

sendSide == <<desc, isent, incomplete, sending>>
recvSide == <<reading, acking, ack, unsentAcks, nextSeq, recvPosted, boundTo, aheadList,
              okList, copies, listDamaged>>
linkVars == <<up, sendSide, wire, back, recvSide>>

Frag(m, i) == [m |-> m, i |-> i]
AllFrags == UNION {{Frag(m, i) : i \in 1..NumFrags[m]} : m \in Messages}
Free == [m |-> 0, i |-> 0, bound |-> FALSE, begun |-> FALSE]
NewDesc(m) == [toSend |-> [k \in 1..NumFrags[m] |-> k], clearToSend |-> TRUE,
               sent |-> 0, acked |-> 0, done |-> FALSE, bound |-> FALSE,
               queue |-> "none", freed |-> FALSE, returned |-> FALSE]

LinkInit ==
    /\ up = {}
    /\ desc = [m \in Messages |-> NewDesc(m)]
    /\ isent = 0
    /\ incomplete = <<>>
    /\ sending = [s \in Socks |-> Free]
    /\ wire = [s \in Socks |-> <<>>] /\ back = [s \in Socks |-> <<>>]
    /\ reading = [s \in Socks |-> Free]
    /\ acking = [s \in Socks |-> Free]
    /\ ack = [m \in Messages |-> "none"]
    /\ unsentAcks = <<>>
    /\ nextSeq = 1
    /\ recvPosted = 0
    /\ boundTo = {}
    /\ aheadList = <<>> /\ okList = <<>>
    /\ copies = [f \in AllFrags |-> 0]
    /\ listDamaged = FALSE

-----------------------------------------------------------------------------
(* The sender.  st is its state while a handler runs: the descriptors, the  *)
(* fragment that occupies each socket, and the streams.                     *)

\* A fragment's header and data in the stream; bound: recv_desc is set.
Item(kind, f) == [kind |-> kind, m |-> f.m, i |-> f.i, bound |-> f.bound]

\* Which fragments are waited for with an ack instead of being counted as
\* acknowledged once they are written.
WaitsForAck(d, m) == d.sent = 0 /\ (NumFrags[m] > 1 \/ m \in Sync)

\* A non-synchronous send is complete once all its fragments are written.
\* Mutant: complete as soon as the first fragment is written.
WrittenIsDoneEarly(d, m) == m \notin Sync
WrittenIsDone(d, m) == d.sent = NumFrags[m] /\ m \notin Sync

\* TCPPeer::sendComplete, up to the choice of the next fragment.
Counted(d, m) ==
    LET e == [d EXCEPT !.acked = IF WaitsForAck(d, m) THEN @ ELSE @ + 1, !.sent = @ + 1]
    IN  [e EXCEPT !.done = @ \/ WrittenIsDone(e, m)]

\* The next fragment of FragsToSend takes socket s.
Pull(st, s, m) ==
    [st EXCEPT !.desc[m].toSend = Tail(@),
               !.sending[s] = [m |-> m, i |-> Head(st.desc[m].toSend),
                               bound |-> st.desc[m].bound, begun |-> FALSE]]

\* TCPSendFrag::sendEventHandler on socket s, as the set of its outcomes: the
\* stream takes as many of the parts that are left as it likes.  When all is
\* written, TCPPeer::sendComplete goes on with the next fragment of the message.
Sent(st, s) ==
    LET f == st.sending[s]
        d == Counted(st.desc[f.m], f.m)
        all == [st EXCEPT !.wire[s] = Append(@, Item("data", f)), !.desc[f.m] = d]
    IN  IF ~f.begun
        THEN [st EXCEPT !.wire[s] = Append(@, Item("hdr", f)), !.sending[s].begun = TRUE]
        ELSE IF d.sent < NumFrags[f.m] /\ d.clearToSend /\ d.toSend # <<>>
        THEN Pull(all, s, f.m)
        ELSE [all EXCEPT !.sending[s] = Free]

RECURSIVE Writes(_, _)
Writes(st, s) ==
    {st} \cup IF st.sending[s] = Free \/ Len(st.wire[s]) >= SockBuf THEN {}
              ELSE UNION {Writes(t, s) : t \in {Sent(st, s)}}

\* TCPPeer::sendStart: the first fragments of the message go to the sockets that
\* are free; after the very first one, wait for the ack.
\* Mutant: the rest follows at once.
HoldsBackNever(d, m) == FALSE
HoldsBack(d, m) == NumFrags[m] > 1 /\ Len(d.toSend) = NumFrags[m]

StartOn(st, s, m) ==
    LET d == st.desc[m]
        held == [st EXCEPT !.desc[m].clearToSend = ~HoldsBack(d, m)]
    IN  IF s \in up /\ st.sending[s] = Free /\ d.toSend # <<>> /\ d.clearToSend
        THEN UNION {Writes(t, s) : t \in {Pull(held, s, m)}}
        ELSE {st}

RECURSIVE StartFrom(_, _, _)
StartFrom(st, s, m) ==
    IF s \notin Socks THEN {st}
    ELSE UNION {StartFrom(t, s + 1, m) : t \in StartOn(st, s, m)}
SendStart(st, m) == StartFrom(st, 1, m)

SendState == [desc |-> desc, sending |-> sending, wire |-> wire]
SetSendState(st) == desc' = st.desc /\ sending' = st.sending /\ wire' = st.wire

\* isend_start: the descriptor goes to the list of those to be pushed again or
\* of those to be acknowledged.
Isend ==
    LET m == isent + 1
    IN  /\ m \in Messages
        /\ isent' = m
        /\ \E st \in SendStart(SendState, m) :
             IF st.desc[m].sent < NumFrags[m]
             THEN /\ SetSendState([st EXCEPT !.desc[m].queue = "incomplete"])
                  /\ incomplete' = Append(incomplete, m)
             ELSE /\ SetSendState([st EXCEPT !.desc[m].queue = "unacked"])
                  /\ UNCHANGED incomplete
        /\ UNCHANGED <<up, back, recvSide>>

\* push_frags_into_network: call send for every incomplete message, in order.
Visited(st, m) ==
    LET d == st.desc[m]
    IN  IF d.sent < NumFrags[m] THEN st
        ELSE IF d.acked >= NumFrags[m]
        THEN [st EXCEPT !.desc[m].queue = "none", !.desc[m].done = TRUE,
                        !.desc[m].returned = d.freed]
        ELSE [st EXCEPT !.desc[m].queue = "unacked"]

RECURSIVE Pushes(_, _)
Pushes(st, list) ==
    IF list = <<>> THEN {st}
    ELSE UNION {Pushes(Visited(t, Head(list)), Tail(list)) : t \in SendStart(st, Head(list))}

Push ==
    /\ \E st \in Pushes(SendState, incomplete) :
        /\ SetSendState(st)
        /\ incomplete' = SelectSeq(incomplete, LAMBDA m : st.desc[m].queue = "incomplete")
    /\ UNCHANGED <<up, isent, back, recvSide>>

\* TCPSendFrag::sendEventHandler, called by the Reactor: there is some room.
WriteReady(s) ==
    /\ sending[s] # Free
    /\ \E st \in Writes(SendState, s) \ {SendState} : SetSendState(st)
    /\ UNCHANGED <<up, isent, incomplete, back, recvSide>>

\* The ack branch of TCPRecvFrag::recvHeader, in the sender.
RecvAck(s) ==
    LET m == Head(back[s]).m
        st == [SendState EXCEPT !.desc[m].bound = Head(back[s]).bound, !.desc[m].acked = @ + 1,
                                !.desc[m].clearToSend = TRUE]
    IN  /\ back[s] # <<>>
        /\ back' = [back EXCEPT ![s] = Tail(@)]
        /\ \E t \in SendStart(st, m) : SetSendState(t)
        /\ UNCHANGED <<up, isent, incomplete, recvSide>>

\* CheckForAckedMessages, for one message of UnackedPostedSends.
FullyAcked(d, m) == d.acked >= NumFrags[m] /\ d.sent >= NumFrags[m]

CheckAcked(m) ==
    LET d == desc[m]
    IN  /\ d.queue = "unacked" /\ FullyAcked(d, m)
        /\ ~d.done \/ d.freed
        /\ desc' = [desc EXCEPT ![m].done = TRUE,
                               ![m].queue = IF d.freed THEN "none" ELSE @,
                               ![m].returned = d.freed]
        /\ UNCHANGED <<up, isent, incomplete, sending, wire, back, recvSide>>

\* ulm_wait or ulm_test when the send is complete, or ulm_request_free, which may
\* come before.
FreeSend(m) ==
    /\ m <= isent /\ ~desc[m].freed
    /\ desc' = [desc EXCEPT ![m].freed = TRUE]
    /\ UNCHANGED <<up, isent, incomplete, sending, wire, back, recvSide>>

\* A socket becomes connected (TcpPeer).
Connected(s) ==
    /\ s \notin up
    /\ up' = up \cup {s}
    /\ UNCHANGED <<sendSide, wire, back, recvSide>>

-----------------------------------------------------------------------------
(* The receiver.  r is its state while a handler runs.                      *)

RecvState == [reading |-> reading, acking |-> acking, ack |-> ack, back |-> back,
              unsent |-> unsentAcks, next |-> nextSeq, posted |-> recvPosted,
              bound |-> boundTo, ahead |-> aheadList, ok |-> okList,
              copies |-> copies, damaged |-> listDamaged]
SetRecvState(r) ==
    /\ reading' = r.reading /\ acking' = r.acking /\ ack' = r.ack /\ back' = r.back
    /\ unsentAcks' = r.unsent /\ nextSeq' = r.next /\ recvPosted' = r.posted
    /\ boundTo' = r.bound /\ aheadList' = r.ahead /\ okList' = r.ok
    /\ copies' = r.copies /\ listDamaged' = r.damaged

\* sendAck: the first fragment of a long or of a synchronous message.
\* Mutant: of a synchronous one only.
NeedsAckSyncOnly(f) == f.i = 1 /\ f.m \in Sync
NeedsAck(f) == f.i = 1 /\ (f.m \in Sync \/ NumFrags[f.m] > 1)

\* sendAck, with TCPPeer::send(TCPRecvFrag*): the first free socket, if any.
\* now: the stream takes the ack at once.
SendAck(r, f, now) ==
    LET idle == {s \in up : r.acking[s] = Free}
        s == CHOOSE s \in idle : \A t \in idle : s <= t
    IN  IF ~NeedsAck(f) \/ r.ack[f.m] # "none" \/ idle = {} THEN r
        ELSE IF now
        THEN [r EXCEPT !.back[s] = Append(@, [m |-> f.m, bound |-> f.bound]),
                       !.ack[f.m] = "sent"]
        ELSE [r EXCEPT !.acking[s] = f, !.ack[f.m] = "sending"]

Acked(r, f) == ~NeedsAck(f) \/ r.ack[f.m] = "sent"

\* Copy to the application, acknowledge, or leave the ack for later.
Deliver(r, f, now) ==
    LET t == SendAck([r EXCEPT !.copies[Frag(f.m, f.i)] = @ + 1], f, now)
    IN  IF Acked(t, f) THEN t ELSE [t EXCEPT !.unsent = Append(@, f)]
\* ++next_expected_isendSeqs, and matchFragsInAheadOfSequenceList: the fragments
\* on the list are not read yet.
Advance(r) ==
    LET n == r.next + 1
    IN  [r EXCEPT !.next = n,
                  !.damaged = @ \/ \E k \in DOMAIN r.ahead : r.ahead[k].m = n]

\* matchReceivedFrag: bind the fragment to a receive, or leave it alone; one that
\* is ahead of its sequence goes on the list.
MatchReceived(r, s, f) ==
    LET bind == [r EXCEPT !.reading[s].bound = TRUE, !.bound = @ \cup {f.m}]
    IN  IF f.m > r.next THEN [r EXCEPT !.ahead = Append(@, f)]
        ELSE IF f.m = r.next
        THEN IF f.m <= r.posted THEN Advance(bind) ELSE r
        ELSE IF f.m \in r.bound THEN bind ELSE r

\* handleReceivedFrag.  A fragment that is ahead of its sequence is on the list
\* already, and is now appended again.
HandleReceived(r, f, now) ==
    LET matched == Deliver([r EXCEPT !.bound = @ \cup {f.m}], f, now)
        queued == [r EXCEPT !.ok = Append(@, f)]
    IN  IF f.m > r.next THEN [r EXCEPT !.damaged = TRUE]
        ELSE IF f.m = r.next
        THEN Advance(IF f.m <= r.posted THEN matched ELSE queued)
        ELSE IF f.m \in r.bound THEN matched ELSE queued

\* TCPRecvFrag::recvHeader for a message: match it, unless the header names the
\* receive, and start the ack at once.  A failing ulm_malloc of the buffer is left
\* out: the handler returns, and reads the data to a null address when it is
\* called again.
RecvHeader(s) ==
    LET h == Head(wire[s])
        f == [m |-> h.m, i |-> h.i, bound |-> h.bound, begun |-> TRUE]
        r == [RecvState EXCEPT !.reading[s] = f]
        t == IF h.bound THEN r ELSE MatchReceived(r, s, f)
    IN  /\ reading[s] = Free /\ wire[s] # <<>> /\ ~listDamaged
        /\ wire' = [wire EXCEPT ![s] = Tail(@)]
        /\ \E u \in {t}, now \in BOOLEAN :
             SetRecvState(IF u.reading[s].bound THEN SendAck(u, u.reading[s], now) ELSE u)
        /\ UNCHANGED <<up, sendSide>>

\* The rest of TCPRecvFrag::recvEventHandler, once the data is there.
RecvData(s) ==
    LET f == reading[s]
        r == [RecvState EXCEPT !.reading[s] = Free]
    IN  /\ f # Free /\ wire[s] # <<>> /\ ~listDamaged
        /\ wire' = [wire EXCEPT ![s] = Tail(@)]
        /\ \E now \in BOOLEAN :
             \E t \in {IF f.bound THEN Deliver(r, f, now) ELSE HandleReceived(r, f, now)} :
                SetRecvState(t)
        /\ UNCHANGED <<up, sendSide>>

\* irecv_start: the next receive takes the fragments of its message from the
\* list of those that may be matched, or is posted.
PostReceive ==
    LET m == recvPosted + 1
        mine == SelectSeq(okList, LAMBDA f : f.m = m)
        r == [RecvState EXCEPT !.posted = m]
        t == [r EXCEPT !.bound = @ \cup {m}, !.ok = SelectSeq(@, LAMBDA f : f.m # m)]
    IN  /\ m \in Messages /\ ~listDamaged
        /\ IF mine = <<>> THEN SetRecvState(r)
           ELSE \E now \in BOOLEAN :
                SetRecvState(FoldLeft(LAMBDA u, f : Deliver(u, f, now), t, mine))
        /\ UNCHANGED <<up, sendSide, wire>>

\* TCPRecvFrag::sendEventHandler, called by the Reactor.
WriteAck(s) ==
    LET f == acking[s]
    IN  /\ f # Free
        /\ back' = [back EXCEPT ![s] = Append(@, [m |-> f.m, bound |-> f.bound])]
        /\ acking' = [acking EXCEPT ![s] = Free]
        /\ ack' = [ack EXCEPT ![f.m] = "sent"]
        /\ UNCHANGED <<up, sendSide, wire, reading, unsentAcks, nextSeq, recvPosted,
                       boundTo, aheadList, okList, copies, listDamaged>>

\* SendUnsentAcks.
SendUnsentAcks ==
    /\ unsentAcks # <<>>
    /\ \E now \in BOOLEAN :
       \E r \in {FoldLeft(LAMBDA u, f : SendAck(u, f, now), RecvState, unsentAcks)} :
          SetRecvState([r EXCEPT !.unsent = SelectSeq(@, LAMBDA f : ~Acked(r, f))])
    /\ UNCHANGED <<up, sendSide, wire>>

\* What the library does while a process waits.
LinkProgress ==
    \/ \E s \in Socks : \/ Connected(s) \/ WriteAck(s) \/ RecvHeader(s) \/ RecvData(s)
                        \/ WriteReady(s) \/ RecvAck(s)
    \/ \E m \in Messages : CheckAcked(m)
    \/ SendUnsentAcks
    \/ Push

LinkNext ==
    LinkProgress \/ Isend \/ PostReceive \/ \E m \in Messages : FreeSend(m)

\* Each step of LinkProgress brings a message forward, so that there are finitely
\* many of them, and fairness of LinkProgress is fairness of each.

-----------------------------------------------------------------------------
RecvDone(m) == \A i \in 1..NumFrags[m] : copies[Frag(m, i)] > 0

\* The fragments after the first go to a receive that is still open: each of
\* them, in a stream or being read, belongs to a message whose receive has been
\* matched and is not complete, so that the pointer in its header is good and
\* isThisMissingFrag finds the receive.
RestHasOpenReceive ==
    \A s \in Socks, k \in 1..SockBuf :
        k <= Len(wire[s]) /\ wire[s][k].i > 1 =>
            wire[s][k].m \in boundTo /\ ~RecvDone(wire[s][k].m)

\* An ack finds its message: the descriptor its header points to has not been
\* returned to the pool while the ack is under way or still to be sent.
AckFindsMessage ==
    \A m \in Messages :
        \/ \E s \in Socks : \E k \in DOMAIN back[s] : back[s][k].m = m
        \/ \E s \in Socks : acking[s].m = m
        \/ \E k \in DOMAIN unsentAcks : unsentAcks[k].m = m /\ ack[m] # "sent"
        => ~desc[m].returned

\* The addresses that travel in headers, of a receive in one direction and of a send
\* in the other, are good when they are used (tcprecv.cc).
AddressesAreLive == RestHasOpenReceive /\ AckFindsMessage

\* What a completed send promises: the buffer may be used again, because all
\* fragments are written, and a synchronous send has been matched.  At the other
\* end no fragment is copied twice, or before its turn.
TcpDoneIsTrue ==
    /\ \A m \in Messages : desc[m].done =>
        /\ desc[m].toSend = <<>> /\ \A s \in Socks : sending[s].m # m
        /\ m \in Sync => m \in boundTo
    /\ \A f \in AllFrags : copies[f] <= 1 /\ (copies[f] = 1 => f.m \in boundTo /\ f.m < nextSeq)

\* A message that was sent and for which a receive is posted arrives, and the
\* send completes, unless the lists were damaged.
TcpMessagesArrive ==
    \A m \in Messages :
        (m <= isent /\ m <= recvPosted) ~> ((RecvDone(m) /\ desc[m].done) \/ listDamaged)

\* The comment in TCPRecvFrag::recvEventHandler: "data has been buffered so
\* simply queue up the received fragment".  A fragment is on a list once, and
\* only after it was read.
QueuedOnceAndRead == ~listDamaged
=============================================================================
