------------------------------ MODULE TcpPeer ------------------------------
(***************************************************************************)
(* How two processes connect over TCP (path/tcp/tcppeer.*, tcppath.cc).    *)
(* Either side connects when it has something to send, so that both may do *)
(* it at once; each has a socket per interface for the other.  The         *)
(* initiator of a connection sends its process number, the other end       *)
(* answers with its own or closes the connection.  A connection is a pair  *)
(* of streams; data written after one end has closed is lost, and the path *)
(* does not send anything twice.                                           *)
(***************************************************************************)
EXTENDS Integers, Sequences, FiniteSets, SequencesExt

CONSTANTS
    Ifs,                \* the interfaces: one socket each
    MaxConns,           \* bound on the connections that are tried
    MaxConnectRetries,  \* TCPPath::MaxConnectRetries
    MaxTcpFaults,       \* bound on connections refused or broken
    MaxTcpSends         \* bound on the messages of each process

VARIABLES
    sock,               \* tcpSockets: state, connection (sd), retries
    socketsConnected,   \* tcpSocketsConnected
    conns,              \* the connections tried so far
    unread,             \* accepted connections whose process number is unread
    toSend,             \* messages not yet written, per process
    received,           \* messages received, per process
    lostMsgs,           \* messages in a stream nobody reads any more
    pathFailed,         \* startConnect has returned ULM_ERR_BAD_PATH
    tcpFaults

connVars == <<sock, socketsConnected, conns, unread, toSend, received, lostMsgs,
              pathFailed, tcpFaults>>

TcpProcs == 0..1
Peer(p) == 1 - p
NoConn == 0
Conns == 1..Len(conns)
Closed(retries) == [state |-> "CLOSED", conn |-> NoConn, retries |-> retries]

TcpInit ==
    /\ sock = [p \in TcpProcs |-> [i \in Ifs |-> Closed(0)]]
    /\ socketsConnected = [p \in TcpProcs |-> 0]
    /\ conns = <<>>
    /\ unread = [p \in TcpProcs |-> {}]
    /\ toSend \in [TcpProcs -> 0..MaxTcpSends]
    /\ received = [p \in TcpProcs |-> 0]
    /\ lostMsgs = 0
    /\ pathFailed = [p \in TcpProcs |-> FALSE]
    /\ tcpFaults = 0

-----------------------------------------------------------------------------
(* Streams.                                                                 *)

Msgs(s) == Len(SelectSeq(s, LAMBDA x : x = "msg"))

\* close(): what is in the stream to p is lost; the other end sees the end of
\* its stream.
CloseEnd(cs, c, p) ==
    [cs EXCEPT ![c].open = @ \ {p}, ![c].to[p] = <<>>]

LostByClose(cs, c, p) == Msgs(cs[c].to[p])

\* send() on a connection; what the peer can not read any more is gone.
Put(cs, c, p, x) ==
    IF Peer(p) \in cs[c].open /\ cs[c].stage = "open"
    THEN [cs EXCEPT ![c].to[Peer(p)] = Append(@, x)]
    ELSE cs

\* recv() returns 0 or an error.
Ended(p, c) ==
    \/ conns[c].stage = "broken"
    \/ conns[c].stage = "open" /\ Peer(p) \notin conns[c].open /\ conns[c].to[p] = <<>>

\* The first item in the stream to p.
Arrived(p, c, x) == conns[c].stage = "open" /\ conns[c].to[p] # <<>> /\ Head(conns[c].to[p]) = x

Take(cs, c, p) == [cs EXCEPT ![c].to[p] = Tail(@)]

-----------------------------------------------------------------------------
(* Connecting.                                                              *)

\* The sockets startConnect tries: closed, and not given up.
Startable(p) == {i \in Ifs : /\ sock[p][i].state = "CLOSED"
                             /\ sock[p][i].retries <= MaxConnectRetries}

GivenUp(p) == \A i \in Ifs : /\ sock[p][i].state = "CLOSED"
                             /\ sock[p][i].retries > MaxConnectRetries

NewConn(p, i) == [from |-> p, if |-> i, stage |-> "syn", open |-> TcpProcs,
                  to |-> [q \in TcpProcs |-> <<>>]]

\* startConnect: each socket it tries is under way (connecting, whether or not
\* connect() returns at once) or has failed and is closed again.  A failing
\* socket() is left out: the call of TCPPeer::send fails then, which is an error
\* of the MPI call in isend_start and the end of the program in
\* push_frags_into_network.
StartConnect(p, failing) ==
    LET started == SetToSeq(Startable(p) \ failing)
        Number(i) == Len(conns) + CHOOSE k \in DOMAIN started : started[k] = i
    IN  /\ Len(conns) + Len(started) <= MaxConns
        /\ tcpFaults' = tcpFaults + Cardinality(failing)
        /\ tcpFaults' <= MaxTcpFaults
        /\ sock' = [sock EXCEPT ![p] = [i \in Ifs |->
              IF i \in failing THEN Closed(@[i].retries + 1)
              ELSE IF i \in Startable(p)
              THEN [@[i] EXCEPT !.state = "CONNECTING", !.conn = Number(i)]
              ELSE @[i]]]

\* The connections that StartConnect has added.
Started(p, failing) ==
    LET started == SetToSeq(Startable(p) \ failing)
    IN  conns \o [k \in DOMAIN started |-> NewConn(p, started[k])]

\* TCPPeer::send, which is called again while the message is incomplete.  It
\* counts the connected sockets; with none it only starts connections, else
\* sendStart writes the message to a connected socket.
TcpSend(p) ==
    LET connecting == socketsConnected[p] < Cardinality(Ifs)
        ready == {i \in Ifs : sock[p][i].state = "CONNECTED"}
    IN  /\ toSend[p] > 0
        /\ IF connecting /\ GivenUp(p)
           THEN /\ pathFailed' = [pathFailed EXCEPT ![p] = TRUE]
                /\ UNCHANGED <<sock, conns, toSend, lostMsgs, tcpFaults>>
           ELSE \E failing \in SUBSET (IF connecting THEN Startable(p) ELSE {}) :
                /\ IF connecting THEN StartConnect(p, failing)
                   ELSE UNCHANGED <<sock, tcpFaults>>
                /\ LET cs == IF connecting THEN Started(p, failing) ELSE conns
                   IN  IF socketsConnected[p] = 0 \/ ready = {}
                       THEN conns' = cs /\ UNCHANGED <<toSend, lostMsgs>>
                       ELSE LET i == CHOOSE i \in ready : \A j \in ready : i <= j
                            IN  /\ conns' = Put(cs, sock[p][i].conn, p, "msg")
                                /\ lostMsgs' = IF conns' = cs THEN lostMsgs + 1 ELSE lostMsgs
                                /\ toSend' = [toSend EXCEPT ![p] = @ - 1]
                /\ UNCHANGED pathFailed
    /\ UNCHANGED <<socketsConnected, unread, received>>

\* The connection is established or refused (external: the network).
Established(c) ==
    /\ conns[c].stage = "syn"
    /\ \/ /\ conns' = [conns EXCEPT ![c].stage = "open"]
          /\ unread' = [unread EXCEPT ![Peer(conns[c].from)] = @ \cup {c}]
          /\ UNCHANGED tcpFaults
       \/ /\ tcpFaults < MaxTcpFaults
          /\ tcpFaults' = tcpFaults + 1
          /\ conns' = [conns EXCEPT ![c].stage = "refused"]
          /\ UNCHANGED unread
    /\ UNCHANGED <<sock, socketsConnected, toSend, received, lostMsgs, pathFailed>>

\* completeConnect: send the own process number and wait for the peer's.  A
\* connection that failed is found out by getsockopt, or only by sendConnectAck,
\* which closes the socket and does not count a retry.
CompleteConnect(p, i) ==
    LET c == sock[p][i].conn
    IN  /\ sock[p][i].state = "CONNECTING"
        /\ \/ /\ conns[c].stage = "open"
              /\ conns' = Put(conns, c, p, "id")
              /\ sock' = [sock EXCEPT ![p][i].state = "CONNECT_ACK"]
           \/ /\ conns[c].stage \in {"refused", "broken"}
              /\ conns' = CloseEnd(conns, c, p)
              /\ sock' = [sock EXCEPT ![p][i] = Closed(@.retries + 1)]
           \/ /\ conns[c].stage = "broken"
              /\ conns' = CloseEnd(conns, c, p)
              /\ sock' = [sock EXCEPT ![p][i] = Closed(@.retries)]
        /\ UNCHANGED <<socketsConnected, unread, toSend, received, lostMsgs,
                       pathFailed, tcpFaults>>

\* Mutant: an incoming connection is not counted.
AdoptUncounted(cs, p, i, c) ==
    /\ conns' = Put(cs, c, p, "id")
    /\ sock' = [sock EXCEPT ![p][i] = [state |-> "CONNECTED", conn |-> c, retries |-> 0]]
    /\ UNCHANGED <<socketsConnected, tcpFaults>>

\* Use an incoming connection: answer with the own number.  sendConnectAck may
\* fail, because the peer has closed the connection or it breaks just now, and
\* then closes the socket.
Adopt(cs, p, i, c) ==
    \/ /\ conns' = Put(cs, c, p, "id")
       /\ sock' = [sock EXCEPT ![p][i] = [state |-> "CONNECTED", conn |-> c, retries |-> 0]]
       /\ socketsConnected' = [socketsConnected EXCEPT ![p] = @ + 1]
       /\ UNCHANGED tcpFaults
    \/ /\ \/ Peer(p) \notin cs[c].open /\ conns' = CloseEnd(cs, c, p) /\ UNCHANGED tcpFaults
          \/ /\ tcpFaults < MaxTcpFaults
             /\ tcpFaults' = tcpFaults + 1
             /\ conns' = [CloseEnd(cs, c, p) EXCEPT ![c].stage = "broken"]
       /\ sock' = [sock EXCEPT ![p][i] = Closed(@.retries)]
       /\ UNCHANGED socketsConnected

\* Mutant: an incoming connection is accepted whoever has the lower number.
AcceptAny(p, i) == sock[p][i].state # "CONNECTED"

\* A socket that is not connected yet gives way to one that the peer started
\* if the peer has the lower number.
GivesWay(p, i) == sock[p][i].state # "CONNECTED" /\ Peer(p) < p

\* TCPPath::recvEventHandler and TCPPeer::acceptConnection.
AcceptConnection(p, c) ==
    LET i == conns[c].if
        cs == Take(conns, c, p)
    IN  /\ c \in unread[p]
        /\ unread' = [unread EXCEPT ![p] = @ \ {c}]
        /\ IF Arrived(p, c, "id")
           THEN IF sock[p][i].conn = NoConn THEN Adopt(cs, p, i, c)
                ELSE IF GivesWay(p, i)
                THEN Adopt(CloseEnd(cs, sock[p][i].conn, p), p, i, c)
                ELSE /\ conns' = CloseEnd(cs, c, p)
                     /\ UNCHANGED <<sock, socketsConnected, tcpFaults>>
           ELSE /\ Ended(p, c)
                /\ conns' = CloseEnd(conns, c, p)
                /\ UNCHANGED <<sock, socketsConnected, tcpFaults>>
        /\ UNCHANGED <<toSend, received, lostMsgs, pathFailed>>

\* recvConnectAck: the peer's number, or the connection was rejected.
RecvConnectAck(p, i) ==
    LET c == sock[p][i].conn
    IN  /\ sock[p][i].state = "CONNECT_ACK"
        /\ \/ /\ Arrived(p, c, "id")
              /\ conns' = Take(conns, c, p)
              /\ sock' = [sock EXCEPT ![p][i].state = "CONNECTED", ![p][i].retries = 0]
              /\ socketsConnected' = [socketsConnected EXCEPT ![p] = @ + 1]
           \/ /\ Ended(p, c)
              /\ conns' = CloseEnd(conns, c, p)
              /\ sock' = [sock EXCEPT ![p][i] = Closed(@.retries)]
              /\ UNCHANGED socketsConnected
        /\ UNCHANGED <<unread, toSend, received, lostMsgs, pathFailed, tcpFaults>>

\* TCPRecvFrag::recvEventHandler: a message is read, or the connection ended
\* and recvFailed closes the socket.
RecvMessage(p, i) ==
    LET c == sock[p][i].conn
    IN  /\ sock[p][i].state = "CONNECTED"
        /\ \/ /\ Arrived(p, c, "msg")
              /\ conns' = Take(conns, c, p)
              /\ received' = [received EXCEPT ![p] = @ + 1]
              /\ UNCHANGED <<sock, socketsConnected, lostMsgs>>
           \/ /\ Ended(p, c)
              /\ conns' = CloseEnd(conns, c, p)
              /\ lostMsgs' = lostMsgs + LostByClose(conns, c, p)
              /\ sock' = [sock EXCEPT ![p][i] = Closed(@.retries)]
              /\ socketsConnected' =   \* decrementSocketCount
                    [socketsConnected EXCEPT ![p] = @ + 1]
              /\ UNCHANGED received
        /\ UNCHANGED <<unread, toSend, pathFailed, tcpFaults>>

\* A connection breaks (external).  Both ends see it when they look next.
Break(c) ==
    /\ conns[c].stage = "open"
    /\ conns[c].open # {}
    /\ tcpFaults < MaxTcpFaults
    /\ tcpFaults' = tcpFaults + 1
    /\ conns' = [conns EXCEPT ![c].stage = "broken", ![c].to = [p \in TcpProcs |-> <<>>]]
    /\ lostMsgs' = lostMsgs + Msgs(conns[c].to[0]) + Msgs(conns[c].to[1])
    /\ UNCHANGED <<sock, socketsConnected, unread, toSend, received, pathFailed>>

\* exceptEventHandler: whatever the state of the socket.
ExceptEvent(p, i) ==
    LET c == sock[p][i].conn
    IN  /\ c # NoConn
        /\ conns[c].stage \in {"refused", "broken"}
        /\ conns' = CloseEnd(conns, c, p)
        /\ sock' = [sock EXCEPT ![p][i] = Closed(@.retries)]
        /\ socketsConnected' =   \* decrementSocketCount
              IF sock[p][i].state = "CONNECTED"
              THEN [socketsConnected EXCEPT ![p] = @ + 1] ELSE socketsConnected
        /\ UNCHANGED <<unread, toSend, received, lostMsgs, pathFailed, tcpFaults>>

ConnStep(p, i) ==
    CompleteConnect(p, i) \/ RecvConnectAck(p, i) \/ RecvMessage(p, i) \/ ExceptEvent(p, i)

TcpProgress(p) ==
    \/ TcpSend(p)
    \/ \E c \in Conns : AcceptConnection(p, c)
    \/ \E i \in Ifs : ConnStep(p, i)

TcpNext ==
    \/ \E p \in TcpProcs : TcpProgress(p)
    \/ \E c \in Conns : Established(c) \/ Break(c)

-----------------------------------------------------------------------------
\* Without network faults every message written is received: when both sides
\* connect at once, the rule of the lower number makes them settle on the same
\* connection, and no side writes to one the other is about to close.
NoMessageLost == tcpFaults = 0 =>
    /\ lostMsgs = 0
    /\ \A p \in TcpProcs, c \in Conns : p \notin conns[c].open => Msgs(conns[c].to[p]) = 0
    /\ \A i \in Ifs : (\A p \in TcpProcs : sock[p][i].state = "CONNECTED")
        => sock[0][i].conn = sock[1][i].conn

\* A process that has something to send gets connected and sends it, without
\* network faults.
TcpDelivers ==
    \A p \in TcpProcs : (toSend[p] > 0) ~> (toSend[p] = 0 \/ tcpFaults > 0)
=============================================================================
