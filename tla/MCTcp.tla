------------------------------- MODULE MCTcp -------------------------------
(***************************************************************************)
(* The TCP path for TLC.  TcpPeer and TcpLink share no state (TcpLink      *)
(* takes the connections as given), so a behaviour is one of the first or  *)
(* of the second.                                                          *)
(***************************************************************************)
EXTENDS TcpPeer, TcpLink

\* A long message and a short one.
MCNumFrags == <<2, 1>>

VARIABLE part

tcpVars == <<part, connVars, linkVars>>

TcpPathInit == part \in {"peer", "link"} /\ TcpInit /\ LinkInit
               /\ (part = "link" => toSend = [p \in TcpProcs |-> 0])

PeerStep == part = "peer" /\ TcpNext /\ UNCHANGED <<part, linkVars>>
LinkStep == part = "link" /\ LinkNext /\ UNCHANGED <<part, connVars>>
TcpPathNext == PeerStep \/ LinkStep

PeerDoes(A) == part = "peer" /\ A /\ UNCHANGED <<part, linkVars>>

\* The Reactor reports a ready socket again until it is handled, an incomplete
\* message is pushed again, and a connection attempt ends.
TcpSpec ==
    /\ TcpPathInit
    /\ [][TcpPathNext]_tcpVars
    /\ WF_tcpVars(part = "link" /\ LinkProgress /\ UNCHANGED <<part, connVars>>)
    /\ \A p \in TcpProcs :
        /\ WF_tcpVars(PeerDoes(TcpSend(p)))
        /\ \A c \in 1..MaxConns : WF_tcpVars(PeerDoes(c \in Conns /\ AcceptConnection(p, c)))
        /\ \A i \in Ifs : WF_tcpVars(PeerDoes(ConnStep(p, i)))
    /\ \A c \in 1..MaxConns : WF_tcpVars(PeerDoes(c \in Conns /\ Established(c)))
=============================================================================
