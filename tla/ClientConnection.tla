-------------------------- MODULE ClientConnection --------------------------
(***************************************************************************)
(* A client's connection from its handler's first read to its end: the     *)
(* HTTP or the SOCKS5 handler, which hands the connection over to          *)
(* tcp_forward() (TcpRelay) or opens a UDP association (UdpForwarder).     *)
(* A handler and what it has started run in one task: the handler goes on  *)
(* when tcp_forward() has returned, and answers in the step in which the   *)
(* association's last endpoint is created, or fails to be.                 *)
(***************************************************************************)
EXTENDS HttpHandler, Socks5Handler, TcpRelay, UdpForwarder

VARIABLE service    \* the server the client has connected to

connectionVars == <<service, httpVars, socksVars, relayVars, vars>>

ConnectionInit ==
    /\ service \in {"http", "socks"}
    /\ HttpInit /\ SocksInit /\ RelayInit /\ Init

OfHttp(A) == service = "http" /\ A /\ UNCHANGED <<service, socksVars, vars>>
OfSocks(A) == service = "socks" /\ A /\ UNCHANGED <<service, httpVars>>

\* The handler has called tcp_forward(); transports outlive it.
Relayed ==
    \/ answered = <<"200">>
    \/ command = 1 /\ replies = <<"method 0", "SUCCEEDED">>

OnRelay(A) == Relayed /\ A /\ UNCHANGED <<service, httpVars, socksVars, vars>>
OnUdp(A) ==
    /\ socksPc \in {"creating", "associated", "closing", "closed"} /\ command = 3
    /\ OfSocks(A /\ UNCHANGED <<socksVars, relayVars>>)

HttpAlone ==
    OfHttp(HttpNext /\ (httpPc = "tunnel" => relay = "returned") /\ UNCHANGED relayVars)

\* The handshake, and the ends of what the handler waits for.
SocksAlone ==
    OfSocks(/\ UNCHANGED <<relayVars, vars>>
            /\ \/ SocksRead \/ ConnectTo \/ CloseClient
               \/ RelayOfClientEnds /\ relay = "returned")

UdpStarting ==
    OfSocks(/\ UNCHANGED relayVars
            /\ \/ socksPc = "creating" /\ Created
                  /\ IF pc' = "serving" THEN UdpStarted ELSE UNCHANGED socksVars
               \/ CreateFails /\ UdpStartFails
               \/ AssociationEnds /\ ControlEnds)

UdpServing ==
    OnUdp(\/ LoopStep \/ ResolutionEnds \/ Tick
          \/ \E s \in Senders : ClientDatagram(s)
          \/ \E p \in Peers : PeerDatagram(p))

ConnectionNext ==
    \/ HttpAlone \/ SocksAlone \/ UdpStarting \/ UdpServing
    \/ OnRelay(RelayNext)

ConnectionSpec == ConnectionInit /\ [][ConnectionNext]_connectionVars

\* What the components' own fair specifications assume of their steps.  Each
\* of the three kinds takes finitely many steps, so that it is enough that one
\* of the kind is taken as long as there is one.
ConnectionFairSpec ==
    /\ ConnectionSpec
    /\ WF_connectionVars(OfHttp(HttpRead /\ UNCHANGED relayVars))
    /\ WF_connectionVars(OnRelay(RelayProgress))
    /\ WF_connectionVars(OnUdp(\E e \in Endpoints : ConnectionLost(e)))

-----------------------------------------------------------------------------
(* Properties. *)

\* Whatever a connection has become, it does not stay for ever: the head of a
\* request ends; a relay delivers what it has, with the end, and returns; and
\* all of a UDP association goes with it.
ConnectionsFinish ==
    HttpHeadEnds /\ HalfCloseDelivered /\ RelayReturns /\ AssociationReleased
=============================================================================
