--------------------------- MODULE Socks5Handler ---------------------------
(***************************************************************************)
(* One SOCKS5 client: AsyncSocks5Handler (lib/socks5_server.py), from the  *)
(* greeting to the end of the relay or of the UDP association, which are   *)
(* modules TcpRelay and UdpForwarder.  What a read of the handshake        *)
(* returns is chosen when it returns.                                      *)
(***************************************************************************)
EXTENDS Naturals, Sequences

VARIABLES
    socksPc,      \* what the handler waits for
    command,      \* of the request: 1 CONNECT, 3 UDP ASSOCIATE, or another
    replies       \* what the client has been sent before any relayed byte

socksVars == <<socksPc, command, replies>>

Handshake == {"greeting", "methods", "request", "address"}

SocksInit ==
    /\ socksPc = "greeting"
    /\ command = 0
    /\ replies = << >>

GoTo(where) == socksPc' = where
ReplyWith(status) == replies' = Append(replies, status)

\* Every read of the handshake has handshake_timeout: it fails by the timeout,
\* by the end of the stream, or because what it returns is not SOCKS5 (a wrong
\* version, a name that does not decode).
HandshakeFails ==
    /\ socksPc \in Handshake
    /\ GoTo("closing")
    /\ UNCHANGED <<command, replies>>

ReadGreeting ==
    /\ socksPc = "greeting"
    /\ GoTo("methods")
    /\ UNCHANGED <<command, replies>>

\* Method 0 is the only one there is; 255 refuses.
ReadMethods ==
    /\ socksPc = "methods"
    /\ \/ GoTo("request") /\ ReplyWith("method 0")
       \/ GoTo("closing") /\ ReplyWith("method 255")
    /\ UNCHANGED command

ReadRequest(cmd) ==
    /\ socksPc = "request"
    /\ command' = cmd
    /\ GoTo("address")
    /\ UNCHANGED replies

\* The address and the port, or a type that is none of the three.
ReadAddress ==
    /\ socksPc = "address"
    /\ \/ command = 1 /\ GoTo("connecting") /\ UNCHANGED replies
       \/ command = 3 /\ GoTo("creating") /\ UNCHANGED replies
       \/ command \notin {1, 3} /\ GoTo("closing") /\ ReplyWith("ENOTSUP")
       \/ GoTo("closing") /\ ReplyWith("EAFNOSUPPORT")
    /\ UNCHANGED command

\* Faulty variant: the client is answered before the connection is tried.
ConnectTo_AnsweredFirst ==
    /\ socksPc = "connecting"
    /\ \/ ReplyWith("SUCCEEDED") /\ UNCHANGED socksPc
       \/ GoTo("relaying") /\ UNCHANGED replies
       \/ GoTo("closing") /\ ReplyWith("EHOSTUNREACH")
    /\ Len(replies) < 3
    /\ UNCHANGED command

\* handle_connect()
ConnectTo ==
    /\ socksPc = "connecting"
    /\ \/ GoTo("relaying") /\ ReplyWith("SUCCEEDED")
       \/ GoTo("closing") /\ ReplyWith("EHOSTUNREACH")
    /\ UNCHANGED command

\* tcp_forward() is over.
RelayOfClientEnds ==
    /\ socksPc = "relaying"
    /\ GoTo("closing")
    /\ UNCHANGED <<command, replies>>

\* handle_udp(): start() has returned, or raised.
UdpStarted ==
    /\ socksPc = "creating"
    /\ GoTo("associated") /\ ReplyWith("SUCCEEDED")
    /\ UNCHANGED command

UdpStartFails ==
    /\ socksPc = "creating"
    /\ GoTo("closing") /\ ReplyWith("ERROR")
    /\ UNCHANGED command

\* read() returns nothing or raises: the association ends with its connection.
ControlEnds ==
    /\ socksPc = "associated"
    /\ GoTo("closing")
    /\ UNCHANGED <<command, replies>>

\* The finally block of handle().
CloseClient ==
    /\ socksPc = "closing"
    /\ GoTo("closed")
    /\ UNCHANGED <<command, replies>>

SocksRead ==
    \/ ReadGreeting \/ ReadMethods \/ ReadAddress \/ HandshakeFails
    \/ \E cmd \in 1..3 : ReadRequest(cmd)

SocksNext ==
    \/ SocksRead
    \/ ConnectTo \/ RelayOfClientEnds \/ UdpStarted \/ UdpStartFails
    \/ ControlEnds \/ CloseClient

-----------------------------------------------------------------------------

\* A client is told the method, then the fate of its one command, and that it
\* succeeded exactly when it is being served: no reply is repeated, withdrawn
\* or sent ahead of what it announces.
SocksRepliesTruthful ==
    /\ Len(replies) <= 2
    /\ \A i \in DOMAIN replies :
          (i = 1) <=> (replies[i] \in {"method 0", "method 255"})
    /\ socksPc \in {"relaying", "associated"} => replies = <<"method 0", "SUCCEEDED">>
    /\ socksPc \in {"connecting", "creating"} => replies = <<"method 0">>
=============================================================================
