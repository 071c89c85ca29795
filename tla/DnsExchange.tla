---------------------------- MODULE DnsExchange ----------------------------
(***************************************************************************)
(* One exchange with a name server: udp_with_fallback() and tls() of       *)
(* dns.query, over blocking sockets, and of dns.asyncquery, over asyncio's,*)
(* which keep their time differently.  Datagrams come from anyone; a       *)
(* stream comes in pieces and may end anywhere.  A message is what the     *)
(* reader makes of it.                                                     *)
(***************************************************************************)
EXTENDS Naturals, Sequences

CONSTANTS
    Timeout,           \* timeout of udp() and of tcp()
    BodySize,          \* the length of the message on the stream
    Backlog,           \* bound: datagrams in the socket's buffer
    MaxSent,           \* bound: datagrams sent
    LateReads          \* whether asyncio comes to a read after the expiration

ASSUME ExchangeAssumption ==
    /\ {Timeout, BodySize} \subseteq Nat \ {0}
    /\ {Backlog, MaxSent} \subseteq Nat /\ LateReads \in BOOLEAN

\* An answer; one with the TC bit; a message that is no response to the query;
\* one that cannot be parsed; and, from another address, whatever it is.
Messages == {"answer", "truncated", "no_response", "malformed"}
Datagrams == Messages \cup {"stray"}

VARIABLES
    backend,           \* "sync" or "asyncio"
    ignoreUnexpected,
    secure,            \* the stream is to be one of TLS
    exchange,          \* what is done next, or how it has ended
    now,               \* time since the exchange over this transport began
    waitsFor,          \* "none"; "input", or "input_for_ever" where no timeout applies
    datagrams,         \* what can be received: the buffer, or the result of asyncio's future
    sent,              \* bound
    buffered,          \* bytes of the stream that have come
    streamed,          \* bytes of the stream that are read
    streamEnds,        \* EOF has come
    reply              \* the message that the exchange ended with

exchangeVars == <<backend, ignoreUnexpected, secure, exchange, now, waitsFor, datagrams, sent,
                  buffered, streamed, streamEnds, reply>>

Over == {"idle", "answer", "UnexpectedSource", "BadResponse", "FormError", "EOFError", "SSLError", "Timeout"}

ExchangeInit ==
    /\ backend = "sync" /\ ignoreUnexpected = FALSE /\ secure = FALSE
    /\ exchange = "idle" /\ now = 0 /\ waitsFor = "none"
    /\ datagrams = << >> /\ sent = 0
    /\ buffered = 0 /\ streamed = 0 /\ streamEnds = FALSE
    /\ reply = "none"

\* udp_with_fallback() has sent the query.
Asked ==
    /\ exchange = "idle" /\ exchange' = "receive_udp"
    /\ backend' \in {"sync", "asyncio"} /\ ignoreUnexpected' \in BOOLEAN
    /\ UNCHANGED <<secure, now, waitsFor, datagrams, sent, buffered, streamed, streamEnds, reply>>

\* The tls() of asyncquery puts None in the place of a context that it is given.
Secured(contextGiven, b) == contextGiven => b = "sync"

\* tls() without a socket: everything up to the answer is within one timeout.
AskedTls ==
    /\ exchange = "idle" /\ exchange' = "connect"
    /\ backend' \in {"sync", "asyncio"}
    /\ \E contextGiven \in BOOLEAN : secure' = Secured(contextGiven, backend')
    /\ UNCHANGED <<ignoreUnexpected, now, waitsFor, datagrams, sent, buffered, streamed, streamEnds, reply>>

Expired == now >= Timeout

NothingCame == IF exchange = "receive_udp" THEN datagrams = << >> ELSE buffered = 0 /\ ~streamEnds
Blocked == exchange = "connect" \/ (waitsFor = "input" /\ NothingCame)

-----------------------------------------------------------------------------
(* Time, the network and the two ways to wait. *)

\* Without LateReads, asyncio is not late for what has come.

TimePasses ==
    /\ exchange \notin Over /\ ~Expired
    /\ LateReads \/ backend = "sync" \/ Blocked \/ now + 1 < Timeout
    /\ now' = now + 1
    /\ UNCHANGED <<backend, ignoreUnexpected, secure, exchange, waitsFor, datagrams, sent,
                   buffered, streamed, streamEnds, reply>>

\* Without LateReads nothing that asyncio has to read on after comes in the
\* moment of the expiration.
MayCome == exchange \notin Over /\ (LateReads \/ backend = "sync" \/ ~Expired)

\* _DatagramProtocol.datagram_received(): what no future waits for is dropped.
FutureTakes(d) == waitsFor \in {"input", "input_for_ever"} /\ datagrams = << >> /\ datagrams' = <<d>>

DatagramComes ==
    /\ MayCome /\ exchange = "receive_udp" /\ sent < MaxSent /\ sent' = sent + 1
    /\ \E d \in Datagrams :
         IF backend = "asyncio" THEN FutureTakes(d)
         ELSE Len(datagrams) < Backlog /\ datagrams' = Append(datagrams, d)
    /\ UNCHANGED <<backend, ignoreUnexpected, secure, exchange, now, waitsFor, buffered, streamed, streamEnds, reply>>

\* What may come on the stream: the server's part of the handshake, taken as
\* one byte, and then the length, the body and, it may be, more.
CanCome == IF exchange = "handshake" THEN 1
           ELSE IF exchange = "connect" /\ secure THEN 0 ELSE 3 + BodySize

BytesCome ==
    /\ MayCome /\ exchange \in {"connect", "handshake", "length", "body"} /\ ~streamEnds
    /\ \/ buffered + streamed < CanCome /\ buffered' = buffered + 1 /\ UNCHANGED streamEnds
       \/ streamEnds' = TRUE /\ UNCHANGED buffered
    /\ UNCHANGED <<backend, ignoreUnexpected, secure, exchange, now, waitsFor, datagrams, sent, streamed, reply>>

\* Faulty variant: an expiration that is over is no timeout.
SyncWait_ForEver == waitsFor' = (IF Expired THEN "input_for_ever" ELSE "input") /\ UNCHANGED exchange

\* _wait_for(): an expiration that is over raises at once.
SyncWait == IF Expired THEN exchange' = "Timeout" /\ waitsFor' = "none"
            ELSE waitsFor' = "input" /\ UNCHANGED exchange

\* _maybe_wait_for(): a timeout of 0, which is what _timeout() makes of an
\* expiration that is over, is taken for none at all.
AsyncWait ==
    /\ waitsFor' = IF Expired THEN "input_for_ever" ELSE "input"
    /\ UNCHANGED exchange

Wait == IF backend = "sync" THEN SyncWait ELSE AsyncWait

WaitTimesOut ==
    /\ waitsFor = "input" /\ Expired
    /\ NothingCame
    /\ exchange' = "Timeout" /\ waitsFor' = "none"
    /\ UNCHANGED <<backend, ignoreUnexpected, secure, now, datagrams, sent, buffered, streamed, streamEnds, reply>>

-----------------------------------------------------------------------------
(* udp(), up to the fallback. *)

\* from_wire() and is_response().
Judged(m, overTcp) ==
    CASE m = "malformed" -> "FormError"
      [] m = "truncated" /\ ~overTcp -> "Truncated"
      [] m = "no_response" -> "BadResponse"
      [] OTHER -> "answer"

\* udp_with_fallback(): tcp() is given the same timeout anew.
Fallback == exchange' = "connect" /\ now' = 0 /\ datagrams' = << >> /\ UNCHANGED reply

UdpEnds(m) ==
    IF Judged(m, FALSE) = "Truncated" THEN Fallback
    ELSE /\ exchange' = Judged(m, FALSE) /\ reply' = m
         /\ datagrams' = Tail(datagrams) /\ UNCHANGED now

\* The loop of receive_udp() over datagrams from elsewhere.
ReceiveUdp ==
    /\ exchange = "receive_udp" /\ datagrams # << >>
    /\ LET d == Head(datagrams)
       IN  CASE d = "stray" /\ ignoreUnexpected ->
                  datagrams' = Tail(datagrams) /\ UNCHANGED <<exchange, now, reply>>
             [] d = "stray" /\ ~ignoreUnexpected ->
                  exchange' = "UnexpectedSource" /\ datagrams' = Tail(datagrams) /\ UNCHANGED <<now, reply>>
             [] OTHER -> UdpEnds(d)
    /\ waitsFor' = "none"
    /\ UNCHANGED <<backend, ignoreUnexpected, secure, sent, buffered, streamed, streamEnds>>

AwaitDatagram ==
    /\ exchange = "receive_udp" /\ datagrams = << >> /\ waitsFor = "none"
    /\ Wait
    /\ UNCHANGED <<backend, ignoreUnexpected, secure, now, datagrams, sent, buffered, streamed, streamEnds, reply>>

-----------------------------------------------------------------------------
(* tcp() and tls(). *)

\* open_connection() of asyncio makes the connection and the handshake in one wait.
Connect ==
    /\ exchange = "connect"
    /\ exchange' = IF Expired THEN "Timeout" ELSE IF secure THEN "handshake" ELSE "length"
    /\ waitsFor' = IF exchange' = "handshake" /\ backend = "asyncio" THEN "input" ELSE waitsFor
    /\ UNCHANGED <<backend, ignoreUnexpected, secure, now, datagrams, sent, buffered, streamed, streamEnds, reply>>

Handshake ==
    /\ exchange = "handshake"
    /\ \/ buffered > 0 /\ buffered' = buffered - 1 /\ exchange' = "length"
       \/ buffered = 0 /\ streamEnds /\ exchange' = "SSLError" /\ UNCHANGED buffered
    /\ waitsFor' = "none"
    /\ UNCHANGED <<backend, ignoreUnexpected, secure, now, datagrams, sent, streamed, streamEnds, reply>>

\* What one recv() of the bytes still missing may return.
ReadCount(n) == n <= buffered /\ n <= (IF exchange = "length" THEN 2 ELSE 2 + BodySize) - streamed

\* _net_read() and _read_exactly(), and what receive_tcp() makes of the whole.
ReadStream ==
    /\ exchange \in {"length", "body"}
    /\ \/ /\ buffered > 0
          /\ \E n \in 1..buffered :
               /\ ReadCount(n)
               /\ buffered' = buffered - n /\ streamed' = streamed + n
          /\ IF streamed' >= 2 + BodySize
             THEN \E m \in Messages : reply' = m /\ exchange' = Judged(m, TRUE)
             ELSE exchange' = (IF streamed' >= 2 THEN "body" ELSE "length") /\ UNCHANGED reply
       \/ buffered = 0 /\ streamEnds /\ exchange' = "EOFError" /\ UNCHANGED <<buffered, streamed, reply>>
    /\ waitsFor' = "none"
    /\ UNCHANGED <<backend, ignoreUnexpected, secure, now, datagrams, sent, streamEnds>>

AwaitBytes ==
    /\ exchange \in {"handshake", "length", "body"} /\ buffered = 0 /\ ~streamEnds /\ waitsFor = "none"
    /\ Wait
    /\ UNCHANGED <<backend, ignoreUnexpected, secure, now, datagrams, sent, buffered, streamed, streamEnds, reply>>

ExchangeProgress ==
    \/ TimePasses \/ WaitTimesOut \/ ReceiveUdp \/ AwaitDatagram
    \/ Connect \/ Handshake \/ ReadStream \/ AwaitBytes
ExchangeNext == Asked \/ AskedTls \/ ExchangeProgress \/ DatagramComes \/ BytesCome
ExchangeSpec == ExchangeInit /\ [][ExchangeNext]_exchangeVars /\ WF_exchangeVars(ExchangeProgress)

-----------------------------------------------------------------------------
(* Properties. *)

\* An exchange returns only a response to its query, whole, and not truncated
\* where TCP could have got all of it; nothing of what follows it on a stream
\* is taken; and it gives up for want of time only when the time is over.
ExchangeSound ==
    /\ exchange = "answer" =>
         /\ reply \in {"answer", "truncated"}
         /\ reply = "truncated" \/ streamed > 0 => streamed = 2 + BodySize
    /\ streamed <= 2 + BodySize
    /\ exchange = "Timeout" => Expired

\* However datagrams from elsewhere and pieces of a stream come in, or do not,
\* an exchange ends.
ExchangeEnds == []<>(exchange \in Over)
=============================================================================
