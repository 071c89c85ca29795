------------------------------ MODULE TcpRelay ------------------------------
(***************************************************************************)
(* One relayed connection: tcp_forward() and its two forwarder_loop()      *)
(* tasks (lib/proxy_server.py), between the client's stream and the        *)
(* upstream's.  Bytes are numbered in the order their source sent them, so *)
(* a buffer is the sequence of the numbers it holds.                       *)
(*                                                                         *)
(* What asyncio's streams do is part of the model: a StreamReader buffers  *)
(* up to a limit and keeps what came before an end of file; a transport    *)
(* keeps what its peer has not taken, sends FIN after it, and forgets it   *)
(* when the connection is lost.                                            *)
(***************************************************************************)
EXTENDS Naturals, Sequences

CONSTANTS
    RelayBytes,    \* bound on the bytes a direction's source sends
    ReaderLimit,   \* bytes a StreamReader holds before it stops reading
    HighWater,     \* bytes a transport holds before drain() waits
    ReadMax,       \* 65536, the most one read() returns
    RelayFaults    \* whether connections break and the handler is cancelled

ASSUME RelayAssumption ==
    /\ RelayBytes \in [{"inbound", "outbound"} -> Nat]
    /\ ReaderLimit \in Nat \ {0} /\ ReadMax \in Nat \ {0} /\ HighWater \in Nat
    /\ RelayFaults \in BOOLEAN

VARIABLES
    sent,          \* bytes a direction's source has sent
    sourceEof,     \* the source has half-closed
    inBuffer,      \* the StreamReader's buffer
    outBuffer,     \* the buffer of the destination's transport
    taken,         \* what the destination has received
    eof,           \* "none", "written" by write_eof(), "seen" by the destination
    link,          \* an end's transport: "open", "closing", "closed" or "reset"
    forwarder,     \* a direction's task
    relay,         \* tcp_forward(): "waiting", "closing_server",
                   \* "closing_client" or "returned"
    relayFailure   \* it ends by an exception or a cancellation

peerVars == <<sent, sourceEof, taken>>
taskVars == <<relay, relayFailure>>
relayVars == <<peerVars, inBuffer, outBuffer, eof, link, forwarder, taskVars>>

Ends == {"client", "server"}
Directions == {"inbound", "outbound"}
Source(d) == IF d = "inbound" THEN "server" ELSE "client"
Dest(d) == IF d = "inbound" THEN "client" ELSE "server"
Toward(e) == CHOOSE d \in Directions : Dest(d) = e

Ended(d) == forwarder[d] \in {"done", "failed", "cancelled"}
Lost(e) == link[e] \in {"closed", "reset"}

RelayInit ==
    /\ sent = [d \in Directions |-> 0]
    /\ sourceEof = [d \in Directions |-> FALSE]
    /\ inBuffer = [d \in Directions |-> << >>]
    /\ outBuffer = [d \in Directions |-> << >>]
    /\ taken = [d \in Directions |-> << >>]
    /\ eof = [d \in Directions |-> "none"]
    /\ link = [e \in Ends |-> "open"]
    /\ forwarder = [d \in Directions |-> "reading"]
    /\ relay = "waiting"
    /\ relayFailure = FALSE

-----------------------------------------------------------------------------
(* The two peers and the transports. *)

Arrive(d) ==
    /\ link[Source(d)] = "open" /\ ~sourceEof[d]
    /\ sent[d] < RelayBytes[d]
    /\ Len(inBuffer[d]) < ReaderLimit
    /\ sent' = [sent EXCEPT ![d] = @ + 1]
    /\ inBuffer' = [inBuffer EXCEPT ![d] = Append(@, sent[d] + 1)]
    /\ UNCHANGED <<sourceEof, taken, outBuffer, eof, link, forwarder, taskVars>>

HalfClose(d) ==
    /\ link[Source(d)] = "open" /\ ~sourceEof[d]
    /\ sourceEof' = [sourceEof EXCEPT ![d] = TRUE]
    /\ UNCHANGED <<sent, taken, inBuffer, outBuffer, eof, link, forwarder, taskVars>>

Take(d) ==
    /\ link[Dest(d)] \in {"open", "closing"}
    /\ outBuffer[d] # << >>
    /\ taken' = [taken EXCEPT ![d] = Append(@, Head(outBuffer[d]))]
    /\ outBuffer' = [outBuffer EXCEPT ![d] = Tail(@)]
    /\ UNCHANGED <<sent, sourceEof, inBuffer, eof, link, forwarder, taskVars>>

\* FIN follows the last byte, after write_eof() as after close().
SeeEof(d) ==
    /\ outBuffer[d] = << >>
    /\ \/ link[Dest(d)] = "open" /\ eof[d] = "written" /\ UNCHANGED link
       \/ link[Dest(d)] = "closing" /\ link' = [link EXCEPT ![Dest(d)] = "closed"]
    /\ eof' = [eof EXCEPT ![d] = "seen"]
    /\ UNCHANGED <<peerVars, inBuffer, outBuffer, forwarder, taskVars>>

\* A connection breaks: what waits to be sent to that end is gone.
Break(e) ==
    /\ RelayFaults
    /\ link[e] \in {"open", "closing"}
    /\ link' = [link EXCEPT ![e] = "reset"]
    /\ outBuffer' = [outBuffer EXCEPT ![Toward(e)] = << >>]
    /\ UNCHANGED <<peerVars, inBuffer, eof, forwarder, taskVars>>

-----------------------------------------------------------------------------
(* forwarder_loop().  A reader whose connection was reset raises, unless   *)
(* its read() was already answered with data.                              *)

\* What one read() returns.
Chunk(d) == SubSeq(inBuffer[d], 1, IF Len(inBuffer[d]) < ReadMax
                                   THEN Len(inBuffer[d]) ELSE ReadMax)

\* What read() leaves in the buffer.
Unread(d) == SubSeq(inBuffer[d], Len(Chunk(d)) + 1, Len(inBuffer[d]))

\* A lost or closing transport ignores what is written to it.
ForwardData(d) ==
    /\ forwarder[d] = "reading"
    /\ inBuffer[d] # << >>
    /\ outBuffer' = IF link[Dest(d)] = "open"
                    THEN [outBuffer EXCEPT ![d] = @ \o Chunk(d)] ELSE outBuffer
    /\ inBuffer' = [inBuffer EXCEPT ![d] = Unread(d)]
    /\ forwarder' = [forwarder EXCEPT ![d] = "draining"]
    /\ UNCHANGED <<peerVars, eof, link, taskVars>>

\* Faulty variant: the writer is closed with its direction, which ends the
\* other one too.
ForwardEof_ClosesWriter(d) ==
    /\ forwarder[d] = "reading"
    /\ inBuffer[d] = << >> /\ sourceEof[d] /\ link[Source(d)] = "open"
    /\ link' = [link EXCEPT ![Dest(d)] = IF @ = "open" THEN "closing" ELSE @]
    /\ forwarder' = [forwarder EXCEPT ![d] = "done"]
    /\ UNCHANGED <<peerVars, inBuffer, outBuffer, eof, taskVars>>

ForwardEof(d) ==
    /\ forwarder[d] = "reading"
    /\ inBuffer[d] = << >> /\ sourceEof[d] /\ link[Source(d)] = "open"
    /\ eof' = IF link[Dest(d)] = "open"
              THEN [eof EXCEPT ![d] = "written"] ELSE eof
    /\ forwarder' = [forwarder EXCEPT ![d] = "finishing"]
    /\ UNCHANGED <<peerVars, inBuffer, outBuffer, link, taskVars>>

ReadFails(d) ==
    /\ forwarder[d] = "reading"
    /\ link[Source(d)] = "reset"
    /\ forwarder' = [forwarder EXCEPT ![d] = "failed"]
    /\ UNCHANGED <<peerVars, inBuffer, outBuffer, eof, link, taskVars>>

\* drain() has nothing to wait for.
Drained(d) == Len(outBuffer[d]) <= HighWater

\* After a chunk a lost connection raises; after write_eof() it does not.
Drain(d) ==
    /\ \/ /\ forwarder[d] = "draining"
          /\ link[Dest(d)] = "reset"
          /\ forwarder' = [forwarder EXCEPT ![d] = "failed"]
       \/ /\ forwarder[d] = "draining"
          /\ link[Dest(d)] # "reset" /\ Drained(d)
          /\ forwarder' = [forwarder EXCEPT ![d] = "reading"]
       \/ /\ forwarder[d] = "finishing"
          /\ link[Dest(d)] = "reset" \/ Drained(d)
          /\ forwarder' = [forwarder EXCEPT ![d] = "done"]
    /\ UNCHANGED <<peerVars, inBuffer, outBuffer, eof, link, taskVars>>

-----------------------------------------------------------------------------
(* tcp_forward(). *)

Closing(e) == [link EXCEPT ![e] = IF @ = "open" THEN "closing" ELSE @]

\* Faulty variant: FIRST_COMPLETED.
RelayOver_FirstCompleted == \E d \in Directions : Ended(d)

\* asyncio.wait(FIRST_EXCEPTION) is over.
RelayOver ==
    \/ \E d \in Directions : forwarder[d] = "failed"
    \/ \A d \in Directions : Ended(d)

\* The tasks still running are cancelled and awaited, and the finally block
\* begins with the upstream's writer.
LeaveWait(failure) ==
    /\ relay = "waiting"
    /\ relay' = "closing_server"
    /\ relayFailure' = failure
    /\ forwarder' = [d \in Directions |-> IF Ended(d) THEN forwarder[d] ELSE "cancelled"]
    /\ link' = Closing("server")
    /\ UNCHANGED <<peerVars, inBuffer, outBuffer, eof>>

RelayEnds ==
    /\ RelayOver
    /\ LeaveWait(\E d \in Directions : forwarder[d] = "failed")

\* wait_closed() has returned or raised.
WriterClosed ==
    /\ \/ /\ relay = "closing_server" /\ Lost("server")
          /\ relay' = "closing_client" /\ link' = Closing("client")
       \/ /\ relay = "closing_client" /\ Lost("client")
          /\ relay' = "returned" /\ UNCHANGED link
    /\ UNCHANGED <<peerVars, inBuffer, outBuffer, eof, forwarder, relayFailure>>

\* The handler is cancelled: in a wait_closed() the exception is swallowed.
CancelRelay ==
    /\ RelayFaults
    /\ \/ LeaveWait(TRUE)
       \/ /\ relay = "closing_server"
          /\ relay' = "closing_client" /\ link' = Closing("client")
          /\ UNCHANGED <<peerVars, inBuffer, outBuffer, eof, forwarder, relayFailure>>
       \/ /\ relay = "closing_client"
          /\ relay' = "returned"
          /\ UNCHANGED <<peerVars, inBuffer, outBuffer, eof, link, forwarder, relayFailure>>

Forward(d) == ForwardData(d) \/ ForwardEof(d) \/ ReadFails(d) \/ Drain(d)

RelayNext ==
    \/ \E d \in Directions :
          Arrive(d) \/ HalfClose(d) \/ Take(d) \/ SeeEof(d) \/ Forward(d)
    \/ \E e \in Ends : Break(e)
    \/ RelayEnds \/ WriterClosed \/ CancelRelay

RelaySpec == RelayInit /\ [][RelayNext]_relayVars

\* The event loop runs every task that can go on, and peers go on reading.
\* Bytes are finitely many, so no part of this can be put off for ever.
RelayProgress ==
    \/ \E d \in Directions : Forward(d) \/ Take(d) \/ SeeEof(d)
    \/ RelayEnds \/ WriterClosed

RelayFairSpec == RelaySpec /\ WF_relayVars(RelayProgress)

-----------------------------------------------------------------------------
(* Properties. *)

RelayTypeOK ==
    /\ sent \in [Directions -> Nat]
    /\ sourceEof \in [Directions -> BOOLEAN]
    /\ inBuffer \in [Directions -> Seq(Nat)]
    /\ outBuffer \in [Directions -> Seq(Nat)]
    /\ taken \in [Directions -> Seq(Nat)]
    /\ eof \in [Directions -> {"none", "written", "seen"}]
    /\ link \in [Ends -> {"open", "closing", "closed", "reset"}]
    /\ forwarder \in [Directions -> {"reading", "draining", "finishing",
                                     "done", "failed", "cancelled"}]
    /\ relay \in {"waiting", "closing_server", "closing_client", "returned"}
    /\ relayFailure \in BOOLEAN

\* A relay is a pipe in each direction, torn only when tcp_forward() fails or
\* is cancelled: no byte is lost, doubled or overtaken, and the end of one
\* direction is seen after its last byte, whatever the other direction does.
Pipe == INSTANCE DuplexPipe WITH
    written <- sent, finished <- sourceEof, delivered <- taken,
    ended <- [d \in Directions |-> eof[d] = "seen"], torn <- relayFailure
RelayIsPipe == Pipe!Spec

\* drain() after every chunk bounds what a peer that does not read costs:
\* never more than the high-water mark and one chunk.
RelayBuffersBounded ==
    \A d \in Directions : Len(outBuffer[d]) <= HighWater + ReadMax

\* A pipe that holds no more than it may.
RelayIsBoundedPipe == RelayIsPipe /\ []RelayBuffersBounded

\* Half-close: when its source ends a direction, all it has sent and the end
\* itself arrive, also when the other direction ended long before or never
\* does, unless the relay is torn.
HalfCloseDelivered ==
    \A d \in Directions : sourceEof[d] ~>
        \/ eof[d] = "seen" /\ Len(taken[d]) = sent[d]
        \/ relayFailure \/ link[Dest(d)] = "reset" \/ link[Source(d)] = "reset"

\* A relay one of whose directions failed, or both of which ended, returns.
RelayReturns ==
    (\E d \in Directions : forwarder[d] = "failed")
        \/ (\A d \in Directions : sourceEof[d]) ~> relay = "returned"
=============================================================================
