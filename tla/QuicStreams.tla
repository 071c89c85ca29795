---------------------------- MODULE QuicStreams ----------------------------
(***************************************************************************)
(* dns.quic: queries that share one connection, each on a stream of its    *)
(* own, and the connection's worker, which hands them what comes.  The     *)
(* three backends differ in what may happen between two of their steps and *)
(* in what becomes of a timeout.  An octet is a number; the connection     *)
(* itself, which loses and repeats nothing, is external.                   *)
(***************************************************************************)
EXTENDS Naturals, FiniteSets

CONSTANTS
    QuicQueries,    \* the queries that share the connection
    ThreadQueries,  \* those of them that are made when each has a thread
    AnswerSize,     \* octets of an answer, without its length
    QuicTimeout     \* whether quic() is given a timeout

ASSUME QuicAssumption ==
    /\ AnswerSize \in Nat \ {0} /\ QuicTimeout \in BOOLEAN
    /\ IsFiniteSet(QuicQueries) /\ ThreadQueries \subseteq QuicQueries

LengthSize == 2
WholeSize == LengthSize + AnswerSize

VARIABLES
    quicBackend,    \* "sync", "asyncio" or "trio"
    handshaken,     \* _handshake_complete
    worker,         \* "idle", "working", "over", or "failed" by an exception
    streams,        \* _streams
    stream,         \* per query, where its receive() is
    buffer,         \* per query, its stream's Buffer
    put,            \* per query, where the worker is with what came for it
    given,          \* per query, the octets that came, and whether the end did
                    \* (not in the code)
    torn            \* per query, whether the worker and receive() have met in the
                    \* buffer, which no lock keeps them from (not in the code)

quicVars == <<quicBackend, handshaken, worker, streams, stream, buffer, put, given, torn>>

NoStream == [at |-> "idle", reading |-> "length", held |-> 0, expecting |-> 0, notified |-> FALSE, result |-> "none"]
NoPut == [step |-> "none", held |-> 0, octets |-> 0, end |-> FALSE]

QuicInit ==
    /\ quicBackend = "sync" /\ handshaken = FALSE /\ worker = "idle"
    /\ streams = {}
    /\ stream = [q \in QuicQueries |-> NoStream]
    /\ buffer = [q \in QuicQueries |-> [octets |-> 0, seenEnd |-> FALSE]]
    /\ put = [q \in QuicQueries |-> NoPut]
    /\ given = [q \in QuicQueries |-> [octets |-> 0, end |-> FALSE]]
    /\ torn = [q \in QuicQueries |-> FALSE]

\* connect() and run(): the worker begins.
QuicConnect ==
    /\ worker = "idle" /\ worker' = "working"
    /\ quicBackend' \in {"sync", "asyncio", "trio"}
    /\ UNCHANGED <<handshaken, streams, stream, buffer, put, given, torn>>

-----------------------------------------------------------------------------
(* Threads take each of their steps at any time: the lock of the stream is  *)
(* taken by receive() alone.  A task goes on until it awaits something.     *)

InThreads == quicBackend = "sync"

\* Only asyncio notifies without a pause.
Runs(q) == quicBackend = "asyncio" => \A r \in QuicQueries : put[r].step # "notifying"

Have(octets, seenEnd, amount) ==
    IF octets >= amount THEN "yes" ELSE IF seenEnd THEN "UnexpectedEOF" ELSE "no"

-----------------------------------------------------------------------------
(* The worker. *)

Working == worker = "working" /\ \A q \in QuicQueries : put[q].step = "none"

HandshakeCompletes ==
    /\ Working /\ ~handshaken /\ handshaken' = TRUE
    /\ UNCHANGED <<quicBackend, worker, streams, stream, buffer, put, given, torn>>

\* ConnectionTerminated or StreamReset, of whichever stream; close(), which
\* waits for the worker; or an error, which only makes a difference with trio.
ConnectionEnds ==
    /\ Working /\ worker' \in {"over"} \cup IF quicBackend = "trio" THEN {"failed"} ELSE {}
    /\ UNCHANGED <<quicBackend, handshaken, streams, stream, buffer, put, given, torn>>

\* The rest of _common_add_input(), when the buffer is as put() leaves it: an end
\* that comes short of what is waited for is raised here, and ends the worker.
AddedTo(q, octets, seenEnd) ==
    LET expecting == stream[q].expecting
        have == IF expecting > 0 THEN Have(octets, seenEnd, expecting) ELSE "no"
    IN  /\ buffer' = [buffer EXCEPT ![q] = [octets |-> octets, seenEnd |-> seenEnd]]
        /\ worker' = IF have = "UnexpectedEOF" THEN "failed" ELSE worker
        /\ put' = [put EXCEPT ![q] = IF have = "yes" THEN [NoPut EXCEPT !.step = "notifying"] ELSE NoPut]

\* StreamDataReceived, for a stream that is there or is not there any more; put()
\* does nothing once it has seen the end, and a thread's has read the buffer here.
DataReceived(q) ==
    /\ Working /\ stream[q].at # "idle" /\ ~given[q].end
    /\ \E n \in 0..WholeSize - given[q].octets, end \in BOOLEAN :
         LET held == buffer[q].octets  seen == buffer[q].seenEnd
         IN  /\ n > 0 \/ end
             /\ given' = [given EXCEPT ![q] = [octets |-> @.octets + n, end |-> end]]
             /\ IF q \notin streams THEN UNCHANGED <<buffer, put, worker>>
                ELSE IF ~InThreads THEN AddedTo(q, IF seen THEN held ELSE held + n, seen \/ end)
                ELSE /\ put' = [put EXCEPT ![q] =
                                  IF seen THEN [NoPut EXCEPT !.step = "stored"]
                                  ELSE [step |-> "storing", held |-> held, octets |-> n, end |-> end]]
                     /\ UNCHANGED <<buffer, worker>>
    /\ UNCHANGED <<quicBackend, handshaken, streams, stream, torn>>

\* A thread's put() stores what it read, and more: what was taken meanwhile is back.
PutStores(q) ==
    /\ put[q].step = "storing"
    /\ buffer' = [buffer EXCEPT ![q].octets = put[q].held + put[q].octets]
    /\ torn' = [torn EXCEPT ![q] = @ \/ buffer[q].octets # put[q].held]
    /\ put' = [put EXCEPT ![q] = [NoPut EXCEPT !.step = "stored", !.end = put[q].end]]
    /\ UNCHANGED <<quicBackend, handshaken, worker, streams, stream, given>>

InputAdded(q) ==
    /\ put[q].step = "stored"
    /\ AddedTo(q, buffer[q].octets, buffer[q].seenEnd \/ put[q].end)
    /\ UNCHANGED <<quicBackend, handshaken, streams, stream, given, torn>>

\* Whoever waits is notified, if he waits already.
NotifyReader(q) ==
    /\ put[q].step = "notifying"
    /\ stream' = [stream EXCEPT ![q].notified = @ \/ stream[q].at = "waiting"]
    /\ put' = [put EXCEPT ![q] = NoPut]
    /\ UNCHANGED <<quicBackend, handshaken, worker, streams, buffer, given, torn>>

WorkerProgress(q) == PutStores(q) \/ InputAdded(q) \/ NotifyReader(q)

-----------------------------------------------------------------------------
(* quic(): make_stream(), send(), receive(), and the end of the stream. *)

MakeStream(q) ==
    /\ Runs(q) /\ handshaken /\ stream[q].at = "idle"
    /\ InThreads => q \in ThreadQueries
    /\ streams' = streams \cup {q}
    /\ stream' = [stream EXCEPT ![q].at = "checking"]
    /\ UNCHANGED <<quicBackend, handshaken, worker, buffer, put, given, torn>>

Amount(s) == IF s.reading = "length" THEN LengthSize ELSE AnswerSize

\* have() says no, or raises; or get() stores what it leaves.
TooLittle(q) ==
    /\ stream' = IF buffer[q].seenEnd
                 THEN [stream EXCEPT ![q].at = "received", ![q].result = "UnexpectedEOF"]
                 ELSE [stream EXCEPT ![q].at = "falling_asleep", ![q].expecting = Amount(stream[q])]
    /\ UNCHANGED buffer
Takes(q, held) ==
    /\ buffer' = [buffer EXCEPT ![q].octets = held - Amount(stream[q])]
    /\ stream' = IF stream[q].reading = "length"
                 THEN [stream EXCEPT ![q].at = "checking", ![q].reading = "answer", ![q].held = 0]
                 ELSE [stream EXCEPT ![q].at = "received", ![q].result = "answer", ![q].held = 0]

\* wait_for() looks into the buffer: a thread compares the octets first.
CheckBuffer(q) ==
    /\ Runs(q) /\ stream[q].at = "checking"
    /\ LET enough == buffer[q].octets >= Amount(stream[q])
       IN  IF InThreads
           THEN /\ stream' = [stream EXCEPT ![q].at = IF enough THEN "found" ELSE "short"]
                /\ UNCHANGED buffer
           ELSE IF enough THEN Takes(q, buffer[q].octets) ELSE TooLittle(q)
    /\ UNCHANGED <<quicBackend, handshaken, worker, streams, put, given, torn>>

\* Then it looks for the end, which may have come just now, with the rest.
CheckEnd(q) ==
    /\ stream[q].at = "short" /\ TooLittle(q)
    /\ torn' = [torn EXCEPT ![q] = @ \/ (buffer[q].seenEnd /\ buffer[q].octets >= Amount(stream[q]))]
    /\ UNCHANGED <<quicBackend, handshaken, worker, streams, put, given>>

\* A thread's get() reads the buffer, and stores what it leaves: what has come in
\* between is lost.
ReadBuffer(q) ==
    /\ stream[q].at = "found"
    /\ stream' = [stream EXCEPT ![q].at = "taking", ![q].held = buffer[q].octets]
    /\ UNCHANGED <<quicBackend, handshaken, worker, streams, buffer, put, given, torn>>

TakeFromBuffer(q) ==
    /\ stream[q].at = "taking" /\ Takes(q, stream[q].held)
    /\ torn' = [torn EXCEPT ![q] = @ \/ buffer[q].octets # stream[q].held]
    /\ UNCHANGED <<quicBackend, handshaken, worker, streams, put, given>>

\* What comes before this step notifies nobody.
FallAsleep(q) ==
    /\ Runs(q) /\ stream[q].at = "falling_asleep"
    /\ stream' = [stream EXCEPT ![q].at = "waiting"]
    /\ UNCHANGED <<quicBackend, handshaken, worker, streams, buffer, put, given, torn>>

Awake(s) == [s EXCEPT !.expecting = 0, !.notified = FALSE, !.at = "checking"]

WokenUp(q) ==
    /\ Runs(q) /\ stream[q].at = "waiting" /\ stream[q].notified
    /\ stream' = [stream EXCEPT ![q] = Awake(@)]
    /\ UNCHANGED <<quicBackend, handshaken, worker, streams, buffer, put, given, torn>>

\* Faulty variant: the buffer is not looked at again.
TimedOut_NoCheck(s) ==
    IF quicBackend = "trio" THEN [s EXCEPT !.at = "received", !.result = "nothing"]
    ELSE [s EXCEPT !.notified = FALSE, !.at = "falling_asleep"]

\* Trio leaves receive(), with nothing; the others look, and wait as long again.
TimedOut(s) ==
    IF quicBackend = "trio" THEN [s EXCEPT !.at = "received", !.result = "nothing"] ELSE Awake(s)

WaitEnds(q) ==
    /\ Runs(q) /\ QuicTimeout /\ stream[q].at = "waiting"
    /\ stream' = [stream EXCEPT ![q] = TimedOut(@)]
    /\ UNCHANGED <<quicBackend, handshaken, worker, streams, buffer, put, given, torn>>

\* With trio, what a worker raises leaves run() and the nursery of the manager: the
\* queries in that nursery are cancelled where they next await something, others not.
NurseryCancels(q) ==
    /\ Runs(q) /\ quicBackend = "trio" /\ worker = "failed"
    /\ stream[q].at \in {"falling_asleep", "waiting"}
    /\ stream' = [stream EXCEPT ![q].at = "received", ![q].result = "cancelled"]
    /\ UNCHANGED <<quicBackend, handshaken, worker, streams, buffer, put, given, torn>>

\* Leaving the stream's context: close_stream() and the end for the buffer.  Of
\* receive(), its result is left.
CloseStream(q) ==
    /\ Runs(q) /\ stream[q].at = "received"
    /\ streams' = streams \ {q}
    /\ stream' = [stream EXCEPT ![q] = [NoStream EXCEPT !.at = "over", !.result = stream[q].result]]
    /\ buffer' = [buffer EXCEPT ![q].seenEnd = TRUE]
    /\ UNCHANGED <<quicBackend, handshaken, worker, put, given, torn>>

ReceiveProgress(q) ==
    \/ CheckBuffer(q) \/ CheckEnd(q) \/ FallAsleep(q) \/ WokenUp(q) \/ WaitEnds(q)
    \/ ReadBuffer(q) \/ TakeFromBuffer(q) \/ CloseStream(q)
QuicNext ==
    \/ QuicConnect \/ HandshakeCompletes \/ ConnectionEnds
    \/ \E q \in QuicQueries : \/ DataReceived(q) \/ MakeStream(q) \/ NurseryCancels(q)
                              \/ WorkerProgress(q) \/ ReceiveProgress(q)
QuicSpec ==
    /\ QuicInit /\ [][QuicNext]_quicVars
    /\ WF_quicVars(\E q \in QuicQueries : WorkerProgress(q))
    /\ \A q \in QuicQueries : WF_quicVars(ReceiveProgress(q))

-----------------------------------------------------------------------------
(* Properties. *)

OctetsTaken(s) == IF s.result = "answer" THEN WholeSize ELSE IF s.reading = "answer" THEN LengthSize ELSE 0
Unstored(p) == IF p.step = "storing" THEN p.octets ELSE 0

\* An answer is received where all of it came over the query's own stream, and its
\* end is called unexpected only where it came short, whatever the backend; but for
\* the stream of a thread, where the worker's put() meets have() or get().  And the
\* worker never meets a stream that nobody will close.
QuicAnswerWhole == \A q \in QuicQueries :
    LET s == stream[q]
    IN  /\ torn[q] => quicBackend = "sync"
        /\ q \in streams <=> s.at \notin {"idle", "over"}
        /\ ~torn[q] =>
             /\ s.result = "answer" => given[q].octets = WholeSize
             /\ s.result = "UnexpectedEOF" => given[q].end /\ given[q].octets < WholeSize
             /\ q \in streams => buffer[q].octets + OctetsTaken(s) + Unstored(put[q]) = given[q].octets

\* An answer that has come is received, though the stream may miss being woken
\* up and the worker may have come to its end: where there is a timeout, it
\* makes the stream look again.  Trio gives up at the timeout, or with the worker.
QuicAnswerTaken == \A q \in QuicQueries :
    (q \in streams /\ given[q].octets = WholeSize) ~>
        (\/ stream[q].result = "answer" \/ torn[q]
         \/ quicBackend = "trio" /\ stream[q].result \in {"nothing", "cancelled"})

\* Each query gets its whole answer, and gets it.
QuicAnswersTaken == []QuicAnswerWhole /\ QuicAnswerTaken

\* quic() ends, if it has a timeout: as its documentation has it.
QuicTimesOut == \A q \in QuicQueries : stream[q].at = "checking" ~> stream[q].at = "over"
=============================================================================
