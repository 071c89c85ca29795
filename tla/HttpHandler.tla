---------------------------- MODULE HttpHandler ----------------------------
(***************************************************************************)
(* One HTTP client: AsyncHTTPProxyHandler (lib/http_proxy_server.py), from *)
(* the request line to the end of the response.  A request is a head, of   *)
(* which the model keeps what decides the request's fate, and a body that  *)
(* is read and sent on piece by piece.  What a read returns is chosen when *)
(* it returns; the tunnel of a CONNECT is module TcpRelay.                 *)
(***************************************************************************)
EXTENDS Naturals, Sequences, SequencesExt

CONSTANTS
    RequestHeads,    \* the request heads clients send
    MaxHeadLines,    \* http_max_header_bytes, in lines
    MaxPieces,       \* bound on the pieces of a body and of a response
    MaxChunk,        \* the largest chunk, in pieces
    NoHead, BadValue

\* The fields of a head are sequences; a Content-Length value is a number or not
\* one.
ASSUME HttpAssumption ==
    /\ BadValue \notin Nat /\ BadValue # "chunked"
    /\ MaxHeadLines \in Nat /\ MaxPieces \in Nat /\ MaxChunk \in Nat
    /\ \A h \in RequestHeads :
          /\ h.te \in Seq({h.te[i] : i \in DOMAIN h.te})
          /\ h.cl \in Seq(Nat \cup {BadValue})

VARIABLES
    httpPc,          \* what the handler waits for
    head,            \* the parsed request
    lines,           \* header or trailer lines read
    remaining,       \* of the chunk or of the Content-Length
    forwarded,       \* the pieces the upstream has been sent
    answered,        \* the pieces the client has been sent
    upstream         \* its connection: "none", "open", "lost" or "closed"

streams == <<forwarded, answered, upstream>>
httpVars == <<httpPc, head, lines, remaining, streams>>

HttpInit ==
    /\ httpPc = "request line"
    /\ head = NoHead
    /\ lines = 0 /\ remaining = 0
    /\ forwarded = << >> /\ answered = << >>
    /\ upstream = "none"

-----------------------------------------------------------------------------
(* Framing.  A head has the codings of its Transfer-Encoding fields, the   *)
(* values of its Content-Length fields and the names its Connection fields *)
(* nominate; a list in a field and repeated fields come to the same.       *)

FramingFields == {"content-length", "transfer-encoding"}

ValidCodings(te) ==
    /\ \A i \in DOMAIN te : te[i] # BadValue
    /\ {i \in DOMAIN te : te[i] = "chunked"} = {Len(te)}

ValidLengths(cl) == \A i \in DOMAIN cl : cl[i] # BadValue /\ cl[i] = cl[1]

\* _validated_framing(); "invalid" is its ValueError.
Framing(h) ==
    IF \/ h.nominated \cap FramingFields # {}
       \/ h.te # << >> /\ h.cl # << >>
       \/ h.te # << >> /\ ~ValidCodings(h.te)
       \/ h.cl # << >> /\ ~ValidLengths(h.cl)
    THEN "invalid"
    ELSE IF h.te # << >> THEN "chunked"
    ELSE IF h.cl # << >> THEN "length" ELSE "none"

\* Faulty variant: only what Connection names is taken out.
HopByHop_NoFraming(h) == h.nominated

\* The fields _forward_headers() does not send on.
HopByHop(h) == h.nominated \cup FramingFields

\* The framing fields of the request do_verb() writes: what is left of the
\* client's, and one for the framing it has decided on.
ForwardedFraming(h) ==
    LET kept(field, values) == IF field \in HopByHop(h) THEN << >> ELSE values
    IN  [te |-> kept("transfer-encoding", h.te)
                \o (IF Framing(h) = "chunked" THEN h.te ELSE << >>),
         cl |-> kept("content-length", h.cl)
                \o (IF Framing(h) = "length" THEN <<Head(h.cl)>> ELSE << >>)]

-----------------------------------------------------------------------------
(* handle(), up to the method. *)

Answer(piece) == answered' = Append(answered, piece)
Forwarding(piece) == forwarded' = Append(forwarded, piece)
Room == Len(forwarded) < MaxPieces /\ Len(answered) < MaxPieces

\* The handler returns; the finally blocks close the upstream's writer.
Leave ==
    /\ httpPc' = "returned"
    /\ upstream' = IF upstream = "none" THEN "none" ELSE "closed"
    /\ UNCHANGED <<head, lines, remaining, forwarded>>

LeaveSilently == Leave /\ UNCHANGED answered
LeaveWith(status) == Leave /\ Answer(status)

GoOn(pc) == httpPc' = pc /\ UNCHANGED head

\* readline() under handshake_timeout: a line, none, or one too long.
ReadRequestLine ==
    /\ httpPc = "request line"
    /\ \/ GoOn("headers") /\ UNCHANGED <<lines, remaining, streams>>
       \/ LeaveSilently
       \/ LeaveWith("431")

ReadHeaderLine ==
    /\ httpPc = "headers"
    /\ \/ /\ lines < MaxHeadLines
          /\ lines' = lines + 1
          /\ GoOn("headers") /\ UNCHANGED <<remaining, streams>>
       \/ lines = MaxHeadLines /\ LeaveWith("431")
       \/ LeaveSilently

\* The answers a head can get before anything is connected; 431 is that of every
\* ValueError, such as urlsplit() raises.
Refusals(h) ==
    CASE h.kind = "unknown method" -> {"501"}
      [] h.kind = "bad" -> {"400", "431"}
      [] h.kind = "verb" /\ Framing(h) = "invalid" -> {"400"}
      [] OTHER -> {}

\* A blank line ends the head, and so does the end of the stream.
EndOfHead(h) ==
    /\ httpPc = "headers"
    /\ \/ /\ Refusals(h) = {}
          /\ httpPc' = "connecting" /\ head' = h
          /\ lines' = 0 /\ UNCHANGED <<remaining, streams>>
       \/ \E status \in Refusals(h) : LeaveWith(status)

-----------------------------------------------------------------------------
(* do_CONNECT() and do_verb(). *)

ConnectFails == httpPc = "connecting" /\ LeaveWith("502")

BeginTunnel ==
    /\ httpPc = "connecting" /\ head.kind = "connect"
    /\ upstream' = "open" /\ Answer("200")
    /\ GoOn("tunnel") /\ UNCHANGED <<lines, remaining, forwarded>>

\* tcp_forward() is over, by an exception or not.
EndTunnel == httpPc = "tunnel" /\ LeaveSilently

SendHead ==
    /\ httpPc = "connecting" /\ head.kind = "verb"
    /\ upstream' = "open" /\ Forwarding(<<"head">>)
    /\ remaining' = IF Framing(head) = "length" THEN Head(head.cl) ELSE 0
    /\ GoOn(CASE Framing(head) = "chunked" -> "chunk"
              [] Framing(head) = "length" /\ Head(head.cl) > 0 -> "body"
              [] OTHER -> "end of body")
    /\ UNCHANGED <<lines, answered>>

UpstreamLost ==
    /\ upstream = "open" /\ httpPc \notin {"tunnel", "returned"}
    /\ upstream' = "lost"
    /\ UNCHANGED <<httpPc, head, lines, remaining, forwarded, answered>>

-----------------------------------------------------------------------------
(* _forward_request_body().  A read that meets the end of the stream, and  *)
(* a drain() that meets a lost upstream, end the handler with no answer.   *)

ReadChunkHeader ==
    /\ httpPc = "chunk"
    /\ \/ \E size \in 0..MaxChunk :
             /\ Room /\ Forwarding(<<"size", size>>)
             /\ remaining' = size
             /\ GoOn(IF size = 0 THEN "trailer" ELSE "data")
             /\ UNCHANGED <<lines, answered, upstream>>
       \/ LeaveWith("400")
       \/ LeaveWith("431")
       \/ LeaveSilently

\* A piece of a chunk or of a body with a length.
ReadData ==
    /\ httpPc \in {"data", "body"}
    /\ \/ /\ upstream # "lost" /\ Forwarding(<<"data">>)
          /\ remaining' = remaining - 1
          /\ GoOn(IF remaining > 1 THEN httpPc
                  ELSE IF httpPc = "data" THEN "terminator" ELSE "end of body")
          /\ UNCHANGED <<lines, answered, upstream>>
       \/ LeaveSilently

ReadTerminator ==
    /\ httpPc = "terminator"
    /\ \/ /\ upstream # "lost" /\ Forwarding(<<"crlf">>)
          /\ GoOn("chunk") /\ UNCHANGED <<lines, remaining, answered, upstream>>
       \/ LeaveWith("400")
       \/ LeaveSilently

ReadTrailer ==
    /\ httpPc = "trailer"
    /\ \/ /\ lines < MaxHeadLines
          /\ lines' = lines + 1 /\ Forwarding(<<"trailer">>)
          /\ GoOn("trailer") /\ UNCHANGED <<remaining, answered, upstream>>
       \/ /\ Forwarding(<<"blank">>)
          /\ GoOn("end of body") /\ UNCHANGED <<lines, remaining, answered, upstream>>
       \/ lines = MaxHeadLines /\ LeaveWith("431")
       \/ LeaveSilently

\* write_eof(), whose failure is swallowed.
EndOfBody ==
    /\ httpPc = "end of body"
    /\ IF upstream = "lost" THEN UNCHANGED forwarded ELSE Forwarding(<<"eof">>)
    /\ GoOn("response") /\ UNCHANGED <<lines, remaining, answered, upstream>>

\* forwarder_loop(), from the upstream to the client, and the end of it.
ForwardResponse ==
    /\ httpPc = "response"
    /\ \/ /\ Room /\ Answer("data")
          /\ GoOn("response") /\ UNCHANGED <<lines, remaining, forwarded, upstream>>
       \/ LeaveSilently

HttpRead ==
    \/ ReadRequestLine \/ ReadHeaderLine
    \/ \E h \in RequestHeads : EndOfHead(h)

HttpNext ==
    \/ HttpRead
    \/ ConnectFails \/ BeginTunnel \/ EndTunnel \/ SendHead \/ UpstreamLost
    \/ ReadChunkHeader \/ ReadData \/ ReadTerminator \/ ReadTrailer
    \/ EndOfBody \/ ForwardResponse

\* Only the reads of a head have a timeout.
HttpFairSpec == HttpInit /\ [][HttpNext]_httpVars /\ WF_httpVars(HttpRead)

-----------------------------------------------------------------------------
(* How a recipient that follows RFC 9112 reads what it is sent. *)

RecipientFraming(f) ==
    CASE f.te # << >> /\ f.cl # << >> -> "ambiguous"
      [] f.te # << >> ->
            IF \A i \in DOMAIN f.te : (f.te[i] = "chunked") <=> (i = Len(f.te))
            THEN "chunked" ELSE "ambiguous"
      [] Len(f.cl) > 1 -> "ambiguous"
      [] Len(f.cl) = 1 -> "length"
      [] OTHER -> "none"

\* What it expects after a piece: a state with the data still to come.
Expecting(state, left) == [state |-> state, left |-> left]

AfterPiece(r, piece) ==
    CASE r.state = "chunk" /\ piece \in {<<"size", n>> : n \in 1..MaxChunk} ->
            Expecting("data", piece[2])
      [] r.state = "chunk" /\ piece = <<"size", 0>> -> Expecting("trailer", 0)
      [] r.state = "data" /\ piece = <<"data">> ->
            Expecting(IF r.left = 1 THEN "crlf" ELSE "data", r.left - 1)
      [] r.state = "crlf" /\ piece = <<"crlf">> -> Expecting("chunk", 0)
      [] r.state = "trailer" /\ piece = <<"trailer">> -> r
      [] r.state = "trailer" /\ piece = <<"blank">> -> Expecting("end", 0)
      [] r.state = "body" /\ piece = <<"data">> ->
            Expecting(IF r.left = 1 THEN "end" ELSE "body", r.left - 1)
      [] r.state = "end" /\ piece = <<"eof">> -> Expecting("ended", 0)
      [] OTHER -> Expecting("confused", 0)

AtBody(f) ==
    CASE RecipientFraming(f) = "chunked" -> Expecting("chunk", 0)
      [] RecipientFraming(f) = "length" /\ f.cl[1] > 0 -> Expecting("body", f.cl[1])
      [] RecipientFraming(f) = "ambiguous" -> Expecting("confused", 0)
      [] OTHER -> Expecting("end", 0)

Reception ==
    FoldLeft(AfterPiece, AtBody(ForwardedFraming(head)), Tail(forwarded))

\* The framing the proxy decided on is the only one the upstream can read out
\* of the head it is sent, however the client repeated, listed or nominated
\* the framing fields.
HttpFramingAgrees ==
    forwarded # << >> => RecipientFraming(ForwardedFraming(head)) = Framing(head)

\* What the upstream is sent is at any time the beginning of one message in
\* that framing; it is whole before the end of the stream is sent and before
\* the response is read, and nothing of a later request follows it.
HttpMessageWhole ==
    forwarded # << >> =>
        /\ Reception.state # "confused"
        /\ httpPc = "end of body" => Reception.state = "end"
        /\ httpPc = "response" => Reception.state \in {"end", "ended"}

\* The proxy answers at most once, and never after it has let the upstream's
\* answer, or the bytes of a tunnel, through.
HttpOneAnswer ==
    \A i \in DOMAIN answered : answered[i] # "data" => Len(answered) = 1

\* One request, one message to the upstream, one answer to the client.
HttpExchangeSound == HttpFramingAgrees /\ HttpMessageWhole /\ HttpOneAnswer

\* A client cannot hold a handler in the head for ever: each line has a
\* timeout, and there is a limit to their number.
HttpHeadEnds == httpPc = "headers" ~> httpPc # "headers"
=============================================================================
