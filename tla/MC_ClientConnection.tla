------------------------ MODULE MC_ClientConnection ------------------------
\* ClientConnection with request heads of every framing, and with two UDP
\* senders on the client's host and one elsewhere.
EXTENDS ClientConnection

CONSTANTS s1, s2, x, p1, p2, p3

TwoPlusOne == {s1, s2, x}
SameHost == {s1, s2}
ThreePeers == {p1, p2, p3}
Mixed == [p \in ThreePeers |-> IF p = p3 THEN "ipv6" ELSE "ipv4"]

TwoAndOne == [inbound |-> 2, outbound |-> 1]

Codings == {<< >>, <<"chunked">>, <<"gzip", "chunked">>, <<"chunked", "gzip">>,
            <<"chunked", "chunked">>, <<BadValue, "chunked">>}
Lengths == {<< >>, <<0>>, <<2>>, <<2, 2>>, <<1, 2>>, <<BadValue>>}
Nominations == {{}, {"content-length"}, {"transfer-encoding"}, {"other"}}

Heads ==
    [kind : {"verb"}, te : Codings, cl : Lengths, nominated : Nominations]
    \cup [kind : {"connect", "bad", "unknown method"},
          te : {<< >>}, cl : {<< >>}, nominated : {{}}]
=============================================================================
