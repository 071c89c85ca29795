------------------------- MODULE NameService_proofs -------------------------
(***************************************************************************)
(* Theorems about the parts of NameService, for any bounds: how the proxy  *)
(* reaches a host by name, the lookups of the resolver with the exchanges  *)
(* they make, over QUIC too, and the caches.  Those about names, messages, *)
(* updates and the search for a zone are in DnsData_proofs, those about    *)
(* zones in ZoneData_proofs.                                               *)
(***************************************************************************)
EXTENDS DnsData_proofs, Outbound, DnsResolver, DnsCache, QuicStreams

-----------------------------------------------------------------------------
(* Outbound.  Lookups are made for permitted families only, and what they   *)
(* find is all that is tried; a race has one connect open until it ends.    *)

LookupStates == {"none", "pending", "answered", "failed"}
AttemptStates == {"none", "open", "connected", "cancelled", "failed"}
AfterLookups == {"resolved", "unresolved", "connecting", "connected", "refused"}

OutboundTypes ==
    /\ connectHosts \subseteq IpFamilies
    /\ addressType \in IpFamilies \cup {"domain"}
    /\ outbound \in {"idle", "resolving", "gathering"} \cup AfterLookups
    /\ lookup \in [IpFamilies -> LookupStates]
    /\ attempt \in [IpFamilies -> AttemptStates]
    /\ waited \in 0..LookupBound
    /\ resolved \subseteq IpFamilies

\* The families that resolve_address() returns.
Reachable == IF addressType = "domain" THEN {f \in IpFamilies : lookup[f] = "answered"}
             ELSE {f \in {addressType} : Permitted(f)}

\* Lookups are made for permitted families, and then what they found is all
\* that is tried; the race has one connect open at least until it ends.
OutboundInv ==
    /\ OutboundTypes
    /\ resolverSource = NoFamily \/ resolverSource \in connectHosts \cap ResolverFamilies
    /\ \A f \in IpFamilies : lookup[f] # "none" => addressType = "domain"
    /\ \A f \in IpFamilies : lookup[f] = "answered" => Permitted(f)
    /\ \A f \in IpFamilies : lookup[f] = "pending" => outbound = "gathering" /\ Permitted(f)
    /\ outbound \in {"idle", "resolving"} => \A f \in IpFamilies : lookup[f] = "none"
    /\ outbound = "idle" => waited = 0
    /\ outbound = "gathering" => addressType = "domain"
    /\ outbound \notin AfterLookups => resolved = {}
    /\ outbound \in AfterLookups => resolved = Reachable
    /\ outbound \notin {"connecting", "connected", "refused"} => \A f \in IpFamilies : attempt[f] = "none"
    /\ \A f \in IpFamilies : attempt[f] # "none" => f \in resolved
    /\ outbound = "unresolved" => resolved = {}
    /\ outbound = "connecting" => /\ \A f \in IpFamilies : attempt[f] \notin {"connected", "cancelled"}
                                  /\ \E f \in resolved : attempt[f] # "failed"
    /\ outbound = "connected" => \E f \in resolved :
          attempt[f] = "connected" /\ \A g \in IpFamilies \ {f} : attempt[g] \notin {"connected", "open"}
    /\ outbound = "refused" => \A f \in resolved : attempt[f] = "failed"

LEMMA OutboundStarts == OutboundInit => OutboundInv
  BY OutboundAssumption
     DEF OutboundInit, OutboundInv, OutboundTypes, LookupStates, AttemptStates, AfterLookups, Reachable

LEMMA OutboundStep ==
  ASSUME OutboundInv, [OutboundNext]_outboundVars
  PROVE  OutboundInv'
<1> USE OutboundAssumption DEF OutboundInv, OutboundTypes, LookupStates, AttemptStates, AfterLookups,
        Reachable, Permitted
<1>1. CASE UNCHANGED outboundVars
  BY <1>1 DEF outboundVars
<1>2. CASE TcpConnect
  <2>1. resolverSource' = NoFamily \/ resolverSource' \in connectHosts' \cap ResolverFamilies
    BY <1>2 DEF TcpConnect, ResolverSource
  <2>2. QED  BY <1>2, <2>1 DEF TcpConnect
<1>3. CASE StartLookups
  BY <1>3 DEF StartLookups
<1>4. CASE LookupWaits
  BY <1>4 DEF LookupWaits
<1>5. CASE Gathered
  BY <1>5 DEF Gathered
<1>6. CASE BeginConnect
  BY <1>6 DEF BeginConnect, IpFamilies
<1>7. CASE StartSecond
  BY <1>7 DEF StartSecond, IpFamilies
<1>8. ASSUME NEW f \in IpFamilies, LookupEnds(f) PROVE OutboundInv'
  BY <1>8 DEF LookupEnds
<1>9. ASSUME NEW f \in IpFamilies, ConnectSucceeds(f) PROVE OutboundInv'
  BY <1>9 DEF ConnectSucceeds
<1>10. ASSUME NEW f \in IpFamilies, ConnectFails(f) PROVE OutboundInv'
  BY <1>10 DEF ConnectFails
<1>11. QED
  BY <1>1, <1>2, <1>3, <1>4, <1>5, <1>6, <1>7, <1>8, <1>9, <1>10 DEF OutboundNext

LEMMA OutboundMeans ==
  ASSUME OutboundInv, LookupBound < ConnectionTimeout
  PROVE  OutboundUsesWhatWorks
<1> USE OutboundAssumption DEF OutboundInv, OutboundTypes
<1>1. outbound = "unresolved" =>
         \A f \in IpFamilies : Permitted(f) => lookup[f] # "answered" /\ addressType # f
  <2>1. outbound = "unresolved" => Reachable = {}
    BY DEF AfterLookups
  <2>2. QED  BY <2>1 DEF Reachable, IpFamilies
<1>2. waited < ConnectionTimeout
  OBVIOUS
<1>3. \A f \in IpFamilies : attempt[f] # "none" => Permitted(f) /\ f \in resolved
  BY DEF AfterLookups, Reachable
<1>4. ASSUME outbound = "connected"
      PROVE  Cardinality({f \in IpFamilies : attempt[f] \in {"connected", "open"}}) = 1
  <2>1. PICK f \in resolved :
           attempt[f] = "connected" /\ \A g \in IpFamilies \ {f} : attempt[g] \notin {"connected", "open"}
    BY <1>4
  <2>2. {g \in IpFamilies : attempt[g] \in {"connected", "open"}} = {f}
    BY <2>1
  <2>3. QED  BY <2>2, FS_Singleton
<1>5. QED  BY <1>1, <1>2, <1>3, <1>4 DEF OutboundUsesWhatWorks

\* A host is out of reach only when every family that could be used was tried,
\* and what is reached is reached once, over a permitted one: where a lookup
\* ends before wait_for() would end them all.
THEOREM OutboundTriesAll ==
  ASSUME LookupBound < ConnectionTimeout
  PROVE  OutboundSpec => []OutboundUsesWhatWorks
<1>1. OutboundInv /\ [OutboundNext]_outboundVars => OutboundInv'
  BY OutboundStep
<1>2. OutboundInv => OutboundUsesWhatWorks
  BY OutboundMeans
<1>3. QED  BY OutboundStarts, <1>1, <1>2, PTL DEF OutboundSpec

-----------------------------------------------------------------------------
(* DnsExchange.  The invariant says how much of the stream was read at each *)
(* point, and what an answer was taken from.                                *)

ExchangeInv ==
    /\ datagrams \in Seq(Datagrams)
    /\ streamed \in 0..(2 + BodySize) /\ buffered \in Nat
    /\ exchange \in {"idle", "receive_udp", "connect", "handshake"} => streamed = 0
    /\ exchange \in {"length", "body"} => streamed < 2 + BodySize
    /\ exchange = "answer" =>
          \/ reply = "answer" /\ streamed = 0
          \/ reply \in {"answer", "truncated"} /\ streamed = 2 + BodySize
    /\ exchange = "Timeout" => Expired

LEMMA ExchangeStarts == ExchangeInit => ExchangeInv
<1>1. << >> \in Seq(Datagrams)
  OBVIOUS
<1>2. QED  BY <1>1, ExchangeAssumption DEF ExchangeInit, ExchangeInv

\* The message of a UDP exchange that is an answer has no TC bit.
LEMMA JudgedAnswers ==
  ASSUME NEW m \in Messages
  PROVE  /\ Judged(m, FALSE) = "answer" => m = "answer"
         /\ Judged(m, TRUE) = "answer" => m \in {"answer", "truncated"}
         /\ Judged(m, FALSE) \in {"answer", "FormError", "Truncated", "BadResponse"}
         /\ Judged(m, TRUE) \in {"answer", "FormError", "BadResponse"}
  BY DEF Judged, Messages

LEMMA WaitKeeps ==
  ASSUME Wait
  PROVE  exchange' = exchange \/ (exchange' = "Timeout" /\ Expired)
  BY DEF Wait, SyncWait, AsyncWait

LEMMA ExchangeStep ==
  ASSUME ExchangeInv, [ExchangeNext]_exchangeVars
  PROVE  ExchangeInv'
<1> USE ExchangeAssumption DEF ExchangeInv
<1>1. CASE UNCHANGED exchangeVars
  BY <1>1 DEF exchangeVars, Expired
<1>2. CASE Asked \/ AskedTls
  BY <1>2 DEF Asked, AskedTls
<1>3. CASE TimePasses
  BY <1>3 DEF TimePasses, Over
<1>4. CASE WaitTimesOut
  BY <1>4 DEF WaitTimesOut, Expired
<1>5. CASE ReceiveUdp
  <2>1. /\ Head(datagrams) \in Datagrams /\ Tail(datagrams) \in Seq(Datagrams)
        /\ << >> \in Seq(Datagrams)
    BY <1>5, HeadTailProperties DEF ReceiveUdp
  <2>2. UNCHANGED <<streamed, buffered>> /\ streamed = 0
    BY <1>5 DEF ReceiveUdp
  <2>3. CASE exchange' \in {exchange, "UnexpectedSource"} /\ datagrams' = Tail(datagrams)
    BY <1>5, <2>1, <2>2, <2>3 DEF ReceiveUdp
  <2>4. CASE Head(datagrams) # "stray" /\ UdpEnds(Head(datagrams))
    <3>1. Head(datagrams) \in Messages
      BY <2>1, <2>4 DEF Datagrams
    <3>2. CASE Judged(Head(datagrams), FALSE) = "Truncated"
      BY <2>1, <2>2, <2>4, <3>2 DEF UdpEnds, Fallback
    <3>3. CASE Judged(Head(datagrams), FALSE) # "Truncated"
      BY <2>1, <2>2, <2>4, <3>1, <3>3, JudgedAnswers DEF UdpEnds
    <3>4. QED  BY <3>2, <3>3
  <2>5. QED  BY <1>5, <2>3, <2>4 DEF ReceiveUdp
<1>6. CASE AwaitDatagram
  BY <1>6, WaitKeeps DEF AwaitDatagram, Expired
<1>7. CASE Connect
  BY <1>7 DEF Connect, Expired
<1>8. CASE Handshake
  BY <1>8 DEF Handshake
<1>9. CASE ReadStream
  <2>1. CASE buffered = 0 /\ exchange' = "EOFError" /\ UNCHANGED <<buffered, streamed, reply>>
    BY <1>9, <2>1 DEF ReadStream
  <2>2. CASE /\ \E n \in 1..buffered :
                   /\ ReadCount(n)
                   /\ buffered' = buffered - n /\ streamed' = streamed + n
             /\ IF streamed' >= 2 + BodySize
                THEN \E m \in Messages : reply' = m /\ exchange' = Judged(m, TRUE)
                ELSE exchange' = (IF streamed' >= 2 THEN "body" ELSE "length") /\ UNCHANGED reply
    <3>1. PICK n \in 1..buffered : ReadCount(n) /\ buffered' = buffered - n /\ streamed' = streamed + n
      BY <2>2
    <3>2. streamed' \in 1..(2 + BodySize) /\ buffered' \in Nat
      BY <1>9, <3>1 DEF ReadCount, ReadStream
    <3>3. UNCHANGED datagrams
      BY <1>9 DEF ReadStream
    <3>4. CASE streamed' >= 2 + BodySize
      <4>1. PICK m \in Messages : reply' = m /\ exchange' = Judged(m, TRUE)
        BY <2>2, <3>4
      <4>2. /\ exchange' \in {"answer", "FormError", "BadResponse"}
            /\ exchange' = "answer" => reply' \in {"answer", "truncated"}
        BY <4>1, JudgedAnswers
      <4>3. QED  BY <3>2, <3>3, <3>4, <4>2
    <3>5. CASE ~(streamed' >= 2 + BodySize)
      BY <2>2, <3>2, <3>3, <3>5
    <3>6. QED  BY <3>4, <3>5
  <2>3. QED  BY <1>9, <2>1, <2>2 DEF ReadStream
<1>10. CASE AwaitBytes
  BY <1>10, WaitKeeps DEF AwaitBytes, Expired
<1>11. CASE DatagramComes
  <2>1. PICK d \in Datagrams : IF backend = "asyncio" THEN FutureTakes(d)
                               ELSE Len(datagrams) < Backlog /\ datagrams' = Append(datagrams, d)
    BY <1>11 DEF DatagramComes
  <2>2. datagrams' \in Seq(Datagrams)
    <3>1. <<d>> \in Seq(Datagrams) /\ Append(datagrams, d) \in Seq(Datagrams)
      OBVIOUS
    <3>2. QED  BY <2>1, <3>1 DEF FutureTakes
  <2>3. QED  BY <1>11, <2>2 DEF DatagramComes
<1>12. CASE BytesCome
  BY <1>12 DEF BytesCome
<1>13. QED
  BY <1>1, <1>2, <1>3, <1>4, <1>5, <1>6, <1>7, <1>8, <1>9, <1>10, <1>11, <1>12
     DEF ExchangeNext, ExchangeProgress

LEMMA ExchangeMeans == ExchangeInv => ExchangeSound
  BY ExchangeAssumption DEF ExchangeInv, ExchangeSound

-----------------------------------------------------------------------------
(* DnsResolver.  The invariant says which servers may still be asked: those *)
(* not found broken, each once; and that the names before the one that is   *)
(* resolved were denied.                                                    *)

LEMMA ToSetOfTail ==
  ASSUME NEW S, NEW s \in Seq(S), s # << >>, IsInjective(s)
  PROVE  /\ Head(s) \in ToSet(s) /\ Tail(s) \in Seq(S) /\ IsInjective(Tail(s))
         /\ ToSet(Tail(s)) = ToSet(s) \ {Head(s)}
<1>1. /\ Len(s) \in Nat \ {0} /\ Head(s) = s[1] /\ DOMAIN s = 1..Len(s)
      /\ Tail(s) \in Seq(S) /\ DOMAIN Tail(s) = 1..(Len(s) - 1) /\ Len(Tail(s)) = Len(s) - 1
      /\ \A i \in 1..(Len(s) - 1) : Tail(s)[i] = s[i + 1]
  BY TailFacts
<1>2. ToSet(Tail(s)) \subseteq ToSet(s) \ {Head(s)}
  BY <1>1 DEF ToSet, IsInjective
<1>3. ASSUME NEW x \in ToSet(s) \ {Head(s)} PROVE x \in ToSet(Tail(s))
  <2>1. PICK i \in 1..Len(s) : x = s[i]
    BY <1>1, <1>3 DEF ToSet
  <2>2. i - 1 \in 1..(Len(s) - 1) /\ Tail(s)[i - 1] = x
    BY <1>1, <1>3, <2>1
  <2>3. QED  BY <1>1, <2>2 DEF ToSet
<1>4. IsInjective(Tail(s))
  BY <1>1 DEF IsInjective
<1>5. Head(s) \in ToSet(s)
  BY <1>1 DEF ToSet
<1>6. QED  BY <1>1, <1>2, <1>3, <1>4, <1>5

LEMMA RemovedAt ==
  ASSUME NEW S, NEW s \in Seq(S), IsInjective(s), NEW e, NEW p \in 1..Len(s), s[p] = e
  PROVE  /\ RemoveFirst(s, e) \in Seq(S) /\ Len(RemoveFirst(s, e)) = Len(s) - 1
         /\ DOMAIN RemoveFirst(s, e) = 1..(Len(s) - 1)
         /\ \A i \in 1..(Len(s) - 1) : RemoveFirst(s, e)[i] = s[IF i < p THEN i ELSE i + 1]
<1>0. Len(s) \in Nat /\ DOMAIN s = 1..Len(s)
  BY LenProperties
<1>1. p \in 1..Len(s) /\ s[p] = e
  OBVIOUS
<1>2. {i \in 1..Len(s) : s[i] = e} = {p}
  BY <1>0, <1>1 DEF IsInjective
<1>3. SelectInSeq(s, LAMBDA v : v = e) = p
  BY <1>1, <1>2 DEF SelectInSeq, Min
<1> DEFINE a == SubSeq(s, 1, p - 1)
           b == SubSeq(s, p + 1, Len(s))
           r == a \o b
<1>4. RemoveFirst(s, e) = r
  BY <1>1, <1>3 DEF RemoveFirst, RemoveAt
<1>5. /\ a \in Seq(S) /\ Len(a) = p - 1 /\ \A i \in 1..(p - 1) : a[i] = s[i]
      /\ b \in Seq(S) /\ Len(b) = Len(s) - p /\ \A i \in 1..(Len(s) - p) : b[i] = s[p + i]
  <2>1. /\ 1 <= (p - 1) + 1 /\ p - 1 \in Nat /\ p - 1 <= Len(s)
        /\ p + 1 <= Len(s) + 1 /\ p + 1 \in Nat \ {0} /\ Len(s) <= Len(s)
    BY <1>0, <1>1
  <2>2. /\ a \in Seq(S) /\ Len(a) = (p - 1) - 1 + 1
        /\ \A i \in 1..((p - 1) - 1 + 1) : a[i] = s[1 + i - 1]
    BY <2>1, SubSeqFacts
  <2>3. /\ b \in Seq(S) /\ Len(b) = Len(s) - (p + 1) + 1
        /\ \A i \in 1..(Len(s) - (p + 1) + 1) : b[i] = s[(p + 1) + i - 1]
    <3> DEFINE m == p + 1
               n == Len(s)
    <3>1. m \in Nat \ {0} /\ n \in Nat /\ m <= n + 1 /\ n <= Len(s)
      BY <1>0, <2>1
    <3> HIDE DEF m, n
    <3>2. /\ SubSeq(s, m, n) \in Seq(S) /\ Len(SubSeq(s, m, n)) = n - m + 1
          /\ \A i \in 1..(n - m + 1) : SubSeq(s, m, n)[i] = s[m + i - 1]
      BY <3>1, SubSeqFacts
    <3>3. QED  BY <3>2 DEF m, n
  <2> HIDE DEF a, b
  <2>4. (p - 1) - 1 + 1 = p - 1 /\ Len(s) - (p + 1) + 1 = Len(s) - p
    BY <1>0
  <2>5. ASSUME NEW i \in 1..(p - 1) PROVE a[i] = s[i]
    <3>1. i \in 1..((p - 1) - 1 + 1) /\ 1 + i - 1 = i
      BY <1>0, <2>4
    <3>2. QED  BY <2>2, <3>1
  <2>6. ASSUME NEW i \in 1..(Len(s) - p) PROVE b[i] = s[p + i]
    <3>1. i \in 1..(Len(s) - (p + 1) + 1) /\ (p + 1) + i - 1 = p + i
      BY <1>0, <2>4
    <3>2. QED  BY <2>3, <3>1
  <2>7. Len(a) = p - 1 /\ Len(b) = Len(s) - p
    BY <2>2, <2>3, <2>4
  <2>8. QED  BY <2>2, <2>3, <2>5, <2>6, <2>7
<1> HIDE DEF a, b
<1>6. /\ r \in Seq(S) /\ Len(r) = Len(s) - 1 /\ DOMAIN r = 1..(Len(s) - 1)
      /\ \A i \in 1..(Len(s) - 1) : r[i] = s[IF i < p THEN i ELSE i + 1]
  <2>1. /\ r \in Seq(S) /\ Len(r) = Len(a) + Len(b) /\ DOMAIN r = 1..(Len(a) + Len(b))
        /\ \A i \in 1..(Len(a) + Len(b)) : r[i] = IF i <= Len(a) THEN a[i] ELSE b[i - Len(a)]
    BY <1>5, ConcatFacts
  <2> HIDE DEF r
  <2>2. Len(a) + Len(b) = Len(s) - 1
    BY <1>0, <1>1, <1>5
  <2>3. ASSUME NEW i \in 1..(Len(s) - 1) PROVE r[i] = s[IF i < p THEN i ELSE i + 1]
    <3>1. r[i] = IF i <= p - 1 THEN a[i] ELSE b[i - (p - 1)]
      BY <1>5, <2>1, <2>2
    <3>2. CASE i < p
      <4>1. i <= p - 1 /\ i \in 1..(p - 1)
        BY <1>0, <3>2
      <4>2. QED  BY <1>5, <3>1, <3>2, <4>1
    <3>3. CASE ~(i < p)
      <4>1. ~(i <= p - 1) /\ i - (p - 1) \in 1..(Len(s) - p) /\ p + (i - (p - 1)) = i + 1
        BY <1>0, <3>3
      <4>2. QED  BY <1>5, <3>1, <3>3, <4>1
    <3>4. QED  BY <3>2, <3>3
  <2>4. QED  BY <2>1, <2>2, <2>3
<1> HIDE DEF r
<1>7. QED  BY <1>4, <1>6

LEMMA RemovedFirst ==
  ASSUME NEW S, NEW s \in Seq(S), IsInjective(s), NEW e
  PROVE  /\ RemoveFirst(s, e) \in Seq(S) /\ IsInjective(RemoveFirst(s, e))
         /\ ToSet(RemoveFirst(s, e)) = ToSet(s) \ {e}
<1>1. Len(s) \in Nat /\ DOMAIN s = 1..Len(s)
  BY LenProperties
<1>2. CASE ~\E i \in 1..Len(s) : s[i] = e
  BY <1>1, <1>2 DEF RemoveFirst, ToSet
<1>3. CASE \E i \in 1..Len(s) : s[i] = e
  <2>1. PICK p \in 1..Len(s) : s[p] = e
    BY <1>3
  <2> DEFINE r == RemoveFirst(s, e)
  <2>6. /\ r \in Seq(S) /\ Len(r) = Len(s) - 1 /\ DOMAIN r = 1..(Len(s) - 1)
        /\ \A i \in 1..(Len(s) - 1) : r[i] = s[IF i < p THEN i ELSE i + 1]
    BY <2>1, RemovedAt
  <2> HIDE DEF r
  <2>7. IsInjective(r)
    <3>1. ASSUME NEW i \in 1..(Len(s) - 1), NEW j \in 1..(Len(s) - 1), r[i] = r[j] PROVE i = j
      <4> DEFINE f == IF i < p THEN i ELSE i + 1
                 g == IF j < p THEN j ELSE j + 1
      <4>1. f \in 1..Len(s) /\ g \in 1..Len(s) /\ (f = g => i = j)
        BY <1>1
      <4>2. r[i] = s[f] /\ r[j] = s[g]
        BY <2>6
      <4> HIDE DEF f, g
      <4>3. QED  BY <1>1, <3>1, <4>1, <4>2 DEF IsInjective
    <3>2. QED  BY <2>6, <3>1 DEF IsInjective
  <2>8. ToSet(r) \subseteq ToSet(s) \ {e}
    <3>1. ASSUME NEW i \in 1..(Len(s) - 1) PROVE r[i] \in ToSet(s) \ {e}
      <4> DEFINE j == IF i < p THEN i ELSE i + 1
      <4>1. j \in 1..Len(s) /\ j # p
        BY <1>1
      <4>2. r[i] = s[j]
        BY <2>6
      <4> HIDE DEF j
      <4>3. s[j] # s[p]
        BY <1>1, <4>1 DEF IsInjective
      <4>4. QED  BY <1>1, <2>1, <4>1, <4>2, <4>3 DEF ToSet
    <3>2. QED  BY <2>6, <3>1 DEF ToSet
  <2>9. ASSUME NEW x \in ToSet(s) \ {e} PROVE x \in ToSet(r)
    <3>1. PICK i \in 1..Len(s) : x = s[i] /\ i # p
      BY <1>1, <2>1, <2>9 DEF ToSet
    <3>2. /\ (IF i < p THEN i ELSE i - 1) \in 1..(Len(s) - 1)
          /\ r[IF i < p THEN i ELSE i - 1] = x
      BY <1>1, <2>1, <2>6, <3>1
    <3>3. QED  BY <2>6, <3>2 DEF ToSet
  <2>10. QED  BY <2>6, <2>7, <2>8, <2>9 DEF r
<1>4. QED  BY <1>2, <1>3

Started == resolving # "idle"
Tried == Len(Names) - Len(qnames)
Asking == {"next_nameserver", "timing", "exchanging"}

\* The servers not found broken are those that are not blamed, each of them
\* once; the one being asked is none of those that are left of the round.
ServersInv ==
    /\ nameservers \in Seq(ToSet(Servers)) /\ IsInjective(nameservers)
    /\ blamed \subseteq ToSet(Servers)
    /\ ToSet(nameservers) = ToSet(Servers) \ blamed
    /\ currentServers \in Seq(ToSet(Servers)) /\ IsInjective(currentServers)
    /\ ToSet(currentServers) \subseteq ToSet(nameservers) \ {nameserver}
    /\ retryWithTcp => nameserver \in ToSet(nameservers)
    /\ resolving \in {"timing", "exchanging"} => nameserver \in ToSet(nameservers)

\* The names that are left are the last ones; those before qname were denied.
NamesInv ==
    /\ qnames \in Seq(ToSet(Names)) /\ Tried \in 0..Len(Names)
    /\ \A i \in 1..Len(qnames) : qnames[i] = Names[Tried + i]
    /\ nxdomains \subseteq ToSet(Names)
    /\ \A i \in 1..Tried - 1 : Names[i] \in nxdomains
    /\ resolving = "next_request" => \A i \in 1..Tried : Names[i] \in nxdomains
    /\ resolving \in Asking => Tried > 0 /\ qname = Names[Tried]

ResolverInv ==
    /\ resolving \in {"idle", "next_request"} \cup Asking \cup Endings
    /\ Started => NamesInv
    /\ resolving \in Asking => ServersInv
    /\ resolving = "idle" => nxdomains = {}
    /\ resolving = "NXDOMAIN" => nxdomains = ToSet(Names)
    /\ resolving = "NoNameservers" => blamed = ToSet(Servers)
    /\ resolving = "LifetimeTimeout" => elapsed >= Lifetime

LEMMA ResolverStarts == ResolverInit => ResolverInv
  BY DEF ResolverInit, ResolverInv, Started, Asking, Endings

LEMMA ResolveKeeps == ASSUME ResolverInv, Resolve PROVE ResolverInv'
<1>1. /\ resolving' = "next_request" /\ qnames' = Names /\ nxdomains' = {}
      /\ Names \in Seq(ToSet(Names)) /\ Len(Names) \in Nat
  BY ResolverAssumption, LenProperties DEF Resolve, ResolverInv
<1>2. Tried' = 0
  BY <1>1 DEF Tried
<1>3. NamesInv'
  <2>1. \A i \in 1..Len(Names) : Names[0 + i] = Names[i]
    BY <1>1
  <2>2. \A i : i \notin 1..(0 - 1)
    OBVIOUS
  <2>3. QED  BY <1>1, <1>2, <2>1, <2>2 DEF NamesInv, Asking
<1>4. QED  BY <1>1, <1>3 DEF ResolverInv, Started, Asking, Endings

LEMMA NextRequestKeeps == ASSUME ResolverInv, NextRequest PROVE ResolverInv'
<1>1. resolving = "next_request" /\ NamesInv /\ Len(Names) \in Nat /\ DOMAIN Names = 1..Len(Names)
  BY ResolverAssumption, LenProperties DEF NextRequest, ResolverInv, Started
<1>2. CASE qnames = << >>
  <2>1. resolving' = "NXDOMAIN" /\ UNCHANGED <<qnames, nxdomains>>
    BY <1>2 DEF NextRequest
  <2>2. Tried = Len(Names)
    BY <1>1, <1>2, EmptySeq DEF Tried
  <2>3. nxdomains = ToSet(Names)
    BY <1>1, <2>2 DEF NamesInv, ToSet
  <2>4. NamesInv'
    BY <1>1, <2>1 DEF NamesInv, Tried, Asking
  <2>5. QED  BY <2>1, <2>3, <2>4 DEF ResolverInv, Started, Asking, Endings
<1>3. CASE qnames # << >>
  <2>1. /\ qname' = Head(qnames) /\ qnames' = Tail(qnames)
        /\ \/ nxdomains' = nxdomains \cup {qname'} /\ UNCHANGED resolving
           \/ resolving' \in {"answer", "NoAnswer"} /\ UNCHANGED nxdomains
           \/ /\ resolving' = "next_nameserver" /\ UNCHANGED nxdomains
              /\ nameservers' = Servers /\ currentServers' = Servers
              /\ nameserver' = Unset /\ ~retryWithTcp' /\ blamed' = {}
    BY <1>3 DEF NextRequest
  <2>2. /\ Len(qnames) \in Nat \ {0} /\ Tail(qnames) \in Seq(ToSet(Names))
        /\ Len(Tail(qnames)) = Len(qnames) - 1 /\ Head(qnames) = qnames[1]
        /\ \A i \in 1..(Len(qnames) - 1) : Tail(qnames)[i] = qnames[i + 1]
    <3>1. qnames \in Seq(ToSet(Names))
      BY <1>1 DEF NamesInv
    <3>2. QED  BY <1>3, <3>1, TailFacts
  <2>3. Tried' = Tried + 1 /\ Tried' \in 1..Len(Names) /\ qname' = Names[Tried']
    <3>1. Tried' = Tried + 1
      BY <1>1, <2>1, <2>2 DEF Tried
    <3>2. Tried' \in 1..Len(Names)
      BY <1>1, <2>2, <3>1 DEF Tried, NamesInv
    <3>3. qnames[1] = Names[Tried + 1]
      BY <1>1, <2>2 DEF NamesInv
    <3>4. QED  BY <2>1, <2>2, <3>1, <3>2, <3>3
  <2>4. /\ \A i \in 1..Len(qnames') : qnames'[i] = Names[Tried' + i]
        /\ nxdomains' \subseteq ToSet(Names)
        /\ \A i \in 1..Tried : Names[i] \in nxdomains'
    <3>1. ASSUME NEW i \in 1..Len(qnames') PROVE qnames'[i] = Names[Tried' + i]
      <4>1. i + 1 \in 1..Len(qnames) /\ qnames'[i] = qnames[i + 1]
        BY <2>1, <2>2, <3>1
      <4>2. qnames[i + 1] = Names[Tried + (i + 1)]
        BY <1>1, <4>1 DEF NamesInv
      <4>3. Tried + (i + 1) = Tried' + i
        BY <1>1, <2>3, <3>1 DEF NamesInv
      <4>4. QED  BY <4>1, <4>2, <4>3
    <3>2. qname' \in ToSet(Names)
      BY <1>1, <2>3 DEF ToSet
    <3>3. nxdomains' \subseteq ToSet(Names) /\ nxdomains \subseteq nxdomains'
      BY <1>1, <2>1, <3>2 DEF NamesInv
    <3>4. \A i \in 1..Tried : Names[i] \in nxdomains
      BY <1>1 DEF NamesInv
    <3>5. QED  BY <3>1, <3>3, <3>4
  <2>5. NamesInv'
    <3>1. Tried' - 1 = Tried
      BY <1>1, <2>3 DEF NamesInv
    <3>2. resolving' = "next_request" => Names[Tried'] \in nxdomains'
      BY <1>1, <2>1, <2>3
    <3>3. resolving' = "next_request" => \A i \in 1..Tried' : Names[i] \in nxdomains'
      BY <1>1, <2>3, <2>4, <3>2 DEF NamesInv
    <3>4. qnames' \in Seq(ToSet(Names)) /\ Tried' \in 0..Len(Names) /\ Tried' > 0
      BY <1>1, <2>1, <2>2, <2>3
    <3>5. QED  BY <2>3, <2>4, <3>1, <3>3, <3>4 DEF NamesInv
  <2>6. CASE resolving' # "next_nameserver"
    BY <1>1, <2>1, <2>5, <2>6 DEF ResolverInv, Started, Asking, Endings
  <2>7. CASE resolving' = "next_nameserver"
    <3>1. Unset \notin ToSet(Servers)
      BY ResolverAssumption
    <3>2. ServersInv'
      BY <1>1, <2>1, <2>7, <3>1, ResolverAssumption DEF ServersInv
    <3>3. QED  BY <2>5, <2>7, <3>2 DEF ResolverInv, Started, Asking, Endings
  <2>8. QED  BY <2>6, <2>7
<1>4. QED  BY <1>2, <1>3

LEMMA NextNameserverKeeps == ASSUME ResolverInv, NextNameserver PROVE ResolverInv'
<1>1. /\ resolving = "next_nameserver" /\ NamesInv /\ ServersInv
      /\ UNCHANGED <<qnames, qname, nxdomains, blamed, nameservers>>
  BY DEF NextNameserver, ResolverInv, Started, Asking
<1>2. ASSUME resolving' \in {"timing", "NoNameservers"} PROVE NamesInv'
  BY <1>1, <1>2 DEF NamesInv, Tried, Asking
<1>3. CASE retryWithTcp
  <2>1. /\ resolving' = "timing" /\ UNCHANGED <<nameserver, currentServers>> /\ ~retryWithTcp'
    BY <1>3 DEF NextNameserver
  <2>2. ServersInv'
    BY <1>1, <1>3, <2>1 DEF ServersInv
  <2>3. QED  BY <1>1, <1>2, <2>1, <2>2 DEF ResolverInv, Started, Asking, Endings
<1>4. CASE ~retryWithTcp /\ currentServers = << >> /\ nameservers = << >>
  <2>1. resolving' = "NoNameservers"
    BY <1>4 DEF NextNameserver
  <2>2. ToSet(<< >>) = {}
    BY DEF ToSet
  <2>3. blamed = ToSet(Servers)
    BY <1>1, <1>4, <2>2 DEF ServersInv
  <2>4. QED  BY <1>1, <1>2, <2>1, <2>3 DEF ResolverInv, Started, Asking, Endings
<1>5. CASE ~retryWithTcp /\ ~(currentServers = << >> /\ nameservers = << >>)
  <2> DEFINE round == IF currentServers = << >> THEN nameservers ELSE currentServers
  <2>1. /\ resolving' = "timing" /\ ~retryWithTcp'
        /\ nameserver' = Head(round) /\ currentServers' = Tail(round)
    BY <1>5 DEF NextNameserver
  <2>2. /\ round # << >> /\ round \in Seq(ToSet(Servers)) /\ IsInjective(round)
        /\ ToSet(round) \subseteq ToSet(nameservers)
    BY <1>1, <1>5 DEF ServersInv
  <2> HIDE DEF round
  <2>3. /\ nameserver' \in ToSet(round) /\ currentServers' \in Seq(ToSet(Servers))
        /\ IsInjective(currentServers')
        /\ ToSet(currentServers') = ToSet(round) \ {nameserver'}
    BY <2>1, <2>2, ToSetOfTail
  <2>4. ServersInv'
    BY <1>1, <2>1, <2>2, <2>3 DEF ServersInv
  <2>5. QED  BY <1>1, <1>2, <2>1, <2>4 DEF ResolverInv, Started, Asking, Endings
<1>6. QED  BY <1>3, <1>4, <1>5

LEMMA ExchangeKeeps == ASSUME ResolverInv, Exchange PROVE ResolverInv'
<1>1. PICK ending \in UdpOutcomes \cup TcpOutcomes : QueryResult(ending)
  BY DEF Exchange
<1>2. /\ resolving = "exchanging" /\ NamesInv /\ ServersInv
      /\ UNCHANGED <<qnames, qname, currentServers, nameserver>>
  BY DEF Exchange, ResolverInv, Started, Asking
<1>3. /\ retryWithTcp' => ending = "truncated"
      /\ \/ resolving' \in {"answer", "NoAnswer", "YXDOMAIN", "next_nameserver"} /\ UNCHANGED nxdomains
         \/ resolving' = "next_request" /\ nxdomains' = nxdomains \cup {qname}
  BY <1>1 DEF QueryResult
<1>4. NamesInv'
  <2>1. Tried > 0 /\ qname = Names[Tried] /\ Len(Names) \in Nat /\ DOMAIN Names = 1..Len(Names)
        /\ Tried \in 0..Len(Names)
    BY <1>2, ResolverAssumption, LenProperties DEF NamesInv, Asking
  <2>2. qname \in ToSet(Names)
    BY <2>1 DEF ToSet
  <2>3. UNCHANGED Tried
    BY <1>2 DEF Tried
  <2>4. nxdomains' \subseteq ToSet(Names) /\ nxdomains \subseteq nxdomains'
    BY <1>2, <1>3, <2>2 DEF NamesInv
  <2>5. \A i \in 1..Tried - 1 : Names[i] \in nxdomains'
    BY <1>2, <2>4 DEF NamesInv
  <2>6. resolving' = "next_request" => \A i \in 1..Tried : Names[i] \in nxdomains'
    BY <1>3, <2>1, <2>5
  <2>7. QED  BY <1>2, <2>1, <2>3, <2>4, <2>5, <2>6 DEF NamesInv
<1>5. ASSUME resolving' = "next_nameserver" PROVE ServersInv'
  <2>1. CASE Fault(ending)
    <3>1. /\ nameservers' = RemoveFirst(nameservers, nameserver)
          /\ blamed' = blamed \cup {nameserver} /\ ~retryWithTcp'
      BY <1>1, <1>3, <2>1 DEF QueryResult, Blame, Fault
    <3>2. /\ nameservers' \in Seq(ToSet(Servers)) /\ IsInjective(nameservers')
          /\ ToSet(nameservers') = ToSet(nameservers) \ {nameserver}
      BY <1>2, <3>1, RemovedFirst DEF ServersInv
    <3>3. QED  BY <1>2, <1>5, <3>1, <3>2 DEF ServersInv
  <2>2. CASE ~Fault(ending)
    <3>1. UNCHANGED <<nameservers, blamed>>
      BY <1>1, <2>2 DEF QueryResult
    <3>2. QED  BY <1>2, <1>5, <3>1 DEF ServersInv
  <2>3. QED  BY <2>1, <2>2
<1>6. QED  BY <1>3, <1>4, <1>5 DEF ResolverInv, Started, Asking, Endings

LEMMA ResolverStep ==
  ASSUME ResolverInv, [ResolverNext]_resolverVars
  PROVE  ResolverInv'
<1>1. CASE UNCHANGED resolverVars
  BY <1>1 DEF resolverVars, query, ResolverInv, NamesInv, ServersInv, Started, Tried
<1>2. CASE ComputeTimeout
  <2>1. /\ resolving = "timing" /\ UNCHANGED <<qnames, nxdomains, query, elapsed, blamed>>
        /\ resolving' = IF elapsed >= Lifetime THEN "LifetimeTimeout" ELSE "exchanging"
    BY <1>2 DEF ComputeTimeout
  <2>2. NamesInv' /\ ServersInv'
    BY <2>1 DEF ResolverInv, NamesInv, ServersInv, Started, Tried, Asking, query
  <2>3. QED  BY <2>1, <2>2 DEF ResolverInv, Started, Asking, Endings
<1>3. QED
  BY <1>1, <1>2, ResolveKeeps, NextRequestKeeps, NextNameserverKeeps, ExchangeKeeps DEF ResolverNext

LEMMA ResolverMeans == ResolverInv => ResolutionJustified
<1> SUFFICES ASSUME ResolverInv PROVE ResolutionJustified
  OBVIOUS
<1>1. resolving \in Endings \ {"NXDOMAIN"} =>
         \A i \in 1..Len(Names) - Len(qnames) - 1 : Names[i] \in nxdomains
  BY DEF ResolverInv, Started, NamesInv, Tried, Endings
<1>2. resolving = "exchanging" => nameserver \in ToSet(nameservers) \ blamed
  BY DEF ResolverInv, ServersInv, Asking
<1>3. QED  BY <1>1, <1>2 DEF ResolutionJustified, ResolverInv

\* What a lookup ends with, be it an answer or a failure, is what happened to
\* it: NXDOMAIN when every name was denied, no name servers when each of them
\* was found broken, a timeout when the time is over; and the answer of an
\* exchange is a whole response to its query.
THEOREM LookupsSayWhatHappened == ResolverSpec /\ ExchangeSpec => []LookupsSound
<1>1. ResolverInv /\ [ResolverNext]_resolverVars => ResolverInv'
  BY ResolverStep
<1>2. ExchangeInv /\ [ExchangeNext]_exchangeVars => ExchangeInv'
  BY ExchangeStep
<1>3. ResolverInv /\ ExchangeInv => LookupsSound
  BY ResolverMeans, ExchangeMeans DEF LookupsSound
<1>4. QED
  BY ResolverStarts, ExchangeStarts, <1>1, <1>2, <1>3, PTL DEF ResolverSpec, ExchangeSpec

-----------------------------------------------------------------------------
(* DnsCache.  The linked list stands for a sequence of keys, the one used   *)
(* last in front; each method does to the sequence what RecencyList says.   *)

\* The list by last use, with the sentinel in front of it and behind it.
NodeAt(s, i) == IF i \in 1..Len(s) THEN s[i] ELSE Sentinel
KeyList(s) == s \in Seq(CacheKeys) /\ IsInjective(s)
Linked(l, s) ==
    /\ l \in [Nodes -> [prev : Nodes, next : Nodes]]
    /\ \A i \in 0..Len(s) : l[NodeAt(s, i)].next = NodeAt(s, i + 1) /\ l[NodeAt(s, i + 1)].prev = NodeAt(s, i)

LEMMA NodeFacts ==
  ASSUME NEW s, KeyList(s)
  PROVE  /\ Len(s) \in Nat /\ DOMAIN s = 1..Len(s)
         /\ NodeAt(s, 0) = Sentinel /\ NodeAt(s, Len(s) + 1) = Sentinel
         /\ \A i \in 1..Len(s) : NodeAt(s, i) = s[i] /\ s[i] \in CacheKeys /\ s[i] # Sentinel
         /\ \A i \in Int : NodeAt(s, i) \in Nodes
         /\ \A i, j \in 0..Len(s) : NodeAt(s, i) = NodeAt(s, j) => i = j
         /\ \A i, j \in 1..(Len(s) + 1) : NodeAt(s, i) = NodeAt(s, j) => i = j
<1>1. Len(s) \in Nat /\ DOMAIN s = 1..Len(s) /\ \A i \in 1..Len(s) : s[i] \in CacheKeys
  BY LenProperties, ElementOfSeq DEF KeyList
<1>2. Sentinel \notin CacheKeys
  BY CacheAssumption
<1>3. \A i \in 1..Len(s) : NodeAt(s, i) = s[i] /\ s[i] \in CacheKeys /\ s[i] # Sentinel
  BY <1>1, <1>2 DEF NodeAt
<1>4. \A i : i \notin 1..Len(s) => NodeAt(s, i) = Sentinel
  BY DEF NodeAt
<1>5. 0 \notin 1..Len(s) /\ Len(s) + 1 \notin 1..Len(s)
  BY <1>1
<1>6. \A i \in Int : NodeAt(s, i) \in Nodes
  BY <1>3, <1>4 DEF Nodes
<1>7. \A i, j \in 1..Len(s) : s[i] = s[j] => i = j
  BY <1>1 DEF KeyList, IsInjective
<1>8. /\ \A i \in 0..Len(s) : i = 0 \/ i \in 1..Len(s)
      /\ \A i \in 1..(Len(s) + 1) : i = Len(s) + 1 \/ i \in 1..Len(s)
  BY <1>1
<1>9. \A i, j \in 0..Len(s) : NodeAt(s, i) = NodeAt(s, j) => i = j
  BY <1>3, <1>4, <1>5, <1>7, <1>8
<1>10. \A i, j \in 1..(Len(s) + 1) : NodeAt(s, i) = NodeAt(s, j) => i = j
  BY <1>3, <1>4, <1>5, <1>7, <1>8
<1>11. QED  BY <1>1, <1>3, <1>4, <1>5, <1>6, <1>9, <1>10

\* In u, q follows p, and everything else is as in l.
PassedOver(l, u, p, q) ==
    /\ u \in [Nodes -> [prev : Nodes, next : Nodes]]
    /\ \A k \in Nodes : /\ u[k].next = IF k = p THEN q ELSE l[k].next
                        /\ u[k].prev = IF k = q THEN p ELSE l[k].prev

LEMMA UnlinkFacts ==
  ASSUME NEW l \in [Nodes -> [prev : Nodes, next : Nodes]], NEW n \in Nodes,
         NEW p \in Nodes, NEW q \in Nodes, p = l[n].prev, q = l[n].next, p # n, q # n
  PROVE  PassedOver(l, Unlink(l, n), p, q)
<1> DEFINE l1 == [l EXCEPT ![q].prev = p]
<1>1. p \in Nodes /\ q \in Nodes /\ l[n] \in [prev : Nodes, next : Nodes]
  OBVIOUS
<1>2. l1 \in [Nodes -> [prev : Nodes, next : Nodes]]
  BY <1>1
<1>3. \A k \in Nodes : l1[k].next = l[k].next /\ l1[k].prev = IF k = q THEN p ELSE l[k].prev
  BY <1>1
<1>4. l1[n].prev = p /\ l1[n].next = q
  BY <1>3
<1>5. Unlink(l, n) = [l1 EXCEPT ![l1[n].prev].next = l1[n].next]
  BY DEF Unlink
<1> HIDE DEF l1
<1>6. Unlink(l, n) = [l1 EXCEPT ![p].next = q]
  BY <1>4, <1>5
<1>7. /\ Unlink(l, n) \in [Nodes -> [prev : Nodes, next : Nodes]]
      /\ \A k \in Nodes : /\ Unlink(l, n)[k].next = IF k = p THEN q ELSE l1[k].next
                          /\ Unlink(l, n)[k].prev = l1[k].prev
  BY <1>1, <1>2, <1>6
<1>8. QED  BY <1>3, <1>7 DEF PassedOver

LEMMA UnlinkKeeps ==
  ASSUME NEW s, KeyList(s), NEW l, Linked(l, s), NEW k \in ToSet(s)
  PROVE  /\ Linked(Unlink(l, k), RemoveFirst(s, k)) /\ KeyList(RemoveFirst(s, k))
         /\ Len(RemoveFirst(s, k)) = Len(s) - 1 /\ ToSet(RemoveFirst(s, k)) = ToSet(s) \ {k}
<1>1. /\ Len(s) \in Nat /\ DOMAIN s = 1..Len(s) /\ s \in Seq(CacheKeys) /\ IsInjective(s)
      /\ NodeAt(s, 0) = Sentinel /\ NodeAt(s, Len(s) + 1) = Sentinel
      /\ \A i \in 1..Len(s) : NodeAt(s, i) = s[i] /\ s[i] \in CacheKeys /\ s[i] # Sentinel
      /\ \A i \in Int : NodeAt(s, i) \in Nodes
      /\ \A i, j \in 0..Len(s) : NodeAt(s, i) = NodeAt(s, j) => i = j
      /\ \A i, j \in 1..(Len(s) + 1) : NodeAt(s, i) = NodeAt(s, j) => i = j
  BY NodeFacts DEF KeyList
<1>2. PICK p \in 1..Len(s) : s[p] = k
  BY <1>1 DEF ToSet
<1>3. p \in Int /\ p - 1 \in 0..Len(s) /\ p + 1 \in 1..(Len(s) + 1) /\ (p - 1) + 1 = p /\ p \in 0..Len(s)
      /\ p \in 1..(Len(s) + 1) /\ p - 1 # p /\ p + 1 # p
  BY <1>1, <1>2
<1>4. /\ l \in [Nodes -> [prev : Nodes, next : Nodes]]
      /\ \A i \in 0..Len(s) : l[NodeAt(s, i)].next = NodeAt(s, i + 1) /\ l[NodeAt(s, i + 1)].prev = NodeAt(s, i)
  BY DEF Linked
<1>5. k = NodeAt(s, p) /\ k \in Nodes /\ l[k].next = NodeAt(s, p + 1) /\ l[k].prev = NodeAt(s, p - 1)
  BY <1>1, <1>2, <1>3, <1>4
<1>6. NodeAt(s, p + 1) # k /\ NodeAt(s, p - 1) # k
  BY <1>1, <1>3, <1>5
<1> DEFINE u == Unlink(l, k)
           r == RemoveFirst(s, k)
<1>7. /\ u \in [Nodes -> [prev : Nodes, next : Nodes]]
      /\ \A x \in Nodes : /\ u[x].next = IF x = NodeAt(s, p - 1) THEN NodeAt(s, p + 1) ELSE l[x].next
                          /\ u[x].prev = IF x = NodeAt(s, p + 1) THEN NodeAt(s, p - 1) ELSE l[x].prev
  <2> DEFINE a == NodeAt(s, p - 1)
             b == NodeAt(s, p + 1)
  <2>1. a \in Nodes /\ b \in Nodes /\ a = l[k].prev /\ b = l[k].next /\ a # k /\ b # k /\ k \in Nodes
    BY <1>1, <1>3, <1>5, <1>6
  <2> HIDE DEF a, b, u
  <2>2. PassedOver(l, Unlink(l, k), a, b)
    BY <1>4, <2>1, UnlinkFacts
  <2>3. PassedOver(l, u, a, b)
    BY <2>2 DEF u
  <2>4. QED  BY <2>3 DEF PassedOver, a, b
<1>8. /\ r \in Seq(CacheKeys) /\ Len(r) = Len(s) - 1 /\ DOMAIN r = 1..(Len(s) - 1)
      /\ \A i \in 1..(Len(s) - 1) : r[i] = s[IF i < p THEN i ELSE i + 1]
  <2>1. p \in 1..Len(s) /\ s[p] = k /\ s \in Seq(CacheKeys) /\ IsInjective(s)
    BY <1>1, <1>2
  <2> HIDE DEF r
  <2>2. ASSUME NEW e, s[p] = e
        PROVE  /\ RemoveFirst(s, e) \in Seq(CacheKeys) /\ Len(RemoveFirst(s, e)) = Len(s) - 1
               /\ DOMAIN RemoveFirst(s, e) = 1..(Len(s) - 1)
               /\ \A i \in 1..(Len(s) - 1) : RemoveFirst(s, e)[i] = s[IF i < p THEN i ELSE i + 1]
    BY <2>1, <2>2, RemovedAt
  <2>3. QED  BY <2>1, <2>2 DEF r
<1>9. IsInjective(r) /\ ToSet(r) = ToSet(s) \ {k}
  BY <1>1, RemovedFirst
<1> HIDE DEF u, r
<1>10. /\ \A i \in 0..Len(s) : i < p => NodeAt(r, i) = NodeAt(s, i)
       /\ \A i \in 0..Len(s) : i >= p => NodeAt(r, i) = NodeAt(s, i + 1)
  <2>1. ASSUME NEW i \in 0..Len(s), i < p PROVE NodeAt(r, i) = NodeAt(s, i)
    <3>1. CASE i = 0
      BY <1>1, <1>8, <3>1 DEF NodeAt
    <3>2. CASE i # 0
      <4>1. i \in 1..Len(r) /\ i \in 1..Len(s)
        BY <1>1, <1>8, <2>1, <3>2
      <4>2. r[i] = s[i]
        BY <1>8, <2>1, <4>1
      <4>3. QED  BY <4>1, <4>2 DEF NodeAt
    <3>3. QED  BY <3>1, <3>2
  <2>2. ASSUME NEW i \in 0..Len(s), i >= p PROVE NodeAt(r, i) = NodeAt(s, i + 1)
    <3>1. CASE i = Len(s)
      <4>1. i \notin 1..Len(r)
        BY <1>1, <1>8, <3>1
      <4>2. QED  BY <1>1, <3>1, <4>1 DEF NodeAt
    <3>2. CASE i # Len(s)
      <4>1. i \in 1..Len(r) /\ i + 1 \in 1..Len(s) /\ ~(i < p)
        <5>1. Len(r) = Len(s) - 1 /\ Len(s) \in Nat /\ p \in 1..Len(s)
          BY <1>1, <1>8
        <5>2. QED  BY <2>2, <3>2, <5>1
      <4>2. r[i] = s[i + 1]
        BY <1>8, <4>1
      <4>3. QED  BY <4>1, <4>2 DEF NodeAt
    <3>3. QED  BY <3>1, <3>2
  <2>3. QED  BY <2>1, <2>2
<1>11. ASSUME NEW i \in 0..Len(r)
       PROVE  u[NodeAt(r, i)].next = NodeAt(r, i + 1) /\ u[NodeAt(r, i + 1)].prev = NodeAt(r, i)
  <2>1. i \in 0..Len(s) /\ i + 1 \in 0..Len(s) /\ i \in Int /\ i + 1 \in 1..(Len(s) + 1)
    BY <1>1, <1>8
  <2>2. CASE i + 1 < p
    <3>1. NodeAt(r, i) = NodeAt(s, i) /\ NodeAt(r, i + 1) = NodeAt(s, i + 1) /\ i # p - 1 /\ i + 1 # p + 1
      BY <1>3, <1>10, <2>1, <2>2
    <3>2. NodeAt(s, i) # NodeAt(s, p - 1) /\ NodeAt(s, i + 1) # NodeAt(s, p + 1)
      BY <1>1, <1>3, <2>1, <3>1
    <3>3. NodeAt(s, i) \in Nodes /\ NodeAt(s, i + 1) \in Nodes
      BY <1>1, <2>1
    <3>4. QED  BY <1>4, <1>7, <2>1, <3>1, <3>2, <3>3
  <2>3. CASE i + 1 = p
    <3>1. NodeAt(r, i) = NodeAt(s, p - 1) /\ NodeAt(r, i + 1) = NodeAt(s, p + 1)
      BY <1>3, <1>10, <2>1, <2>3
    <3>2. NodeAt(s, p - 1) \in Nodes /\ NodeAt(s, p + 1) \in Nodes
      BY <1>1, <1>3
    <3>3. QED  BY <1>7, <3>1, <3>2
  <2>4. CASE i + 1 > p
    <3>0. i >= p /\ i + 1 >= p
      BY <1>3, <2>1, <2>4
    <3>1. NodeAt(r, i) = NodeAt(s, i + 1) /\ NodeAt(r, i + 1) = NodeAt(s, (i + 1) + 1)
      BY <1>10, <2>1, <3>0
    <3>2. /\ (i + 1) + 1 \in 1..(Len(s) + 1) /\ (i + 1) + 1 # p + 1 /\ i + 1 # p - 1
          /\ (i + 1) + 1 \in Int /\ i + 1 \in Int
      BY <1>1, <1>3, <2>1, <3>0
    <3>3. NodeAt(s, i + 1) # NodeAt(s, p - 1) /\ NodeAt(s, (i + 1) + 1) # NodeAt(s, p + 1)
      BY <1>1, <1>3, <2>1, <3>2
    <3>4. NodeAt(s, i + 1) \in Nodes /\ NodeAt(s, (i + 1) + 1) \in Nodes
      BY <1>1, <3>2
    <3>5. /\ l[NodeAt(s, i + 1)].next = NodeAt(s, (i + 1) + 1)
          /\ l[NodeAt(s, (i + 1) + 1)].prev = NodeAt(s, i + 1)
      BY <1>4, <2>1
    <3>6. QED  BY <1>7, <3>1, <3>3, <3>4, <3>5
  <2>5. QED  BY <1>3, <2>1, <2>2, <2>3, <2>4
<1>12. Linked(u, r)
  BY <1>7, <1>11 DEF Linked
<1>13. KeyList(r)
  BY <1>8, <1>9 DEF KeyList
<1>14. QED  BY <1>8, <1>9, <1>12, <1>13 DEF u, r

\* In u, n stands between to and q, and everything else as in l.
Inserted(l, u, n, to, q) ==
    /\ u \in [Nodes -> [prev : Nodes, next : Nodes]]
    /\ \A k \in Nodes : /\ u[k].next = IF k = to THEN n ELSE IF k = n THEN q ELSE l[k].next
                        /\ u[k].prev = IF k = q THEN n ELSE IF k = n THEN to ELSE l[k].prev

LEMMA LinkFacts ==
  ASSUME NEW l \in [Nodes -> [prev : Nodes, next : Nodes]], NEW n \in Nodes, NEW to \in Nodes,
         NEW q \in Nodes, n # to, q # n, q = l[to].next
  PROVE  Inserted(l, LinkAfter(l, n, to), n, to, q)
<1> DEFINE l1 == [l EXCEPT ![n] = [prev |-> to, next |-> q]]
           l2 == [l1 EXCEPT ![q].prev = n]
           l3 == [l2 EXCEPT ![to].next = n]
<1>1. q \in Nodes /\ q # n
  OBVIOUS
<1>2. /\ l1 \in [Nodes -> [prev : Nodes, next : Nodes]]
      /\ \A k \in Nodes : /\ l1[k].next = IF k = n THEN q ELSE l[k].next
                          /\ l1[k].prev = IF k = n THEN to ELSE l[k].prev
  <2> DEFINE new == [prev |-> to, next |-> q]
  <2>1. new \in [prev : Nodes, next : Nodes] /\ new.next = q /\ new.prev = to
    BY <1>1
  <2>2. l1 = [l EXCEPT ![n] = new]
    OBVIOUS
  <2> HIDE DEF new, l1
  <2>3. /\ l1 \in [Nodes -> [prev : Nodes, next : Nodes]]
        /\ \A k \in Nodes : l1[k] = IF k = n THEN new ELSE l[k]
    BY <2>1, <2>2
  <2>4. QED  BY <2>1, <2>3
<1>3. l1[to].next = q
  BY <1>2
<1>4. LinkAfter(l, n, to) = l3
  BY <1>3 DEF LinkAfter
<1> HIDE DEF l1
<1>5. /\ l2 \in [Nodes -> [prev : Nodes, next : Nodes]]
      /\ \A k \in Nodes : l2[k].next = l1[k].next /\ l2[k].prev = IF k = q THEN n ELSE l1[k].prev
  <2> DEFINE new == [prev |-> n, next |-> l1[q].next]
  <2>1. l1 \in [Nodes -> [prev : Nodes, next : Nodes]] /\ l1[q] \in [prev : Nodes, next : Nodes]
    BY <1>1, <1>2
  <2>2. new \in [prev : Nodes, next : Nodes] /\ new.prev = n /\ new.next = l1[q].next
    BY <2>1
  <2>3. [l1[q] EXCEPT !.prev = n] = new
    BY <2>1
  <2>4. l2 = [l1 EXCEPT ![q] = new]
    BY <2>3
  <2> HIDE DEF new, l2
  <2>5. /\ l2 \in [Nodes -> [prev : Nodes, next : Nodes]]
        /\ \A k \in Nodes : l2[k] = IF k = q THEN new ELSE l1[k]
    BY <1>1, <2>1, <2>2, <2>4
  <2>6. QED  BY <2>2, <2>5
<1> HIDE DEF l2
<1>6. /\ l3 \in [Nodes -> [prev : Nodes, next : Nodes]]
      /\ \A k \in Nodes : l3[k].next = (IF k = to THEN n ELSE l2[k].next) /\ l3[k].prev = l2[k].prev
  <2>1. l2 \in [Nodes -> [prev : Nodes, next : Nodes]] /\ to \in Nodes /\ n \in Nodes
    BY <1>5
  <2>2. l2[to] \in [prev : Nodes, next : Nodes]
    BY <2>1
  <2>3. l3 = [l2 EXCEPT ![to] = [@ EXCEPT !.next = n]]
    OBVIOUS
  <2>4. [l2[to] EXCEPT !.next = n] = [prev |-> l2[to].prev, next |-> n]
    BY <2>2
  <2> DEFINE new == [prev |-> l2[to].prev, next |-> n]
  <2>5. new \in [prev : Nodes, next : Nodes] /\ new.next = n /\ new.prev = l2[to].prev
    BY <2>1, <2>2
  <2>6. l3 = [l2 EXCEPT ![to] = new]
    BY <2>3, <2>4
  <2> HIDE DEF new, l3
  <2>7. /\ l3 \in [Nodes -> [prev : Nodes, next : Nodes]]
        /\ \A k \in Nodes : l3[k] = IF k = to THEN new ELSE l2[k]
    BY <2>1, <2>5, <2>6
  <2>8. QED  BY <2>5, <2>7
<1> HIDE DEF l3
<1>7. ASSUME NEW k \in Nodes
      PROVE  /\ l3[k].next = IF k = to THEN n ELSE IF k = n THEN q ELSE l[k].next
             /\ l3[k].prev = IF k = q THEN n ELSE IF k = n THEN to ELSE l[k].prev
  <2>1. /\ l1[k].next = IF k = n THEN q ELSE l[k].next
        /\ l1[k].prev = IF k = n THEN to ELSE l[k].prev
    BY <1>2
  <2>2. l2[k].next = l1[k].next /\ l2[k].prev = IF k = q THEN n ELSE l1[k].prev
    BY <1>5
  <2>3. l3[k].next = (IF k = to THEN n ELSE l2[k].next) /\ l3[k].prev = l2[k].prev
    BY <1>6
  <2>4. QED  BY <2>1, <2>2, <2>3, Zenon
<1>8. Inserted(l, l3, n, to, q)
  BY <1>6, <1>7 DEF Inserted
<1>9. QED  BY <1>4, <1>8

LEMMA InFront ==
  ASSUME NEW s, KeyList(s), NEW k \in CacheKeys, k \notin ToSet(s)
  PROVE  /\ KeyList(<<k>> \o s) /\ Len(<<k>> \o s) = Len(s) + 1
         /\ ToSet(<<k>> \o s) = ToSet(s) \cup {k}
         /\ NodeAt(<<k>> \o s, 0) = Sentinel /\ NodeAt(<<k>> \o s, 1) = k
         /\ \A i \in 1..(Len(s) + 1) : NodeAt(<<k>> \o s, i + 1) = NodeAt(s, i)
<1> DEFINE t == <<k>> \o s
<1>1. s \in Seq(CacheKeys) /\ Len(s) \in Nat /\ DOMAIN s = 1..Len(s) /\ IsInjective(s)
  BY NodeFacts DEF KeyList
<1>2. /\ t \in Seq(CacheKeys) /\ Len(t) = Len(s) + 1 /\ DOMAIN t = 1..(Len(s) + 1)
      /\ t[1] = k /\ \A i \in 1..Len(s) : t[i + 1] = s[i]
  <2> DEFINE h == <<k>>
  <2>1. h \in Seq(CacheKeys) /\ Len(h) = 1 /\ h[1] = k
    OBVIOUS
  <2> HIDE DEF h
  <2>2. /\ h \o s \in Seq(CacheKeys) /\ Len(h \o s) = Len(h) + Len(s) /\ DOMAIN (h \o s) = 1..(Len(h) + Len(s))
        /\ \A i \in 1..(Len(h) + Len(s)) : (h \o s)[i] = IF i <= Len(h) THEN h[i] ELSE s[i - Len(h)]
    BY <1>1, <2>1, ConcatFacts
  <2>3. Len(h) + Len(s) = Len(s) + 1 /\ 1 \in 1..(Len(s) + 1)
        /\ \A i \in 1..Len(s) : i + 1 \in 1..(Len(s) + 1) /\ ~(i + 1 <= 1) /\ i + 1 - 1 = i
    BY <1>1, <2>1
  <2>4. (h \o s)[1] = k /\ \A i \in 1..Len(s) : (h \o s)[i + 1] = s[i]
    BY <2>1, <2>2, <2>3
  <2>5. QED  BY <2>2, <2>3, <2>4 DEF h
<1> HIDE DEF t
<1>3. \A i \in 1..(Len(s) + 1) : i = 1 \/ (i - 1 \in 1..Len(s) /\ i = (i - 1) + 1)
  BY <1>1
<1>4. ToSet(t) = ToSet(s) \cup {k}
  <2>1. \A i \in 1..(Len(s) + 1) : t[i] \in ToSet(s) \cup {k}
    <3>1. \A i \in 1..Len(s) : s[i] \in ToSet(s)
      BY <1>1 DEF ToSet
    <3>2. t[1] = k /\ \A i \in 1..(Len(s) + 1) : i # 1 => t[i] = s[i - 1] /\ i - 1 \in 1..Len(s)
      BY <1>2, <1>3
    <3>3. QED  BY <3>1, <3>2
  <2>2. 1 \in 1..(Len(s) + 1) /\ \A i \in 1..Len(s) : i + 1 \in 1..(Len(s) + 1)
    BY <1>1
  <2>3. k \in ToSet(t) /\ \A i \in 1..Len(s) : s[i] \in ToSet(t)
    BY <1>2, <2>2 DEF ToSet
  <2>4. ToSet(t) = {t[i] : i \in 1..(Len(s) + 1)} /\ ToSet(s) = {s[i] : i \in 1..Len(s)}
    BY <1>1, <1>2 DEF ToSet
  <2>5. ToSet(t) \subseteq ToSet(s) \cup {k}
    BY <2>1, <2>4
  <2>6. ToSet(s) \cup {k} \subseteq ToSet(t)
    BY <2>3, <2>4
  <2>7. QED  BY <2>5, <2>6
<1>5. IsInjective(t)
  <2>1. \A i \in 1..Len(s) : s[i] # k
    BY <1>1 DEF ToSet
  <2>2. ASSUME NEW i \in 1..(Len(s) + 1), NEW j \in 1..(Len(s) + 1), t[i] = t[j] PROVE i = j
    <3>0. ASSUME NEW x \in 1..(Len(s) + 1), x # 1 PROVE t[x] # k
      <4>1. x - 1 \in 1..Len(s) /\ x = (x - 1) + 1
        BY <1>3, <3>0
      <4>2. t[(x - 1) + 1] = s[x - 1] /\ s[x - 1] # k
        BY <1>2, <2>1, <4>1
      <4>3. QED  BY <4>1, <4>2
    <3>1. CASE i = 1 /\ j # 1
      BY <1>2, <2>2, <3>0, <3>1
    <3>2. CASE i # 1 /\ j = 1
      BY <1>2, <2>2, <3>0, <3>2
    <3>3. CASE i # 1 /\ j # 1
      <4>1. i - 1 \in 1..Len(s) /\ j - 1 \in 1..Len(s) /\ s[i - 1] = s[j - 1]
        BY <1>2, <1>3, <2>2, <3>3
      <4>2. i - 1 = j - 1
        BY <1>1, <4>1 DEF IsInjective
      <4>3. QED  BY <1>1, <4>2
    <3>4. QED  BY <3>1, <3>2, <3>3
  <2>3. QED  BY <1>2, <2>2 DEF IsInjective
<1>6. KeyList(t)
  BY <1>2, <1>5 DEF KeyList
<1>7. NodeAt(t, 0) = Sentinel /\ NodeAt(t, 1) = k
  BY <1>1, <1>2 DEF NodeAt
<1>8. ASSUME NEW i \in 1..(Len(s) + 1) PROVE NodeAt(t, i + 1) = NodeAt(s, i)
  <2>1. CASE i \in 1..Len(s)
    <3>1. i + 1 \in 1..Len(t)
      BY <1>1, <1>2, <2>1
    <3>2. QED  BY <1>2, <2>1, <3>1 DEF NodeAt
  <2>2. CASE i \notin 1..Len(s)
    <3>1. i + 1 \notin 1..Len(t)
      BY <1>1, <1>2, <2>2
    <3>2. QED  BY <2>2, <3>1 DEF NodeAt
  <2>3. QED  BY <2>1, <2>2
<1>9. QED  BY <1>2, <1>4, <1>6, <1>7, <1>8 DEF t

LEMMA LinkKeeps ==
  ASSUME NEW s, KeyList(s), NEW l, Linked(l, s), NEW k \in CacheKeys, k \notin ToSet(s)
  PROVE  Linked(LinkAfter(l, k, Sentinel), <<k>> \o s)
<1> DEFINE t == <<k>> \o s
           u == LinkAfter(l, k, Sentinel)
<1>1. /\ Len(t) = Len(s) + 1 /\ NodeAt(t, 0) = Sentinel /\ NodeAt(t, 1) = k
      /\ \A i \in 1..(Len(s) + 1) : NodeAt(t, i + 1) = NodeAt(s, i)
  BY InFront
<1>2. /\ Len(s) \in Nat /\ DOMAIN s = 1..Len(s) /\ NodeAt(s, 0) = Sentinel /\ NodeAt(s, Len(s) + 1) = Sentinel
      /\ \A i \in 1..Len(s) : NodeAt(s, i) = s[i] /\ s[i] \in CacheKeys /\ s[i] # Sentinel
      /\ \A i \in Int : NodeAt(s, i) \in Nodes
      /\ \A i, j \in 1..(Len(s) + 1) : NodeAt(s, i) = NodeAt(s, j) => i = j
  BY NodeFacts
<1>3. k # Sentinel /\ k \in Nodes /\ Sentinel \in Nodes
  BY CacheAssumption DEF Nodes
<1>4. \A i \in 1..(Len(s) + 1) : NodeAt(s, i) # k
  <2>1. \A i \in 1..Len(s) : s[i] # k
    BY <1>2 DEF ToSet
  <2>2. \A i \in 1..(Len(s) + 1) : i \in 1..Len(s) \/ i = Len(s) + 1
    BY <1>2
  <2>3. QED  BY <1>2, <1>3, <2>1, <2>2
<1>5. /\ l \in [Nodes -> [prev : Nodes, next : Nodes]]
      /\ \A i \in 0..Len(s) : l[NodeAt(s, i)].next = NodeAt(s, i + 1) /\ l[NodeAt(s, i + 1)].prev = NodeAt(s, i)
  BY DEF Linked
<1>6. l[Sentinel].next = NodeAt(s, 1) /\ 1 \in 1..(Len(s) + 1)
  <2>1. 0 \in 0..Len(s) /\ 0 + 1 = 1 /\ 1 \in 1..(Len(s) + 1)
    BY <1>2
  <2>2. QED  BY <1>2, <1>5, <2>1
<1>7. /\ u \in [Nodes -> [prev : Nodes, next : Nodes]]
      /\ \A x \in Nodes :
           /\ u[x].next = IF x = Sentinel THEN k ELSE IF x = k THEN NodeAt(s, 1) ELSE l[x].next
           /\ u[x].prev = IF x = NodeAt(s, 1) THEN k ELSE IF x = k THEN Sentinel ELSE l[x].prev
  <2> DEFINE q == NodeAt(s, 1)
  <2>1. q \in Nodes /\ q # k /\ q = l[Sentinel].next
    BY <1>2, <1>4, <1>6
  <2> HIDE DEF q, t
  <2>2. Inserted(l, u, k, Sentinel, q)
    BY <1>3, <1>5, <2>1, LinkFacts
  <2> HIDE DEF u
  <2>3. QED  BY <2>2 DEF Inserted, q
<1> HIDE DEF t, u
<1>8. ASSUME NEW i \in 0..Len(t)
      PROVE  u[NodeAt(t, i)].next = NodeAt(t, i + 1) /\ u[NodeAt(t, i + 1)].prev = NodeAt(t, i)
  <2>1. CASE i = 0
    <3>1. NodeAt(t, i) = Sentinel /\ NodeAt(t, i + 1) = k
      BY <1>1, <2>1
    <3>2. QED  BY <1>3, <1>4, <1>6, <1>7, <3>1
  <2>2. CASE i = 1
    <3>1. NodeAt(t, i) = k /\ NodeAt(t, i + 1) = NodeAt(s, 1) /\ NodeAt(s, 1) \in Nodes
      BY <1>1, <1>2, <1>6, <2>2
    <3>2. QED  BY <1>3, <1>7, <3>1
  <2>3. CASE i > 1
    <3> DEFINE j == i - 1
    <3>1. /\ j \in 1..Len(s) /\ j \in 0..Len(s) /\ j \in 1..(Len(s) + 1) /\ i = j + 1 /\ j \in Int
          /\ j + 1 \in 1..(Len(s) + 1) /\ j + 1 # 1 /\ j + 1 \in Int
      BY <1>1, <1>2, <2>3
    <3> HIDE DEF j
    <3>2. NodeAt(t, i) = NodeAt(s, j) /\ NodeAt(t, i + 1) = NodeAt(s, j + 1)
      BY <1>1, <3>1
    <3>3. NodeAt(s, j) # Sentinel /\ NodeAt(s, j) # k /\ NodeAt(s, j) \in Nodes
      BY <1>2, <1>4, <3>1
    <3>4. NodeAt(s, j + 1) # NodeAt(s, 1) /\ NodeAt(s, j + 1) # k /\ NodeAt(s, j + 1) \in Nodes
      BY <1>2, <1>4, <1>6, <3>1
    <3>5. l[NodeAt(s, j)].next = NodeAt(s, j + 1) /\ l[NodeAt(s, j + 1)].prev = NodeAt(s, j)
      BY <1>5, <3>1
    <3>6. QED  BY <1>7, <3>2, <3>3, <3>4, <3>5
  <2>4. i = 0 \/ i = 1 \/ i > 1
    BY <1>1, <1>2
  <2>5. QED  BY <2>1, <2>2, <2>3, <2>4
<1>9. QED  BY <1>7, <1>8 DEF Linked, t, u

\* From the sentinel on, the links lead through the list and back.
LEMMA FollowsList ==
  ASSUME NEW s, KeyList(s), NEW l, Linked(l, s), NEW n \in 0..(Len(s) + 1)
  PROVE  Follow(l, n) = NodeAt(s, n)
<1> DEFINE Step(f) == [i \in 0..n |-> IF i = 0 THEN Sentinel ELSE l[f[i - 1]].next]
           g == [i \in 0..n |-> NodeAt(s, i)]
           F == CHOOSE f : f = Step(f)
<1>1. Len(s) \in Nat /\ NodeAt(s, 0) = Sentinel
  BY NodeFacts
<1>2. \A i \in 0..Len(s) : l[NodeAt(s, i)].next = NodeAt(s, i + 1)
  BY DEF Linked
<1>3. \A i \in 0..n : i # 0 => i - 1 \in 0..n /\ i - 1 \in 0..Len(s) /\ (i - 1) + 1 = i
  BY <1>1
<1>4. g = Step(g)
  BY <1>1, <1>2, <1>3
<1>5. F = Step(F)
  BY <1>4
<1>6. Follow(l, n) = F[n]
  BY DEF Follow
<1> DEFINE S == {i \in Nat : i \in 0..n => F[i] = NodeAt(s, i)}
<1>7. F[0] = Sentinel /\ \A i \in 0..n : i # 0 => F[i] = l[F[i - 1]].next
  <2> HIDE DEF F
  <2>1. 0 \in 0..n
    BY <1>1
  <2>2. QED  BY <1>5, <2>1
<1> HIDE DEF F
<1>8. 0 \in S
  BY <1>1, <1>7
<1>9. ASSUME NEW i \in S PROVE i + 1 \in S
  <2>1. i \in Nat /\ i + 1 \in Nat /\ i + 1 # 0 /\ (i + 1) - 1 = i
    OBVIOUS
  <2>2. CASE i + 1 \in 0..n
    <3>1. i \in 0..n /\ i \in 0..Len(s)
      BY <1>1, <2>1, <2>2
    <3>2. F[i] = NodeAt(s, i)
      BY <1>9, <3>1
    <3>3. F[i + 1] = l[F[i]].next
      BY <1>7, <2>1, <2>2
    <3>4. QED  BY <1>2, <2>1, <3>1, <3>2, <3>3
  <2>3. CASE i + 1 \notin 0..n
    BY <2>1, <2>3
  <2>4. QED  BY <2>2, <2>3
<1>10. S = Nat
  <2>1. S \in SUBSET Nat /\ \A i \in S : i + 1 \in S
    BY <1>9
  <2> HIDE DEF S
  <2>2. QED  BY <1>8, <2>1, SetInduction
<1>11. n \in Nat /\ n \in 0..n
  BY <1>1
<1>12. F[n] = NodeAt(s, n)
  BY <1>10, <1>11
<1>13. QED  BY <1>6, <1>12

LEMMA ListLength ==
  ASSUME NEW s, KeyList(s)
  PROVE  IsFiniteSet(ToSet(s)) /\ Cardinality(ToSet(s)) = Len(s)
<1>1. /\ Len(s) \in Nat /\ DOMAIN s = 1..Len(s) /\ s \in Seq(CacheKeys)
      /\ \A i, j \in 1..Len(s) : s[i] = s[j] => i = j
  BY NodeFacts DEF KeyList, IsInjective
<1>2. s \in [1..Len(s) -> ToSet(s)]
  BY <1>1 DEF ToSet
<1>3. \A x \in ToSet(s) : \E i \in 1..Len(s) : s[i] = x
  BY <1>1 DEF ToSet
<1>4. s \in Bijection(1..Len(s), ToSet(s))
  BY <1>1, <1>2, <1>3 DEF Bijection, Injection, Surjection, IsInjective
<1>5. ExistsBijection(1..Len(s), ToSet(s))
  BY <1>4 DEF ExistsBijection
<1>6. IsFiniteSet(1..Len(s)) /\ Cardinality(1..Len(s)) = Len(s)
  <2>1. 1 \in Int /\ Len(s) \in Int
    BY <1>1
  <2>2. IsFiniteSet(1..Len(s)) /\ Cardinality(1..Len(s)) = IF 1 > Len(s) THEN 0 ELSE Len(s) - 1 + 1
    BY <2>1, FS_Interval
  <2>3. QED  BY <1>1, <2>2
<1>7. QED  BY <1>5, <1>6, FS_Bijection

LEMMA ChainIsList ==
  ASSUME NEW s, KeyList(s), NEW l, Linked(l, s)
  PROVE  [i \in 1..Len(s) |-> Follow(l, i)] = s
<1>1. Len(s) \in Nat /\ DOMAIN s = 1..Len(s) /\ s \in Seq(CacheKeys) /\ \A i \in 1..Len(s) : NodeAt(s, i) = s[i]
  BY NodeFacts DEF KeyList
<1>2. \A i \in 1..Len(s) : i \in 0..(Len(s) + 1)
  BY <1>1
<1>3. \A i \in 1..Len(s) : Follow(l, i) = s[i]
  BY <1>1, <1>2, FollowsList
<1>4. s = [i \in 1..Len(s) |-> s[i]]
  BY <1>1
<1>5. QED  BY <1>3, <1>4

\* RecencyList has operators of its own for what its instance does.
LEMMA SameRemoval ==
  \A s, k : /\ Recency!RemoveFirst(s, k) = RemoveFirst(s, k) /\ Recency!Front(s) = SubSeq(s, 1, Len(s) - 1)
            /\ Recency!Contains(s, k) <=> \E i \in 1..Len(s) : s[i] = k
<1> SUFFICES ASSUME NEW s, NEW k
             PROVE  /\ Recency!RemoveFirst(s, k) = RemoveFirst(s, k) /\ Recency!Front(s) = SubSeq(s, 1, Len(s) - 1)
                    /\ Recency!Contains(s, k) <=> \E i \in 1..Len(s) : s[i] = k
  OBVIOUS
<1>1. Recency!RemoveFirst(s, k) = RemoveFirst(s, k)
  BY DEF Recency!RemoveFirst, Recency!RemoveAt, Recency!SelectInSeq, Recency!Min, RemoveFirst, RemoveAt, SelectInSeq, Min
<1>2. Recency!Front(s) = SubSeq(s, 1, Len(s) - 1)
  BY DEF Recency!Front
<1>3. Recency!Contains(s, k) <=> \E i \in 1..Len(s) : s[i] = k
  BY DEF Recency!Contains
<1>4. QED  BY <1>1, <1>2, <1>3

\* All nodes up to the i-th unlinked, from the front.
Flushed(l, s, i) ==
    [n \in Nodes |-> [prev |-> IF \E j \in 1..(i + 1) : n = NodeAt(s, j) THEN Sentinel ELSE l[n].prev,
                      next |-> IF n = Sentinel THEN NodeAt(s, i + 1) ELSE l[n].next]]

LEMMA SameLinks ==
  ASSUME NEW u \in [Nodes -> [prev : Nodes, next : Nodes]], NEW v \in [Nodes -> [prev : Nodes, next : Nodes]],
         \A n \in Nodes : u[n].prev = v[n].prev /\ u[n].next = v[n].next
  PROVE  u = v
<1>1. \A n \in Nodes : u[n] \in [prev : Nodes, next : Nodes] /\ v[n] \in [prev : Nodes, next : Nodes]
  OBVIOUS
<1>2. \A n \in Nodes : /\ u[n] = [prev |-> u[n].prev, next |-> u[n].next]
                       /\ v[n] = [prev |-> v[n].prev, next |-> v[n].next]
  BY <1>1
<1>3. \A n \in Nodes : u[n] = v[n]
  BY <1>2
<1>4. QED  BY <1>3

LEMMA FlushedFacts ==
  ASSUME NEW s, KeyList(s), NEW l, Linked(l, s), NEW i \in 0..Len(s)
  PROVE  /\ Flushed(l, s, i) \in [Nodes -> [prev : Nodes, next : Nodes]]
         /\ \A n \in Nodes :
              /\ Flushed(l, s, i)[n].prev = IF \E j \in 1..(i + 1) : n = NodeAt(s, j) THEN Sentinel ELSE l[n].prev
              /\ Flushed(l, s, i)[n].next = IF n = Sentinel THEN NodeAt(s, i + 1) ELSE l[n].next
<1>1. l \in [Nodes -> [prev : Nodes, next : Nodes]]
  BY DEF Linked
<1>2. NodeAt(s, i + 1) \in Nodes /\ Sentinel \in Nodes
  BY NodeFacts DEF Nodes
<1>3. \A n \in Nodes : l[n].prev \in Nodes /\ l[n].next \in Nodes
  BY <1>1
<1>4. QED  BY <1>2, <1>3 DEF Flushed

LEMMA FlushStarts ==
  ASSUME NEW s, KeyList(s), NEW l, Linked(l, s)
  PROVE  Flushed(l, s, 0) = l
<1>1. l \in [Nodes -> [prev : Nodes, next : Nodes]] /\ Len(s) \in Nat /\ NodeAt(s, 0) = Sentinel
  BY NodeFacts DEF Linked
<1>2. 0 \in 0..Len(s) /\ 0 + 1 = 1 /\ 1..1 = {1}
  BY <1>1
<1>3. l[Sentinel].next = NodeAt(s, 1) /\ l[NodeAt(s, 1)].prev = Sentinel
  BY <1>1, <1>2 DEF Linked
<1>4. /\ Flushed(l, s, 0) \in [Nodes -> [prev : Nodes, next : Nodes]]
      /\ \A n \in Nodes :
           /\ Flushed(l, s, 0)[n].prev = IF \E j \in 1..(0 + 1) : n = NodeAt(s, j) THEN Sentinel ELSE l[n].prev
           /\ Flushed(l, s, 0)[n].next = IF n = Sentinel THEN NodeAt(s, 0 + 1) ELSE l[n].next
  BY <1>2, FlushedFacts
<1>5. \A n \in Nodes : Flushed(l, s, 0)[n].prev = l[n].prev /\ Flushed(l, s, 0)[n].next = l[n].next
  BY <1>2, <1>3, <1>4
<1>6. QED  BY <1>1, <1>4, <1>5, SameLinks

LEMMA FlushGoesOn ==
  ASSUME NEW s, KeyList(s), NEW l, Linked(l, s), NEW i \in 1..Len(s)
  PROVE  Unlink(Flushed(l, s, i - 1), s[i]) = Flushed(l, s, i)
<1> DEFINE m == i - 1
           u == Flushed(l, s, m)
           v == Flushed(l, s, i)
           n == s[i]
           q == NodeAt(s, i + 1)
<1>1. /\ Len(s) \in Nat /\ NodeAt(s, i) = n /\ n \in CacheKeys /\ n # Sentinel
      /\ \A j \in Int : NodeAt(s, j) \in Nodes
      /\ \A j, k \in 1..(Len(s) + 1) : NodeAt(s, j) = NodeAt(s, k) => j = k
  BY NodeFacts
<1>2. /\ i - 1 \in 0..Len(s) /\ i \in 0..Len(s) /\ (i - 1) + 1 = i /\ i \in 1..i /\ i \in Int
      /\ i \in 1..(Len(s) + 1) /\ i + 1 \in 1..(Len(s) + 1) /\ i + 1 # i /\ i + 1 \in 1..(i + 1) /\ i + 1 \in Int
  BY <1>1
<1>3. n \in Nodes /\ Sentinel \in Nodes /\ q \in Nodes /\ q # n
  BY <1>1, <1>2 DEF Nodes
<1>4. l[n].next = q
  BY <1>1, <1>2 DEF Linked
<1>5. /\ u \in [Nodes -> [prev : Nodes, next : Nodes]]
      /\ \A x \in Nodes :
           /\ u[x].prev = IF \E j \in 1..(m + 1) : x = NodeAt(s, j) THEN Sentinel ELSE l[x].prev
           /\ u[x].next = IF x = Sentinel THEN NodeAt(s, m + 1) ELSE l[x].next
  <2>1. m \in 0..Len(s)
    BY <1>2
  <2> HIDE DEF m
  <2>2. QED  BY <2>1, FlushedFacts
<1>6. /\ v \in [Nodes -> [prev : Nodes, next : Nodes]]
      /\ \A x \in Nodes :
           /\ v[x].prev = IF \E j \in 1..(i + 1) : x = NodeAt(s, j) THEN Sentinel ELSE l[x].prev
           /\ v[x].next = IF x = Sentinel THEN NodeAt(s, i + 1) ELSE l[x].next
  BY <1>2, FlushedFacts
<1> HIDE DEF u, v, n, q
<1>7. u[n].prev = Sentinel /\ u[n].next = q
  BY <1>1, <1>2, <1>3, <1>4, <1>5
<1>8. /\ Unlink(u, n) \in [Nodes -> [prev : Nodes, next : Nodes]]
      /\ \A x \in Nodes : /\ Unlink(u, n)[x].next = IF x = Sentinel THEN q ELSE u[x].next
                          /\ Unlink(u, n)[x].prev = IF x = q THEN Sentinel ELSE u[x].prev
  <2>1. PassedOver(u, Unlink(u, n), Sentinel, q)
    BY <1>1, <1>3, <1>5, <1>7, UnlinkFacts
  <2>2. QED  BY <2>1 DEF PassedOver
<1>9. ASSUME NEW x \in Nodes PROVE Unlink(u, n)[x].prev = v[x].prev /\ Unlink(u, n)[x].next = v[x].next
  <2>1. \A j \in 1..(i + 1) : j = i + 1 \/ j \in 1..i
    BY <1>2
  <2>2. \A j \in 1..i : j \in 1..(i + 1)
    BY <1>2
  <2>3. (\E j \in 1..(i + 1) : x = NodeAt(s, j)) <=> (x = q \/ \E j \in 1..i : x = NodeAt(s, j))
    BY <1>2, <2>1, <2>2 DEF q
  <2>4. Unlink(u, n)[x].prev = v[x].prev
    BY <1>2, <1>5, <1>6, <1>8, <2>3
  <2>5. Unlink(u, n)[x].next = v[x].next
    BY <1>5, <1>6, <1>8 DEF q
  <2>6. QED  BY <2>4, <2>5
<1>10. Unlink(u, n) = v
  BY <1>6, <1>8, <1>9, SameLinks
<1>11. QED  BY <1>10 DEF u, v, n

\* flush() leaves the sentinel alone.
LEMMA FlushEnds ==
  ASSUME NEW s, KeyList(s), NEW l, Linked(l, s), NEW N, N = Len(s)
  PROVE  LET f[i \in 0..N] == IF i = 0 THEN l ELSE Unlink(f[i - 1], s[i]) IN Linked(f[N], << >>)
<1> DEFINE Step(f) == [i \in 0..N |-> IF i = 0 THEN l ELSE Unlink(f[i - 1], s[i])]
           g == [i \in 0..N |-> Flushed(l, s, i)]
           F == CHOOSE f : f = Step(f)
<1>1. N \in Nat /\ NodeAt(s, N + 1) = Sentinel
  BY NodeFacts
<1>2. \A i \in 0..N : i # 0 => i - 1 \in 0..N /\ i \in 1..Len(s)
  BY <1>1
<1>3. Flushed(l, s, 0) = l /\ \A i \in 1..Len(s) : Unlink(Flushed(l, s, i - 1), s[i]) = Flushed(l, s, i)
  BY FlushStarts, FlushGoesOn
<1>4. g = Step(g)
  BY <1>2, <1>3
<1>5. F = Step(F)
  BY <1>4
<1>6. F[0] = l /\ \A i \in 0..N : i # 0 => F[i] = Unlink(F[i - 1], s[i])
  <2> HIDE DEF F
  <2>1. 0 \in 0..N
    BY <1>1
  <2>2. QED  BY <1>5, <2>1
<1> HIDE DEF F
<1> DEFINE S == {i \in Nat : i \in 0..N => F[i] = Flushed(l, s, i)}
<1>7. 0 \in S
  BY <1>3, <1>6
<1>8. ASSUME NEW i \in S PROVE i + 1 \in S
  <2>1. i \in Nat /\ i + 1 \in Nat /\ i + 1 # 0 /\ (i + 1) - 1 = i
    OBVIOUS
  <2>2. CASE i + 1 \in 0..N
    <3>1. i \in 0..N /\ i + 1 \in 1..Len(s)
      BY <1>1, <2>1, <2>2
    <3>2. F[i] = Flushed(l, s, i)
      BY <1>8, <3>1
    <3>3. F[i + 1] = Unlink(F[i], s[i + 1])
      BY <1>6, <2>1, <2>2
    <3>4. QED  BY <1>3, <2>1, <3>1, <3>2, <3>3
  <2>3. CASE i + 1 \notin 0..N
    BY <2>1, <2>3
  <2>4. QED  BY <2>2, <2>3
<1>9. S = Nat
  <2>1. S \in SUBSET Nat /\ \A i \in S : i + 1 \in S
    BY <1>8
  <2> HIDE DEF S
  <2>2. QED  BY <1>7, <2>1, SetInduction
<1>10. F[N] = Flushed(l, s, N)
  BY <1>1, <1>9
<1>11. Linked(Flushed(l, s, N), << >>)
  <2> DEFINE v == Flushed(l, s, N)
  <2>1. /\ v \in [Nodes -> [prev : Nodes, next : Nodes]]
        /\ \A x \in Nodes :
             /\ v[x].prev = IF \E j \in 1..(N + 1) : x = NodeAt(s, j) THEN Sentinel ELSE l[x].prev
             /\ v[x].next = IF x = Sentinel THEN NodeAt(s, N + 1) ELSE l[x].next
    BY <1>1, FlushedFacts
  <2> HIDE DEF v
  <2>2. N + 1 \in 1..(N + 1) /\ Sentinel \in Nodes
    BY <1>1 DEF Nodes
  <2>3. v[Sentinel].next = Sentinel /\ v[Sentinel].prev = Sentinel
    BY <1>1, <2>1, <2>2
  <2>4. \A i : NodeAt(<< >>, i) = Sentinel
    BY DEF NodeAt
  <2>5. Linked(v, << >>)
    BY <2>1, <2>3, <2>4 DEF Linked
  <2>6. QED  BY <2>5 DEF v
<1>12. Linked(F[N], << >>)
  BY <1>10, <1>11
<1>13. QED  BY <1>12 DEF F

\* The sequence s is the list of the nodes l and has the keys of d.
Holds(s, l, d) ==
    /\ KeyList(s) /\ ToSet(s) = DOMAIN d /\ Len(s) <= CacheSize /\ Linked(l, s)

\* Without the key k, if it is there.
LEMMA GoneFacts ==
  ASSUME NEW s, KeyList(s), NEW l, Linked(l, s), NEW k, NEW r, r = RemoveFirst(s, k)
  PROVE  /\ KeyList(r) /\ ToSet(r) = ToSet(s) \ {k} /\ Len(r) \in Nat /\ Len(s) \in Nat
         /\ Linked(IF k \in ToSet(s) THEN Unlink(l, k) ELSE l, r)
         /\ k \in ToSet(s) => Len(r) = Len(s) - 1
         /\ k \notin ToSet(s) => r = s
<1>1. Len(s) \in Nat /\ DOMAIN s = 1..Len(s)
  BY NodeFacts
<1>2. CASE k \in ToSet(s)
  <2>1. /\ Linked(Unlink(l, k), RemoveFirst(s, k)) /\ KeyList(RemoveFirst(s, k))
        /\ Len(RemoveFirst(s, k)) = Len(s) - 1 /\ ToSet(RemoveFirst(s, k)) = ToSet(s) \ {k}
    BY <1>2, UnlinkKeeps
  <2>2. Len(r) \in Nat
    BY <2>1, NodeFacts
  <2>3. QED  BY <1>1, <1>2, <2>1, <2>2
<1>3. CASE k \notin ToSet(s)
  <2>1. ~\E i \in 1..Len(s) : s[i] = k
    BY <1>1, <1>3 DEF ToSet
  <2>2. r = s
    BY <2>1 DEF RemoveFirst
  <2>3. QED  BY <1>1, <1>3, <2>2
<1>4. QED  BY <1>2, <1>3

\* The last of the list is the node in front of the sentinel.
LEMMA LastFacts ==
  ASSUME NEW s, KeyList(s), NEW l, Linked(l, s), Len(s) # 0
  PROVE  /\ l[Sentinel].prev = s[Len(s)] /\ s[Len(s)] \in ToSet(s)
         /\ RemoveFirst(s, s[Len(s)]) = SubSeq(s, 1, Len(s) - 1)
<1>1. /\ Len(s) \in Nat /\ DOMAIN s = 1..Len(s) /\ s \in Seq(CacheKeys) /\ IsInjective(s)
      /\ NodeAt(s, Len(s) + 1) = Sentinel /\ \A i \in 1..Len(s) : NodeAt(s, i) = s[i]
  BY NodeFacts DEF KeyList
<1>2. Len(s) \in 1..Len(s) /\ Len(s) \in 0..Len(s)
  BY <1>1
<1>3. l[Sentinel].prev = s[Len(s)]
  BY <1>1, <1>2 DEF Linked
<1>4. s[Len(s)] \in ToSet(s)
  BY <1>1, <1>2 DEF ToSet
<1> DEFINE e == s[Len(s)]
           p == Len(s)
           r == RemoveFirst(s, e)
           a == SubSeq(s, 1, Len(s) - 1)
<1>5. /\ r \in Seq(CacheKeys) /\ Len(r) = Len(s) - 1
      /\ \A i \in 1..(Len(s) - 1) : r[i] = s[IF i < p THEN i ELSE i + 1]
  <2>1. p \in 1..Len(s) /\ s[p] = e
    BY <1>2
  <2> HIDE DEF p, e
  <2>2. QED  BY <1>1, <2>1, RemovedAt
<1>6. /\ a \in Seq(CacheKeys) /\ Len(a) = Len(s) - 1 /\ \A i \in 1..(Len(s) - 1) : a[i] = s[i]
  <2> DEFINE n == Len(s) - 1
  <2>1. 1 \in Nat \ {0} /\ n \in Nat /\ 1 <= n + 1 /\ n <= Len(s) /\ n - 1 + 1 = n /\ \A i \in 1..n : 1 + i - 1 = i
    BY <1>1
  <2> HIDE DEF n
  <2>2. /\ SubSeq(s, 1, n) \in Seq(CacheKeys) /\ Len(SubSeq(s, 1, n)) = n - 1 + 1
        /\ \A i \in 1..(n - 1 + 1) : SubSeq(s, 1, n)[i] = s[1 + i - 1]
    BY <1>1, <2>1, SubSeqFacts
  <2>3. Len(SubSeq(s, 1, n)) = n /\ \A i \in 1..n : SubSeq(s, 1, n)[i] = s[i]
    BY <2>1, <2>2
  <2>4. QED  BY <2>2, <2>3 DEF n
<1> HIDE DEF a, r
<1>7. Len(r) = Len(a) /\ \A i \in 1..Len(r) : r[i] = a[i]
  <2>1. \A i \in 1..(Len(s) - 1) : i < p
    BY <1>1
  <2>2. QED  BY <1>5, <1>6, <2>1
<1>8. r = a
  BY <1>5, <1>6, <1>7, SeqEqual
<1>9. QED  BY <1>3, <1>4, <1>8 DEF r, a

\* What one step does to the list.
ListSteps(s, t) ==
    \/ t = << >>
    \/ \E k \in CacheKeys :
         \/ Len(RemoveFirst(s, k)) < CacheSize /\ t = <<k>> \o RemoveFirst(s, k)
         \/ Len(s) = CacheSize /\ k \notin ToSet(s) /\ t = <<k>> \o SubSeq(s, 1, Len(s) - 1)
         \/ t = RemoveFirst(s, k)

LEMMA GetKeepsList ==
  ASSUME NEW s, Holds(s, links, lruData), NEW k \in CacheKeys, GetCached(k)
  PROVE  \E t : Holds(t, links', lruData') /\ (t = s \/ ListSteps(s, t))
<1> DEFINE r == RemoveFirst(s, k)
<1>1. KeyList(s) /\ ToSet(s) = DOMAIN lruData /\ Len(s) <= CacheSize /\ Linked(links, s)
  BY DEF Holds
<1>2. /\ KeyList(r) /\ ToSet(r) = ToSet(s) \ {k} /\ Len(r) \in Nat /\ Len(s) \in Nat
      /\ Linked(IF k \in ToSet(s) THEN Unlink(links, k) ELSE links, r)
      /\ k \in ToSet(s) => Len(r) = Len(s) - 1
  BY <1>1, GoneFacts
<1>3. CacheSize \in Nat \ {0}
  BY CacheAssumption
<1> HIDE DEF r
<1>4. CASE k \notin DOMAIN lruData
  <2>1. links' = links /\ lruData' = lruData
    BY <1>4 DEF GetCached
  <2>2. QED  BY <2>1
<1>5. CASE k \in DOMAIN lruData /\ Fresh(lruData, k)
  <2>1. links' = LinkAfter(Unlink(links, k), k, Sentinel) /\ lruData' = lruData
    BY <1>5 DEF GetCached
  <2>2. Linked(Unlink(links, k), r) /\ k \notin ToSet(r)
    BY <1>1, <1>2, <1>5
  <2>3. Linked(LinkAfter(Unlink(links, k), k, Sentinel), <<k>> \o r)
    BY <1>2, <2>2, LinkKeeps
  <2>4. KeyList(<<k>> \o r) /\ Len(<<k>> \o r) = Len(r) + 1 /\ ToSet(<<k>> \o r) = ToSet(r) \cup {k}
    BY <1>2, <2>2, InFront
  <2>5. Len(<<k>> \o r) = Len(s) /\ Len(r) < CacheSize
    BY <1>1, <1>2, <1>3, <1>5, <2>4
  <2>6. ToSet(<<k>> \o r) = DOMAIN lruData'
    BY <1>1, <1>2, <1>5, <2>1, <2>4
  <2>7. Holds(<<k>> \o r, links', lruData')
    BY <1>1, <2>1, <2>3, <2>4, <2>5, <2>6 DEF Holds
  <2>8. ListSteps(s, <<k>> \o r)
    BY <2>5 DEF ListSteps, r
  <2>9. QED  BY <2>7, <2>8
<1>6. CASE k \in DOMAIN lruData /\ ~Fresh(lruData, k)
  <2>1. links' = Unlink(links, k) /\ lruData' = Without(lruData, {k})
    BY <1>6 DEF GetCached
  <2>2. ToSet(r) = DOMAIN lruData'
    BY <1>1, <1>2, <2>1 DEF Without
  <2>3. Len(r) <= CacheSize
    BY <1>1, <1>2, <1>3, <1>6
  <2>4. Holds(r, links', lruData')
    BY <1>1, <1>2, <1>6, <2>1, <2>2, <2>3 DEF Holds
  <2>5. ListSteps(s, r)
    BY DEF ListSteps, r
  <2>6. QED  BY <2>4, <2>5
<1>7. QED  BY <1>4, <1>5, <1>6

LEMMA PutKeepsList ==
  ASSUME NEW s, Holds(s, links, lruData), NEW k \in CacheKeys, NEW ttl, PutCached(k, ttl)
  PROVE  \E t : Holds(t, links', lruData') /\ ListSteps(s, t)
<1> DEFINE r == RemoveFirst(s, k)
           l1 == IF k \in DOMAIN lruData THEN Unlink(links, k) ELSE links
           d1 == Without(lruData, {k})
           oldest == l1[Sentinel].prev
<1>1. KeyList(s) /\ ToSet(s) = DOMAIN lruData /\ Len(s) <= CacheSize /\ Linked(links, s)
  BY DEF Holds
<1>2. /\ KeyList(r) /\ ToSet(r) = ToSet(s) \ {k} /\ Len(r) \in Nat /\ Len(s) \in Nat
      /\ Linked(l1, r)
      /\ k \in ToSet(s) => Len(r) = Len(s) - 1
      /\ k \notin ToSet(s) => r = s
  BY <1>1, GoneFacts
<1>3. CacheSize \in Nat \ {0}
  BY CacheAssumption
<1>4. DOMAIN d1 = ToSet(r)
  BY <1>1, <1>2 DEF Without
<1>5. Cardinality(DOMAIN d1) = Len(r)
  BY <1>2, <1>4, ListLength
<1>6. CASE Len(r) < CacheSize
  <2>1. links' = LinkAfter(l1, k, Sentinel) /\ lruData' = With(d1, k, cacheTime + ttl)
    BY <1>2, <1>3, <1>5, <1>6 DEF PutCached
  <2> HIDE DEF r, l1, d1
  <2>2. Linked(LinkAfter(l1, k, Sentinel), <<k>> \o r)
    BY <1>2, LinkKeeps
  <2>3. KeyList(<<k>> \o r) /\ Len(<<k>> \o r) = Len(r) + 1 /\ ToSet(<<k>> \o r) = ToSet(r) \cup {k}
    BY <1>2, InFront
  <2>4. ToSet(<<k>> \o r) = DOMAIN lruData'
    BY <1>4, <2>1, <2>3 DEF With
  <2>5. Len(<<k>> \o r) <= CacheSize
    BY <1>2, <1>3, <1>6, <2>3
  <2>6. Holds(<<k>> \o r, links', lruData')
    BY <2>1, <2>2, <2>3, <2>4, <2>5 DEF Holds
  <2>7. ListSteps(s, <<k>> \o r)
    BY <1>6 DEF ListSteps, r
  <2>8. QED  BY <2>6, <2>7
<1>7. CASE ~(Len(r) < CacheSize)
  <2>1. k \notin ToSet(s) /\ r = s /\ Len(s) = CacheSize /\ Len(s) # 0
    BY <1>1, <1>2, <1>3, <1>7
  <2>2. /\ links' = LinkAfter(Unlink(l1, oldest), k, Sentinel)
        /\ lruData' = With(Without(d1, {oldest}), k, cacheTime + ttl)
    BY <1>2, <1>3, <1>5, <1>7 DEF PutCached
  <2> HIDE DEF r, l1, d1
  <2> DEFINE q == SubSeq(s, 1, Len(s) - 1)
  <2>3. oldest = s[Len(s)] /\ oldest \in ToSet(s) /\ RemoveFirst(s, s[Len(s)]) = q
    BY <1>2, <2>1, LastFacts
  <2>4. RemoveFirst(s, oldest) = q
    BY <2>3
  <2> HIDE DEF oldest, q
  <2>5. Linked(Unlink(l1, oldest), q) /\ KeyList(q) /\ Len(q) = Len(s) - 1 /\ ToSet(q) = ToSet(s) \ {oldest}
    BY <1>2, <2>1, <2>3, <2>4, UnlinkKeeps
  <2>6. k \notin ToSet(q)
    BY <2>1, <2>5
  <2>7. Linked(LinkAfter(Unlink(l1, oldest), k, Sentinel), <<k>> \o q)
    BY <2>5, <2>6, LinkKeeps
  <2>8. KeyList(<<k>> \o q) /\ Len(<<k>> \o q) = Len(q) + 1 /\ ToSet(<<k>> \o q) = ToSet(q) \cup {k}
    BY <2>5, <2>6, InFront
  <2>9. ToSet(<<k>> \o q) = DOMAIN lruData'
    BY <1>4, <2>1, <2>2, <2>5, <2>8 DEF With, Without
  <2>10. Len(<<k>> \o q) <= CacheSize
    BY <1>2, <1>3, <2>1, <2>5, <2>8
  <2>11. Holds(<<k>> \o q, links', lruData')
    BY <2>2, <2>7, <2>8, <2>9, <2>10 DEF Holds
  <2>12. ListSteps(s, <<k>> \o q)
    BY <2>1 DEF ListSteps, q
  <2>13. QED  BY <2>11, <2>12
<1>8. QED  BY <1>6, <1>7

LEMMA FlushKeyKeepsList ==
  ASSUME NEW s, Holds(s, links, lruData), NEW k \in CacheKeys, FlushKey(k)
  PROVE  \E t : Holds(t, links', lruData') /\ ListSteps(s, t)
<1> DEFINE r == RemoveFirst(s, k)
<1>1. KeyList(s) /\ ToSet(s) = DOMAIN lruData /\ Len(s) <= CacheSize /\ Linked(links, s)
  BY DEF Holds
<1>2. /\ KeyList(r) /\ ToSet(r) = ToSet(s) \ {k} /\ Len(r) \in Nat /\ Len(s) \in Nat
      /\ Linked(IF k \in ToSet(s) THEN Unlink(links, k) ELSE links, r)
      /\ k \in ToSet(s) => Len(r) = Len(s) - 1
      /\ k \notin ToSet(s) => r = s
  BY <1>1, GoneFacts
<1>3. CacheSize \in Nat \ {0}
  BY CacheAssumption
<1> HIDE DEF r
<1>4. /\ lruData' = Without(lruData, {k})
      /\ links' = IF k \in ToSet(s) THEN Unlink(links, k) ELSE links
  BY <1>1 DEF FlushKey
<1>5. ToSet(r) = DOMAIN lruData'
  BY <1>1, <1>2, <1>4 DEF Without
<1>6. Len(r) <= CacheSize
  BY <1>1, <1>2, <1>3
<1>7. Holds(r, links', lruData')
  BY <1>1, <1>2, <1>4, <1>5, <1>6 DEF Holds
<1>8. ListSteps(s, r)
  BY DEF ListSteps, r
<1>9. QED  BY <1>7, <1>8

\* The nodes, seen from the sentinel, are the list.
LEMMA ChainOf ==
  ASSUME NEW s, NEW l, NEW d, Holds(s, l, d)
  PROVE  Cardinality(DOMAIN d) = Len(s) /\ [i \in 1..Cardinality(DOMAIN d) |-> Follow(l, i)] = s
<1>1. KeyList(s) /\ ToSet(s) = DOMAIN d /\ Linked(l, s)
  BY DEF Holds
<1>2. Cardinality(DOMAIN d) = Len(s)
  BY <1>1, ListLength
<1>3. [i \in 1..Len(s) |-> Follow(l, i)] = s
  BY <1>1, ChainIsList
<1>4. QED  BY <1>2, <1>3

LEMMA EmptyList ==
  ASSUME NEW l, NEW d, Linked(l, << >>), DOMAIN d = {}
  PROVE  Holds(<< >>, l, d)
<1>1. << >> \in Seq(CacheKeys) /\ Len(<< >>) = 0 /\ DOMAIN << >> = {}
  OBVIOUS
<1>2. KeyList(<< >>) /\ ToSet(<< >>) = {}
  BY <1>1 DEF KeyList, IsInjective, ToSet
<1>3. 0 <= CacheSize
  BY CacheAssumption
<1>4. QED  BY <1>1, <1>2, <1>3 DEF Holds

LEMMA FlushAllEmpties ==
  ASSUME NEW s, Holds(s, links, lruData), FlushAll
  PROVE  Holds(<< >>, links', lruData')
<1> DEFINE N == Cardinality(DOMAIN lruData)
<1>1. KeyList(s) /\ Linked(links, s)
  BY DEF Holds
<1>2. N = Len(s) /\ Chain(links) = s
  BY ChainOf DEF Chain
<1>3. lruData' = << >> /\ DOMAIN lruData' = {}
  BY DEF FlushAll
<1>4. Linked(links', << >>)
  <2>1. LET f[i \in 0..N] == IF i = 0 THEN links ELSE Unlink(f[i - 1], s[i]) IN Linked(f[N], << >>)
    BY <1>1, <1>2, FlushEnds
  <2>2. links' = LET f[i \in 0..N] == IF i = 0 THEN links ELSE Unlink(f[i - 1], s[i]) IN f[N]
    BY <1>2 DEF FlushAll
  <2>3. QED  BY <2>1, <2>2
<1>5. QED  BY <1>3, <1>4, EmptyList

\* An answer that LRUCache still has for fresh, Cache has too.
FreshAgree ==
    /\ cacheTime \in Nat
    /\ \A k \in DOMAIN lruData : lruData[k] \in Nat
    /\ \A k \in DOMAIN lruData : Fresh(lruData, k) => Fresh(cacheData, k) /\ lruData[k] = cacheData[k]
    /\ got.lru # 0 => got.lru = got.cache

CacheInv == FreshAgree /\ \E s : Holds(s, links, lruData)

LEMMA CleanedKeepsFresh ==
  ASSUME FreshAgree, NEW k \in DOMAIN lruData, Fresh(lruData, k)
  PROVE  k \in DOMAIN Cleaned /\ Cleaned[k] = lruData[k]
<1>1. k \in DOMAIN cacheData /\ cacheData[k] = lruData[k] /\ lruData[k] \in Nat /\ lruData[k] > cacheTime /\ cacheTime \in Nat
  BY DEF FreshAgree, Fresh
<1>2. ~(cacheData[k] <= cacheTime)
  BY <1>1
<1>3. QED  BY <1>1, <1>2 DEF Cleaned, Without

LEMMA FreshStep ==
  ASSUME FreshAgree, [CacheNext]_cacheVars, \E s : Holds(s, links, lruData)
  PROVE  FreshAgree'
<1>1. /\ cacheTime \in Nat
      /\ \A k \in DOMAIN lruData : lruData[k] \in Nat
      /\ \A k \in DOMAIN lruData : Fresh(lruData, k) => Fresh(cacheData, k) /\ lruData[k] = cacheData[k]
      /\ got.lru # 0 => got.lru = got.cache
  BY DEF FreshAgree
<1>2. CASE UNCHANGED cacheVars
  BY <1>1, <1>2 DEF FreshAgree, Fresh, cacheVars
<1>3. ASSUME NEW k \in CacheKeys, GetCached(k) PROVE FreshAgree'
  <2>1. /\ cacheTime' = cacheTime /\ cacheData' = Cleaned /\ DOMAIN lruData' \subseteq DOMAIN lruData
        /\ \A j \in DOMAIN lruData' : lruData'[j] = lruData[j]
    BY <1>3 DEF GetCached, Without
  <2>2. got' = [cache |-> IF Fresh(cacheData', k) THEN cacheData'[k] ELSE 0,
                lru   |-> IF Fresh(lruData, k) THEN lruData[k] ELSE 0]
    BY <1>3 DEF GetCached
  <2>3. ASSUME NEW j \in DOMAIN lruData, Fresh(lruData, j)
        PROVE  j \in DOMAIN cacheData' /\ cacheData'[j] = lruData[j] /\ cacheData'[j] > cacheTime
    BY <2>1, <2>3, CleanedKeepsFresh DEF Fresh
  <2>4. got'.lru # 0 => got'.lru = got'.cache
    <3>1. CASE Fresh(lruData, k)
      <4>1. k \in DOMAIN lruData
        BY <3>1 DEF Fresh
      <4>2. Fresh(cacheData', k) /\ cacheData'[k] = lruData[k]
        BY <2>3, <3>1, <4>1 DEF Fresh
      <4>3. QED  BY <2>2, <3>1, <4>2
    <3>2. CASE ~Fresh(lruData, k)
      BY <2>2, <3>2
    <3>3. QED  BY <3>1, <3>2
  <2>5. QED  BY <1>1, <2>1, <2>3, <2>4 DEF FreshAgree, Fresh
<1>4. ASSUME NEW k \in CacheKeys, NEW ttl \in 0..MaxAnswerTtl, PutCached(k, ttl) PROVE FreshAgree'
  <2> DEFINE late == cacheTime + ttl
  <2>1. late \in Nat
    BY <1>1, CacheAssumption
  <2>2. cacheData' = With(Cleaned, k, late) /\ cacheTime' = cacheTime /\ got' = got
    BY <1>4 DEF PutCached
  <2>3. PICK d : lruData' = With(d, k, late) /\ DOMAIN d \subseteq DOMAIN lruData \ {k} /\ \A j \in DOMAIN d : d[j] = lruData[j]
    <3>1. \E K : lruData' = With(Without(Without(lruData, {k}), K), k, late)
      <4> DEFINE had == k \in DOMAIN lruData
                 l1 == IF had THEN Unlink(links, k) ELSE links
                 d1 == Without(lruData, {k})
                 oldest == l1[Sentinel].prev
      <4>1. CASE Cardinality(DOMAIN d1) >= CacheSize
        <5>1. lruData' = With(Without(d1, {oldest}), k, late)
          BY <1>4, <4>1 DEF PutCached
        <5>2. QED  BY <5>1
      <4>2. CASE ~(Cardinality(DOMAIN d1) >= CacheSize)
        <5>1. lruData' = With(d1, k, late)
          BY <1>4, <4>2 DEF PutCached
        <5>2. d1 = Without(d1, {})
          BY DEF Without
        <5>3. QED  BY <5>1, <5>2
      <4>3. QED  BY <4>1, <4>2
    <3> HIDE DEF late
    <3>2. PICK K : lruData' = With(Without(Without(lruData, {k}), K), k, late)
      BY <3>1
    <3> DEFINE e == Without(Without(lruData, {k}), K)
    <3>3. DOMAIN e \subseteq DOMAIN lruData \ {k} /\ \A j \in DOMAIN e : e[j] = lruData[j]
      BY DEF Without
    <3>4. QED  BY <3>2, <3>3
  <2> HIDE DEF late
  <2>4. /\ DOMAIN lruData' = DOMAIN d \cup {k} /\ lruData'[k] = late
        /\ \A j \in DOMAIN d : lruData'[j] = lruData[j] /\ j \in DOMAIN lruData /\ j # k
    BY <2>3 DEF With
  <2>5. /\ k \in DOMAIN cacheData' /\ cacheData'[k] = late
        /\ \A j \in DOMAIN Cleaned : j # k => j \in DOMAIN cacheData' /\ cacheData'[j] = Cleaned[j]
    BY <2>2 DEF With
  <2>6. ASSUME NEW j \in DOMAIN d, Fresh(lruData, j)
        PROVE  j \in DOMAIN cacheData' /\ cacheData'[j] = lruData[j]
    BY <2>4, <2>5, <2>6, CleanedKeepsFresh
  <2>7. ASSUME NEW j \in DOMAIN lruData', lruData'[j] > cacheTime
        PROVE  j \in DOMAIN cacheData' /\ cacheData'[j] = lruData'[j]
    <3>1. CASE j = k
      BY <2>4, <2>5, <3>1
    <3>2. CASE j # k
      <4>1. j \in DOMAIN d /\ Fresh(lruData, j)
        BY <2>4, <2>7, <3>2 DEF Fresh
      <4>2. QED  BY <2>4, <2>6, <4>1
    <3>3. QED  BY <3>1, <3>2
  <2>8. \A j \in DOMAIN lruData' : lruData'[j] \in Nat
    BY <1>1, <2>1, <2>4
  <2>9. QED  BY <1>1, <2>2, <2>7, <2>8 DEF FreshAgree, Fresh
<1>5. ASSUME NEW k \in CacheKeys, FlushKey(k) PROVE FreshAgree'
  <2>1. /\ cacheTime' = cacheTime /\ got' = got
        /\ cacheData' = Without(cacheData, {k}) /\ lruData' = Without(lruData, {k})
    BY <1>5 DEF FlushKey
  <2>2. /\ \A j \in DOMAIN lruData' : j # k /\ j \in DOMAIN lruData /\ lruData'[j] = lruData[j]
        /\ \A j \in DOMAIN cacheData : j # k => j \in DOMAIN cacheData' /\ cacheData'[j] = cacheData[j]
    BY <2>1 DEF Without
  <2>3. QED  BY <1>1, <2>1, <2>2 DEF FreshAgree, Fresh
<1>6. CASE FlushAll
  <2>1. lruData' = << >> /\ cacheTime' = cacheTime /\ got' = got /\ DOMAIN lruData' = {}
    BY <1>6 DEF FlushAll
  <2>2. QED  BY <1>1, <2>1 DEF FreshAgree
<1>7. CASE CacheTimePasses
  <2>1. /\ cacheTime' = cacheTime + 1 /\ UNCHANGED <<cacheData, lruData, got>>
    BY <1>7 DEF CacheTimePasses
  <2>2. \A j \in DOMAIN lruData : lruData[j] > cacheTime + 1 => lruData[j] > cacheTime
    BY <1>1
  <2>3. QED  BY <1>1, <2>1, <2>2 DEF FreshAgree, Fresh
<1>8. QED  BY <1>2, <1>3, <1>4, <1>5, <1>6, <1>7 DEF CacheNext

LEMMA ListStep ==
  ASSUME NEW s, Holds(s, links, lruData), [CacheNext]_cacheVars
  PROVE  \E t : Holds(t, links', lruData') /\ (t = s \/ ListSteps(s, t))
<1>1. CASE UNCHANGED cacheVars \/ CacheTimePasses
  BY <1>1 DEF cacheVars, CacheTimePasses
<1>2. ASSUME NEW k \in CacheKeys, GetCached(k)
      PROVE  \E t : Holds(t, links', lruData') /\ (t = s \/ ListSteps(s, t))
  BY <1>2, GetKeepsList
<1>3. ASSUME NEW k \in CacheKeys, NEW ttl \in 0..MaxAnswerTtl, PutCached(k, ttl)
      PROVE  \E t : Holds(t, links', lruData') /\ ListSteps(s, t)
  BY <1>3, PutKeepsList
<1>4. ASSUME NEW k \in CacheKeys, FlushKey(k)
      PROVE  \E t : Holds(t, links', lruData') /\ ListSteps(s, t)
  BY <1>4, FlushKeyKeepsList
<1>5. ASSUME FlushAll PROVE Holds(<< >>, links', lruData') /\ ListSteps(s, << >>)
  BY <1>5, FlushAllEmpties DEF ListSteps
<1>6. QED  BY <1>1, <1>2, <1>3, <1>4, <1>5 DEF CacheNext

LEMMA CacheStarts ==
  ASSUME CacheInit
  PROVE  CacheInv /\ Chain(links) = << >>
<1>1. /\ cacheTime = 0 /\ lruData = << >> /\ got = [cache |-> 0, lru |-> 0]
      /\ links = [n \in Nodes |-> [prev |-> n, next |-> n]] /\ DOMAIN lruData = {}
  BY DEF CacheInit
<1>2. FreshAgree
  BY <1>1 DEF FreshAgree
<1>3. Linked(links, << >>)
  <2>1. \A i : NodeAt(<< >>, i) = Sentinel
    BY DEF NodeAt
  <2>2. Sentinel \in Nodes
    BY DEF Nodes
  <2>3. QED  BY <1>1, <2>1, <2>2 DEF Linked
<1>4. Holds(<< >>, links, lruData)
  BY <1>1, <1>3, EmptyList
<1>5. Chain(links) = << >>
  BY <1>4, ChainOf DEF Chain
<1>6. QED  BY <1>2, <1>4, <1>5 DEF CacheInv

LEMMA CacheGoesOn ==
  ASSUME CacheInv, [CacheNext]_cacheVars
  PROVE  CacheInv' /\ [Recency!RecencyNext]_(Chain(links))
<1>1. PICK s : Holds(s, links, lruData)
  BY DEF CacheInv
<1>2. FreshAgree'
  BY <1>1, FreshStep DEF CacheInv
<1>3. PICK t : Holds(t, links', lruData') /\ (t = s \/ ListSteps(s, t))
  BY <1>1, ListStep
<1>4. CacheInv'
  BY <1>2, <1>3 DEF CacheInv
<1>5. Chain(links) = s /\ Chain(links)' = t
  BY <1>1, <1>3, ChainOf DEF Chain
<1>6. ASSUME t = s PROVE UNCHANGED Chain(links)
  BY <1>5, <1>6
<1>7. ASSUME t = << >> PROVE Recency!RecencyNext
  BY <1>5, <1>7 DEF Recency!RecencyNext
<1>8. ASSUME NEW k \in CacheKeys, Len(RemoveFirst(s, k)) < CacheSize, t = <<k>> \o RemoveFirst(s, k)
      PROVE  Recency!RecencyNext
  <2>1. Recency!Added(k)
    BY <1>5, <1>8, SameRemoval DEF Recency!Added, Recency!Used
  <2>2. QED  BY <2>1 DEF Recency!RecencyNext
<1>9. ASSUME NEW k \in CacheKeys, Len(s) = CacheSize, k \notin ToSet(s), t = <<k>> \o SubSeq(s, 1, Len(s) - 1)
      PROVE  Recency!RecencyNext
  <2>1. DOMAIN s = 1..Len(s)
    BY <1>1, NodeFacts DEF Holds
  <2>2. ~\E i \in 1..Len(s) : s[i] = k
    BY <1>9, <2>1 DEF ToSet
  <2>3. Recency!PushedOut(k)
    BY <1>5, <1>9, <2>2, SameRemoval DEF Recency!PushedOut
  <2>4. QED  BY <2>3 DEF Recency!RecencyNext
<1>10. ASSUME NEW k \in CacheKeys, t = RemoveFirst(s, k)
       PROVE  Recency!RecencyNext
  <2>1. Recency!Dropped(k)
    BY <1>5, <1>10, SameRemoval DEF Recency!Dropped
  <2>2. QED  BY <2>1 DEF Recency!RecencyNext
<1>11. (t = s) \/ Recency!RecencyNext
  BY <1>3, <1>7, <1>8, <1>9, <1>10 DEF ListSteps
<1>12. QED  BY <1>4, <1>6, <1>11

LEMMA CachesAgreeThen ==
  ASSUME CacheInv
  PROVE  CachesAgree
<1>1. PICK s : Holds(s, links, lruData)
  BY DEF CacheInv
<1>2. KeyList(s) /\ ToSet(s) = DOMAIN lruData /\ Len(s) <= CacheSize /\ Linked(links, s)
  BY <1>1 DEF Holds
<1>3. Cardinality(DOMAIN lruData) = Len(s)
  BY <1>1, ChainOf
<1>4. /\ Len(s) \in Nat /\ DOMAIN s = 1..Len(s) /\ NodeAt(s, Len(s) + 1) = Sentinel
      /\ \A i \in 1..Len(s) : NodeAt(s, i) = s[i]
  BY <1>2, NodeFacts
<1>5. \A i \in 0..(Len(s) + 1) : Follow(links, i) = NodeAt(s, i)
  BY <1>2, FollowsList
<1>6. \A i \in 1..Len(s) : Follow(links, i) = s[i]
  <2>1. \A i \in 1..Len(s) : i \in 0..(Len(s) + 1)
    BY <1>4
  <2>2. QED  BY <1>4, <1>5, <2>1
<1>7. {Follow(links, i) : i \in 1..Len(s)} = DOMAIN lruData
  BY <1>2, <1>4, <1>6 DEF ToSet
<1>8. Follow(links, Len(s) + 1) = Sentinel
  BY <1>4, <1>5
<1>9. \A i \in 0..Len(s) : links[Follow(links, i + 1)].prev = Follow(links, i)
  <2>1. \A i \in 0..Len(s) : i \in 0..(Len(s) + 1) /\ i + 1 \in 0..(Len(s) + 1)
    BY <1>4
  <2>2. \A i \in 0..Len(s) : links[NodeAt(s, i + 1)].prev = NodeAt(s, i)
    BY <1>2 DEF Linked
  <2>3. QED  BY <1>5, <2>1, <2>2
<1>10. QED  BY <1>2, <1>3, <1>7, <1>8, <1>9 DEF CachesAgree, CacheInv, FreshAgree

\* LRUCache is a list by last use: its dictionary and its doubly linked list
\* hold the same keys, the one used last in front, whatever was put, used,
\* replaced or flushed before, only the last of a full list is pushed out, and
\* what it returns is what the unbounded Cache would.
THEOREM LruIsARecencyList == CacheSpec => CachesSound
<1>1. CacheInit => CacheInv /\ Chain(links) = << >>
  BY CacheStarts
<1>2. CacheInv /\ [CacheNext]_cacheVars => CacheInv' /\ [Recency!RecencyNext]_(Chain(links))
  BY CacheGoesOn
<1>3. CacheInv => CachesAgree
  BY CachesAgreeThen
<1>4. QED  BY <1>1, <1>2, <1>3, PTL DEF CacheSpec, CachesSound, LruIsRecencyList, Recency!RecencySpec

-----------------------------------------------------------------------------
(* QuicStreams.  Of each stream the invariant adds up the octets that are   *)
(* buffered, were taken, are about to be stored and are yet to come; a step *)
(* of one query is one of its own stream.  Where a thread's put() has met   *)
(* have() or get() nothing is said of the octets; tasks never get there.    *)

Receivers ==
    [at : {"idle", "checking", "short", "found", "taking", "falling_asleep", "waiting", "received", "over"},
     reading : {"length", "answer"}, held : Int, expecting : Nat, notified : BOOLEAN,
     result : {"none", "answer", "nothing", "cancelled", "UnexpectedEOF"}]
Buffers == [octets : Int, seenEnd : BOOLEAN]
Puts == [step : {"none", "storing", "stored", "notifying"}, held : Int, octets : Nat, end : BOOLEAN]
Gifts == [octets : 0..WholeSize, end : BOOLEAN]

QuicTypes ==
    /\ stream \in [QuicQueries -> Receivers] /\ buffer \in [QuicQueries -> Buffers]
    /\ put \in [QuicQueries -> Puts] /\ given \in [QuicQueries -> Gifts]
    /\ torn \in [QuicQueries -> BOOLEAN] /\ streams \subseteq QuicQueries

\* Before the handshake there is no stream.
Beginning == (worker = "idle" => ~handshaken) /\ (~handshaken => \A q \in QuicQueries : stream[q].at = "idle")

\* What holds of a stream however the steps of threads fall.
StreamPlace(q) ==
    /\ q \in streams <=> stream[q].at \notin {"idle", "over"}
    /\ stream[q].at = "idle" =>
         /\ given[q].octets = 0 /\ buffer[q] = [octets |-> 0, seenEnd |-> FALSE] /\ put[q].step = "none"
         /\ stream[q].reading = "length" /\ ~torn[q]
    /\ stream[q].at \notin {"received", "over"} => stream[q].result = "none"
    /\ put[q].end => given[q].end
    /\ q \in streams /\ buffer[q].seenEnd => given[q].end /\ put[q].step # "storing"
    /\ quicBackend # "sync" =>
         ~torn[q] /\ stream[q].at \notin {"short", "found", "taking"} /\ put[q].step \notin {"storing", "stored"}

\* What holds of one where they did not meet.
StreamCount(q) == ~torn[q] =>
    /\ q \in streams => buffer[q].octets + OctetsTaken(stream[q]) + Unstored(put[q]) = given[q].octets
    /\ stream[q].at = "found" => buffer[q].octets >= Amount(stream[q])
    /\ stream[q].at = "taking" => stream[q].held >= Amount(stream[q])
    /\ stream[q].result = "answer" => given[q].octets = WholeSize
    /\ stream[q].result = "UnexpectedEOF" => given[q].end /\ given[q].octets < WholeSize

QuicInv == QuicTypes /\ Beginning /\ \A q \in QuicQueries : StreamPlace(q) /\ StreamCount(q)

\* The stream of r stays as it is.
SameStream(r) ==
    /\ stream'[r] = stream[r] /\ buffer'[r] = buffer[r] /\ put'[r] = put[r] /\ given'[r] = given[r]
    /\ torn'[r] = torn[r] /\ (r \in streams' <=> r \in streams)

\* A step of one query leaves the others alone.
LEMMA OneStream ==
  ASSUME QuicInv, NEW q \in QuicQueries, QuicTypes', Beginning', quicBackend' = quicBackend,
         \A r \in QuicQueries : r # q => SameStream(r), StreamPlace(q)', StreamCount(q)'
  PROVE  QuicInv'
<1>1. ASSUME NEW r \in QuicQueries PROVE StreamPlace(r)' /\ StreamCount(r)'
  <2>1. CASE r = q
    BY <2>1
  <2>2. CASE r # q
    <3>1. SameStream(r) /\ StreamPlace(r) /\ StreamCount(r)
      BY <2>2 DEF QuicInv
    <3>2. QED  BY <3>1 DEF SameStream, StreamPlace, StreamCount
  <2>3. QED  BY <2>1, <2>2
<1>2. QED  BY <1>1 DEF QuicInv

\* The same where the reader takes a step, which the handshake came before.
LEMMA OneReader ==
  ASSUME QuicInv, NEW q \in QuicQueries, NEW s \in Receivers, NEW b \in Buffers, NEW t \in BOOLEAN,
         handshaken, stream' = [stream EXCEPT ![q] = s], buffer' = [buffer EXCEPT ![q] = b],
         torn' = [torn EXCEPT ![q] = t], UNCHANGED <<quicBackend, handshaken, worker, streams, put, given>>,
         StreamPlace(q)', StreamCount(q)'
  PROVE  QuicInv'
<1>1. QuicTypes'
  BY DEF QuicInv, QuicTypes
<1>2. Beginning'
  BY DEF QuicInv, Beginning
<1>3. \A r \in QuicQueries : r # q => SameStream(r)
  BY DEF QuicInv, QuicTypes, SameStream
<1>4. QED  BY <1>1, <1>2, <1>3, OneStream

\* What is known of a query.
LEMMA OfQuery ==
  ASSUME QuicInv, NEW q \in QuicQueries
  PROVE  /\ stream[q] \in Receivers /\ buffer[q] \in Buffers /\ put[q] \in Puts /\ given[q] \in Gifts
         /\ torn[q] \in BOOLEAN /\ StreamPlace(q) /\ StreamCount(q)
         /\ stream[q].at # "idle" => handshaken
  BY DEF QuicInv, QuicTypes, Beginning

LEMMA WholeIs ==
  LengthSize \in Nat /\ AnswerSize \in Nat \ {0} /\ WholeSize = LengthSize + AnswerSize /\ WholeSize \in Nat
  BY QuicAssumption DEF LengthSize, WholeSize

LEMMA AmountIs ==
  ASSUME NEW s \in Receivers
  PROVE  Amount(s) \in Nat \ {0} /\ Amount(s) \in Nat
  BY QuicAssumption DEF LengthSize, Amount

LEMMA TakenIs ==
  ASSUME NEW s \in Receivers
  PROVE  OctetsTaken(s) \in Nat
  BY QuicAssumption DEF LengthSize, WholeSize, OctetsTaken, Receivers

LEMMA WithinWhole ==
  ASSUME NEW s \in Receivers, s.result # "answer"
  PROVE  OctetsTaken(s) + Amount(s) <= WholeSize
  BY QuicAssumption DEF LengthSize, WholeSize, Amount, OctetsTaken, Receivers

LEMMA ReaderTakes ==
  ASSUME NEW u \in Receivers, NEW z \in Int
  PROVE  /\ LET s == [u EXCEPT !.at = "checking", !.reading = "answer", !.held = z]
            IN  s \in Receivers /\ s.at = "checking" /\ s.reading = "answer" /\ s.result = u.result
         /\ LET s == [u EXCEPT !.at = "received", !.result = "answer", !.held = z]
            IN  s \in Receivers /\ s.at = "received" /\ s.result = "answer" /\ s.reading = u.reading
  BY DEF Receivers

LEMMA EmptyPut == NoPut \in Puts /\ NoPut.end = FALSE /\ NoPut.step = "none"
  BY DEF NoPut, Puts

LEMMA PutAt ==
  ASSUME NEW n \in {"none", "stored", "notifying"}, NEW e \in BOOLEAN
  PROVE  /\ LET r == [NoPut EXCEPT !.step = n] IN r \in Puts /\ r.step = n /\ r.end = FALSE
         /\ LET r == [NoPut EXCEPT !.step = n, !.end = e] IN r \in Puts /\ r.step = n /\ r.end = e
<1>1. ASSUME NEW p \in Puts
      PROVE  /\ LET r == [p EXCEPT !.step = n] IN r \in Puts /\ r.step = n /\ r.end = p.end
             /\ LET r == [p EXCEPT !.step = n, !.end = e] IN r \in Puts /\ r.step = n /\ r.end = e
  BY DEF Puts
<1>2. QED  BY <1>1, EmptyPut

LEMMA QuicStarts == QuicInit => QuicInv
<1> SUFFICES ASSUME QuicInit PROVE QuicInv
  OBVIOUS
<1>1. NoStream \in Receivers /\ NoPut \in Puts /\ [octets |-> 0, end |-> FALSE] \in Gifts
      /\ [octets |-> 0, seenEnd |-> FALSE] \in Buffers
  BY WholeIs DEF NoStream, NoPut, Receivers, Puts, Gifts, Buffers
<1>2. QuicTypes
  BY <1>1 DEF QuicInit, QuicTypes
<1>3. ASSUME NEW q \in QuicQueries PROVE StreamPlace(q) /\ StreamCount(q) /\ stream[q].at = "idle"
  <2>1. /\ stream[q] = NoStream /\ put[q] = NoPut /\ given[q] = [octets |-> 0, end |-> FALSE]
        /\ buffer[q] = [octets |-> 0, seenEnd |-> FALSE] /\ torn[q] = FALSE /\ q \notin streams
    BY DEF QuicInit
  <2>2. QED  BY <2>1 DEF StreamPlace, StreamCount, NoStream, NoPut, QuicInit
<1>4. QED  BY <1>2, <1>3 DEF QuicInit, QuicInv, Beginning

\* What has come is added: the worker takes a step.
LEMMA AddedKeeps ==
  ASSUME QuicInv, NEW q \in QuicQueries, NEW octets \in Int, NEW seenEnd \in BOOLEAN, NEW g \in Gifts,
         AddedTo(q, octets, seenEnd), given' = [given EXCEPT ![q] = g],
         UNCHANGED <<quicBackend, handshaken, streams, stream, torn>>,
         stream[q].at # "idle", q \in streams /\ seenEnd => g.end,
         ~torn[q] =>
           /\ q \in streams => octets + OctetsTaken(stream[q]) = g.octets
           /\ stream[q].at = "found" => octets >= buffer[q].octets
           /\ stream[q].result = "answer" => g.octets = WholeSize
           /\ stream[q].result = "UnexpectedEOF" => g.end /\ g.octets < WholeSize
  PROVE  QuicInv'
<1> DEFINE p == put'[q]
           s == stream[q]
<1>1. /\ stream[q] \in Receivers /\ buffer[q] \in Buffers /\ StreamPlace(q) /\ StreamCount(q) /\ handshaken
  BY OfQuery
<1>2. PICK n \in {"none", "notifying"} : put' = [put EXCEPT ![q] = [NoPut EXCEPT !.step = n]]
  <2>1. NoPut = [NoPut EXCEPT !.step = "none"]
    BY EmptyPut DEF Puts
  <2>2. QED  BY <2>1 DEF AddedTo
<1>3. [NoPut EXCEPT !.step = n] \in Puts
  <2>1. n \in {"none", "stored", "notifying"} /\ FALSE \in BOOLEAN
    BY <1>2
  <2>2. QED  BY <2>1, PutAt
<1>4. p.step \in {"none", "notifying"} /\ p.end = FALSE /\ p \in Puts
  <2>1. p = [NoPut EXCEPT !.step = n]
    BY <1>2 DEF QuicInv, QuicTypes
  <2>2. n \in {"none", "stored", "notifying"} /\ FALSE \in BOOLEAN
    BY <1>2
  <2>3. LET r == [NoPut EXCEPT !.step = n] IN r \in Puts /\ r.step = n /\ r.end = FALSE
    BY <2>2, PutAt
  <2>4. QED  BY <1>2, <2>1, <2>3, EmptyPut
<1>5. buffer' = [buffer EXCEPT ![q] = [octets |-> octets, seenEnd |-> seenEnd]]
      /\ [octets |-> octets, seenEnd |-> seenEnd] \in Buffers
  BY DEF AddedTo, Buffers
<1>6. buffer'[q].octets = octets /\ buffer'[q].seenEnd = seenEnd /\ given'[q] = g /\ stream' = stream /\ torn' = torn
  BY <1>5 DEF QuicInv, QuicTypes
<1>7. QuicTypes'
  BY <1>2, <1>3, <1>5 DEF QuicInv, QuicTypes
<1>8. Beginning'
  BY <1>1 DEF QuicInv, Beginning, AddedTo
<1>9. \A r \in QuicQueries : r # q => SameStream(r)
  BY <1>2, <1>5 DEF QuicInv, QuicTypes, SameStream
<1>10. StreamPlace(q)'
  BY <1>1, <1>4, <1>6 DEF StreamPlace
<1>11. StreamCount(q)'
  <2>1. Unstored(p) = 0
    BY <1>4 DEF Unstored
  <2>2. OctetsTaken(s) \in Nat /\ Amount(s) \in Nat
    BY <1>1, AmountIs, TakenIs
  <2>3. buffer[q].octets \in Int
    BY <1>1 DEF Buffers
  <2>4. SUFFICES ASSUME ~torn[q]
                 PROVE  /\ q \in streams => octets + OctetsTaken(s) + Unstored(p) = g.octets
                        /\ s.at = "found" => octets >= Amount(s)
                        /\ s.at = "taking" => s.held >= Amount(s)
                        /\ s.result = "answer" => g.octets = WholeSize
                        /\ s.result = "UnexpectedEOF" => g.end /\ g.octets < WholeSize
    BY <1>6 DEF StreamCount
  <2>5. q \in streams => octets + OctetsTaken(s) + Unstored(p) = g.octets
    BY <2>1, <2>2, <2>4
  <2>6. s.at = "found" => octets >= Amount(s)
    BY <1>1, <2>2, <2>3, <2>4 DEF StreamCount
  <2>7. QED  BY <1>1, <2>4, <2>5, <2>6 DEF StreamCount
<1>12. QED  BY <1>7, <1>8, <1>9, <1>10, <1>11, OneStream

LEMMA DataReceivedKeeps ==
  ASSUME QuicInv, NEW q \in QuicQueries, DataReceived(q) PROVE QuicInv'
<1>1. /\ stream[q] \in Receivers /\ buffer[q] \in Buffers /\ put[q] \in Puts /\ given[q] \in Gifts /\ torn[q] \in BOOLEAN
      /\ StreamPlace(q) /\ StreamCount(q) /\ stream[q].at # "idle" /\ handshaken /\ ~given[q].end
      /\ put[q].step = "none" /\ UNCHANGED <<quicBackend, handshaken, streams, stream, torn>>
  BY OfQuery DEF DataReceived, Working
<1> DEFINE held == buffer[q].octets
           seen == buffer[q].seenEnd
<1>2. PICK n \in 0..WholeSize - given[q].octets, end \in BOOLEAN :
        /\ given' = [given EXCEPT ![q] = [octets |-> given[q].octets + n, end |-> end]]
        /\ IF q \notin streams THEN UNCHANGED <<buffer, put, worker>>
           ELSE IF ~InThreads THEN AddedTo(q, IF seen THEN held ELSE held + n, seen \/ end)
           ELSE /\ put' = [put EXCEPT ![q] =
                             IF seen THEN [NoPut EXCEPT !.step = "stored"]
                             ELSE [step |-> "storing", held |-> held, octets |-> n, end |-> end]]
                /\ UNCHANGED <<buffer, worker>>
  BY DEF DataReceived
<1> DEFINE g == [octets |-> given[q].octets + n, end |-> end]
<1>3. n \in Nat /\ g \in Gifts /\ g.octets = given[q].octets + n /\ g.end = end /\ held \in Int /\ seen \in BOOLEAN
  BY <1>1, WholeIs DEF Gifts, Buffers
<1>4. q \in streams => ~seen
  BY <1>1 DEF StreamPlace
<1>5. /\ OctetsTaken(stream[q]) \in Nat
      /\ ~torn[q] /\ q \in streams => held + OctetsTaken(stream[q]) = given[q].octets
  <2>1. Unstored(put[q]) = 0 /\ OctetsTaken(stream[q]) \in Nat
    <3>1. OctetsTaken(stream[q]) \in Nat
      BY <1>1, TakenIs
    <3>2. QED  BY <1>1, <3>1 DEF Unstored
  <2>2. ~torn[q] /\ q \in streams => held + OctetsTaken(stream[q]) + Unstored(put[q]) = given[q].octets
    BY <1>1 DEF StreamCount
  <2>3. QED  BY <1>3, <2>1, <2>2
<1>6. ~torn[q] /\ stream[q].result \in {"answer", "UnexpectedEOF"} => stream[q].result = "answer" /\ g.octets = WholeSize
  <2>1. ~torn[q] => stream[q].result # "UnexpectedEOF" /\ (stream[q].result = "answer" => given[q].octets = WholeSize)
    BY <1>1 DEF StreamCount
  <2>2. given[q].octets = WholeSize => n = 0
    BY <1>1, WholeIs DEF Gifts
  <2>3. QED  BY <1>3, <2>1, <2>2, WholeIs
<1>7. given'[q] = g /\ \A r \in QuicQueries : r # q => given'[r] = given[r]
  BY <1>2 DEF QuicInv, QuicTypes
<1> HIDE DEF g
<1>8. CASE q \notin streams
  <2>1. UNCHANGED <<buffer, put, worker>>
    BY <1>2, <1>8
  <2>2. QuicTypes'
    BY <1>1, <1>2, <1>3, <2>1 DEF QuicInv, QuicTypes, g
  <2>3. Beginning' /\ \A r \in QuicQueries : r # q => SameStream(r)
    BY <1>1, <1>7, <2>1 DEF QuicInv, Beginning, SameStream
  <2>4. StreamPlace(q)'
    <3>1. ~(put[q].end)
      BY <1>1 DEF StreamPlace
    <3>2. QED  BY <1>1, <1>7, <1>8, <2>1, <3>1 DEF StreamPlace
  <2>5. stream[q].at \notin {"found", "taking"}
    BY <1>1, <1>8 DEF StreamPlace
  <2>6. StreamCount(q)'
    BY <1>1, <1>6, <1>7, <1>8, <2>1, <2>5 DEF StreamCount
  <2>7. QED  BY <1>1, <2>2, <2>3, <2>4, <2>6, OneStream
<1>9. CASE q \in streams /\ ~InThreads
  <2>1. AddedTo(q, held + n, end) /\ held + n \in Int
    BY <1>2, <1>3, <1>4, <1>9
  <2>2. stream[q].at # "found" /\ torn[q] = FALSE
    BY <1>1, <1>9 DEF StreamPlace, InThreads
  <2>3. g.end = end /\ (~torn[q] => held + n + OctetsTaken(stream[q]) = g.octets)
    BY <1>3, <1>5, <1>9
  <2>4. /\ ~torn[q] /\ stream[q].result = "answer" => g.octets = WholeSize
        /\ ~torn[q] => stream[q].result # "UnexpectedEOF"
    BY <1>6
  <2> HIDE DEF held, seen
  <2>5. QED  BY <1>1, <1>2, <1>3, <2>1, <2>2, <2>3, <2>4, AddedKeeps DEF g
<1>10. CASE q \in streams /\ InThreads
  <2> DEFINE p == [step |-> "storing", held |-> held, octets |-> n, end |-> end]
  <2>1. put' = [put EXCEPT ![q] = p] /\ UNCHANGED <<buffer, worker>>
    BY <1>2, <1>4, <1>10
  <2>2. p \in Puts /\ put'[q] = p
    BY <1>3, <2>1 DEF Puts, QuicInv, QuicTypes
  <2>3. QuicTypes'
    BY <1>1, <1>2, <1>3, <2>1, <2>2 DEF QuicInv, QuicTypes, g
  <2>4. Beginning' /\ \A r \in QuicQueries : r # q => SameStream(r)
    BY <1>1, <1>7, <2>1 DEF QuicInv, QuicTypes, Beginning, SameStream
  <2>5. StreamPlace(q)'
    BY <1>1, <1>3, <1>4, <1>7, <1>10, <2>1, <2>2 DEF StreamPlace, InThreads
  <2>6. Unstored(p) = n
    BY DEF Unstored
  <2>7. ~torn[q] => buffer[q].octets + OctetsTaken(stream[q]) + Unstored(p) = g.octets
    BY <1>3, <1>5, <1>10, <2>6
  <2> HIDE DEF p
  <2>8. StreamCount(q)'
    BY <1>1, <1>6, <1>7, <1>10, <2>1, <2>2, <2>7 DEF StreamCount
  <2>9. QED  BY <1>1, <2>3, <2>4, <2>5, <2>8, OneStream
<1>11. QED  BY <1>8, <1>9, <1>10

LEMMA PutStoresKeeps ==
  ASSUME QuicInv, NEW q \in QuicQueries, PutStores(q) PROVE QuicInv'
<1> DEFINE p == put[q]
           o == p.held + p.octets
<1>1. /\ stream[q] \in Receivers /\ buffer[q] \in Buffers /\ p \in Puts /\ given[q] \in Gifts /\ torn[q] \in BOOLEAN
      /\ StreamPlace(q) /\ StreamCount(q) /\ p.step = "storing"
      /\ UNCHANGED <<quicBackend, handshaken, worker, streams, stream, given>>
  BY OfQuery DEF PutStores
<1>2. buffer' = [buffer EXCEPT ![q].octets = o] /\ o \in Int
  BY <1>1 DEF PutStores, Puts
<1> DEFINE storedPut == [NoPut EXCEPT !.step = "stored", !.end = p.end]
<1>3. put' = [put EXCEPT ![q] = storedPut] /\ storedPut \in Puts /\ storedPut.step = "stored" /\ storedPut.end = p.end
  <2>1. p.end \in BOOLEAN
    BY <1>1 DEF Puts
  <2>2. storedPut \in Puts /\ storedPut.step = "stored" /\ storedPut.end = p.end
    <3> HIDE DEF p
    <3>1. "stored" \in {"none", "stored", "notifying"}
      OBVIOUS
    <3>2. QED  BY <2>1, <3>1, PutAt
  <2>3. put' = [put EXCEPT ![q] = storedPut]
    BY DEF PutStores
  <2>4. QED  BY <2>2, <2>3
<1> HIDE DEF storedPut
<1>4. torn' = [torn EXCEPT ![q] = torn[q] \/ buffer[q].octets # p.held]
  BY DEF PutStores
<1>5. QuicTypes'
  BY <1>1, <1>2, <1>3, <1>4 DEF QuicInv, QuicTypes, Buffers
<1>6. Beginning' /\ \A r \in QuicQueries : r # q => SameStream(r)
  BY <1>1, <1>2, <1>3, <1>4 DEF QuicInv, QuicTypes, Beginning, SameStream
<1>7. /\ buffer'[q].octets = o /\ buffer'[q].seenEnd = buffer[q].seenEnd
      /\ put'[q].step = "stored" /\ put'[q].end = p.end
      /\ torn'[q] <=> (torn[q] \/ buffer[q].octets # p.held)
  BY <1>1, <1>2, <1>3, <1>4 DEF QuicInv, QuicTypes, Buffers
<1>8. StreamPlace(q)'
  BY <1>1, <1>7 DEF StreamPlace
<1>9. StreamCount(q)'
  <2>1. SUFFICES ASSUME ~torn[q], buffer[q].octets = p.held PROVE StreamCount(q)'
    BY <1>7 DEF StreamCount
  <2>2. Unstored(p) = p.octets /\ Unstored(put'[q]) = 0 /\ OctetsTaken(stream[q]) \in Nat /\ p.octets \in Nat
        /\ p.held \in Int /\ Amount(stream[q]) \in Nat /\ given[q].octets \in Int
    <3>1. OctetsTaken(stream[q]) \in Nat /\ Amount(stream[q]) \in Nat
      BY <1>1, <1>7, AmountIs, TakenIs
    <3>2. Unstored(p) = p.octets /\ Unstored(put'[q]) = 0
      BY <1>1, <1>7 DEF Unstored
    <3>3. p.octets \in Nat /\ p.held \in Int /\ given[q].octets \in Int
      BY <1>1, WholeIs DEF Puts, Gifts
    <3>4. QED  BY <3>1, <3>2, <3>3
  <2>3. q \in streams => o + OctetsTaken(stream[q]) + 0 = given[q].octets
    BY <1>1, <2>1, <2>2 DEF StreamCount
  <2>4. stream[q].at = "found" => o >= Amount(stream[q])
    BY <1>1, <2>1, <2>2 DEF StreamCount
  <2>5. QED  BY <1>1, <1>7, <2>1, <2>2, <2>3, <2>4 DEF StreamCount
<1>10. QED  BY <1>1, <1>5, <1>6, <1>8, <1>9, OneStream

LEMMA InputAddedKeeps ==
  ASSUME QuicInv, NEW q \in QuicQueries, InputAdded(q) PROVE QuicInv'
<1>1. /\ stream[q] \in Receivers /\ buffer[q] \in Buffers /\ put[q] \in Puts /\ given[q] \in Gifts
      /\ StreamPlace(q) /\ StreamCount(q) /\ put[q].step = "stored"
      /\ UNCHANGED <<quicBackend, handshaken, streams, stream, given, torn>>
  BY OfQuery DEF InputAdded
<1>2. stream[q].at # "idle" /\ Unstored(put[q]) = 0 /\ OctetsTaken(stream[q]) \in Nat /\ buffer[q].octets \in Int
      /\ buffer[q].seenEnd \in BOOLEAN /\ put[q].end \in BOOLEAN
  <2>1. OctetsTaken(stream[q]) \in Nat
    BY <1>1, TakenIs
  <2>2. Unstored(put[q]) = 0 /\ stream[q].at # "idle"
    BY <1>1 DEF StreamPlace, Unstored
  <2>3. buffer[q].octets \in Int /\ buffer[q].seenEnd \in BOOLEAN /\ put[q].end \in BOOLEAN
    BY <1>1 DEF Buffers, Puts
  <2>4. QED  BY <2>1, <2>2, <2>3
<1>3. AddedTo(q, buffer[q].octets, buffer[q].seenEnd \/ put[q].end)
  BY DEF InputAdded
<1>4. given' = [given EXCEPT ![q] = given[q]]
  BY <1>1 DEF QuicInv, QuicTypes
<1>5. q \in streams /\ (buffer[q].seenEnd \/ put[q].end) => given[q].end
  BY <1>1 DEF StreamPlace
<1>6. ~torn[q] =>
        /\ q \in streams => buffer[q].octets + OctetsTaken(stream[q]) = given[q].octets
        /\ stream[q].at = "found" => buffer[q].octets >= buffer[q].octets
        /\ stream[q].result = "answer" => given[q].octets = WholeSize
        /\ stream[q].result = "UnexpectedEOF" => given[q].end /\ given[q].octets < WholeSize
  BY <1>1, <1>2 DEF StreamCount
<1>7. (buffer[q].seenEnd \/ put[q].end) \in BOOLEAN
  BY <1>2
<1>8. QED  BY <1>1, <1>2, <1>3, <1>4, <1>5, <1>6, <1>7, AddedKeeps

LEMMA NotifyReaderKeeps ==
  ASSUME QuicInv, NEW q \in QuicQueries, NotifyReader(q) PROVE QuicInv'
<1> DEFINE b == stream[q].notified \/ stream[q].at = "waiting"
           s == [stream[q] EXCEPT !.notified = b]
<1>1. /\ stream[q] \in Receivers /\ put[q] \in Puts /\ StreamPlace(q) /\ StreamCount(q) /\ put[q].step = "notifying"
      /\ UNCHANGED <<quicBackend, handshaken, worker, streams, buffer, given, torn>>
  BY OfQuery DEF NotifyReader
<1>2. stream' = [stream EXCEPT ![q] = s] /\ put' = [put EXCEPT ![q] = NoPut] /\ NoPut \in Puts
  BY DEF NotifyReader, NoPut, Puts, QuicInv, QuicTypes
<1>3. b \in BOOLEAN
  BY <1>1 DEF Receivers
<1> HIDE DEF b
<1>4. /\ s \in Receivers /\ s.at = stream[q].at /\ s.reading = stream[q].reading /\ s.held = stream[q].held
      /\ s.result = stream[q].result
  BY <1>1, <1>3 DEF Receivers
<1>5. stream'[q] = s /\ put'[q] = NoPut /\ NoPut.step = "none" /\ NoPut.end = FALSE
  BY <1>2 DEF QuicInv, QuicTypes, NoPut
<1> HIDE DEF s
<1>6. QuicTypes'
  BY <1>1, <1>2, <1>4 DEF QuicInv, QuicTypes
<1>7. Beginning'
  <2>1. handshaken
    BY <1>1, OfQuery DEF StreamPlace
  <2>2. QED  BY <1>1, <2>1 DEF QuicInv, Beginning
<1>8. \A r \in QuicQueries : r # q => SameStream(r)
  BY <1>1, <1>2 DEF QuicInv, QuicTypes, SameStream
<1>9. StreamPlace(q)'
  BY <1>1, <1>4, <1>5 DEF StreamPlace
<1>10. Unstored(put'[q]) = Unstored(put[q]) /\ OctetsTaken(s) = OctetsTaken(stream[q]) /\ Amount(s) = Amount(stream[q])
  BY <1>1, <1>4, <1>5 DEF Unstored, OctetsTaken, Amount
<1>11. StreamCount(q)'
  BY <1>1, <1>4, <1>5, <1>10 DEF StreamCount
<1>12. QED  BY <1>1, <1>6, <1>7, <1>8, <1>9, <1>11, OneStream

LEMMA MakeStreamKeeps ==
  ASSUME QuicInv, NEW q \in QuicQueries, MakeStream(q) PROVE QuicInv'
<1> DEFINE s == [stream[q] EXCEPT !.at = "checking"]
<1>1. /\ stream[q] \in Receivers /\ StreamPlace(q) /\ StreamCount(q) /\ stream[q].at = "idle" /\ handshaken
      /\ UNCHANGED <<quicBackend, handshaken, worker, buffer, put, given, torn>>
  BY OfQuery DEF MakeStream
<1>2. stream' = [stream EXCEPT ![q] = s] /\ streams' = streams \cup {q}
  BY DEF MakeStream
<1>3. /\ s \in Receivers /\ s.at = "checking" /\ s.reading = stream[q].reading /\ s.result = stream[q].result
  BY <1>1 DEF Receivers
<1>4. stream'[q] = s
  BY <1>2 DEF QuicInv, QuicTypes
<1> HIDE DEF s
<1>5. QuicTypes' /\ Beginning' /\ \A r \in QuicQueries : r # q => SameStream(r)
  BY <1>1, <1>2, <1>3 DEF QuicInv, QuicTypes, Beginning, SameStream
<1>6. /\ given[q].octets = 0 /\ buffer[q].octets = 0 /\ ~buffer[q].seenEnd /\ put[q].step = "none"
      /\ stream[q].reading = "length" /\ stream[q].result = "none"
  BY <1>1 DEF StreamPlace
<1>7. StreamPlace(q)'
  BY <1>1, <1>2, <1>3, <1>4, <1>6 DEF StreamPlace
<1>8. StreamCount(q)'
  BY <1>1, <1>2, <1>3, <1>4, <1>6 DEF StreamCount, OctetsTaken, Unstored
<1>9. QED  BY <1>1, <1>5, <1>7, <1>8, OneStream

\* receive() finds too little.
LEMMA TooLittleKeeps ==
  ASSUME QuicInv, NEW q \in QuicQueries, TooLittle(q), stream[q].at \in {"checking", "short"},
         UNCHANGED <<quicBackend, handshaken, worker, streams, put, given>>, NEW t \in BOOLEAN,
         torn' = [torn EXCEPT ![q] = t], torn[q] => t, quicBackend # "sync" => ~t,
         ~t /\ buffer[q].seenEnd => buffer[q].octets < Amount(stream[q])
  PROVE  QuicInv'
<1> DEFINE u == stream[q]
<1>1. /\ u \in Receivers /\ buffer[q] \in Buffers /\ put[q] \in Puts /\ given[q] \in Gifts /\ torn[q] \in BOOLEAN
      /\ StreamPlace(q) /\ StreamCount(q) /\ handshaken
  BY OfQuery
<1>2. buffer' = [buffer EXCEPT ![q] = buffer[q]] /\ buffer' = buffer /\ torn'[q] = t
  BY DEF TooLittle, QuicInv, QuicTypes
<1>3. u.result = "none" /\ q \in streams
  BY <1>1 DEF StreamPlace
<1>4. CASE buffer[q].seenEnd
  <2> DEFINE s == [u EXCEPT !.at = "received", !.result = "UnexpectedEOF"]
  <2>1. stream' = [stream EXCEPT ![q] = s]
    BY <1>4 DEF TooLittle, QuicInv, QuicTypes
  <2>2. s \in Receivers /\ s.at = "received" /\ s.result = "UnexpectedEOF" /\ s.reading = u.reading
    BY <1>1 DEF Receivers
  <2>3. stream'[q] = s
    BY <2>1 DEF QuicInv, QuicTypes
  <2> HIDE DEF s
  <2>4. OctetsTaken(s) = OctetsTaken(u)
    BY <1>3, <2>2 DEF OctetsTaken
  <2>5. StreamPlace(q)'
    BY <1>1, <1>2, <1>3, <2>2, <2>3 DEF StreamPlace
  <2>6. given[q].end /\ put[q].step # "storing"
    BY <1>1, <1>3, <1>4 DEF StreamPlace
  <2>7. ~t => given[q].octets < WholeSize
    <3>1. OctetsTaken(u) + Amount(u) <= WholeSize /\ OctetsTaken(u) \in Nat /\ Amount(u) \in Nat /\ WholeSize \in Nat
      <4>1. u \in Receivers /\ u.result # "answer"
        BY <1>1, <1>3
      <4> HIDE DEF u
      <4>2. OctetsTaken(u) + Amount(u) <= WholeSize
        BY <4>1, WithinWhole
      <4>3. OctetsTaken(u) \in Nat /\ Amount(u) \in Nat
        BY <4>1, AmountIs, TakenIs
      <4>4. QED  BY <4>2, <4>3, WholeIs
    <3>2. ~t => buffer[q].octets + OctetsTaken(u) + 0 = given[q].octets
      BY <1>1, <1>3, <2>6 DEF StreamCount, Unstored
    <3>3. ~t => buffer[q].octets < Amount(u) /\ buffer[q].octets \in Int
      BY <1>1, <1>4 DEF Buffers
    <3>4. QED  BY <3>1, <3>2, <3>3
  <2>8. StreamCount(q)'
    BY <1>1, <1>2, <1>3, <2>2, <2>3, <2>4, <2>6, <2>7 DEF StreamCount
  <2>9. QED  BY <1>1, <1>2, <2>1, <2>2, <2>5, <2>8, OneReader
<1>5. CASE ~buffer[q].seenEnd
  <2> DEFINE a == Amount(u)
             s == [u EXCEPT !.at = "falling_asleep", !.expecting = a]
  <2>1. stream' = [stream EXCEPT ![q] = s]
    BY <1>5 DEF TooLittle, QuicInv, QuicTypes
  <2>2. a \in Nat
    BY <1>1, AmountIs
  <2> HIDE DEF a
  <2>3. s \in Receivers /\ s.at = "falling_asleep" /\ s.result = "none" /\ s.reading = u.reading
    BY <1>1, <1>3, <2>2 DEF Receivers
  <2>4. stream'[q] = s
    BY <2>1 DEF QuicInv, QuicTypes
  <2> HIDE DEF s
  <2>5. OctetsTaken(s) = OctetsTaken(u)
    BY <1>3, <2>3 DEF OctetsTaken
  <2>6. StreamPlace(q)'
    BY <1>1, <1>2, <1>3, <2>3, <2>4 DEF StreamPlace
  <2>7. StreamCount(q)'
    BY <1>1, <1>2, <1>3, <2>3, <2>4, <2>5 DEF StreamCount
  <2>8. QED  BY <1>1, <1>2, <2>1, <2>3, <2>6, <2>7, OneReader
<1>6. QED  BY <1>4, <1>5

\* receive() takes what it wants out of what it holds.
LEMMA TakesKeeps ==
  ASSUME QuicInv, NEW q \in QuicQueries, NEW held \in Int, Takes(q, held), stream[q].at \in {"checking", "taking"},
         UNCHANGED <<quicBackend, handshaken, worker, streams, put, given>>, NEW t \in BOOLEAN,
         torn' = [torn EXCEPT ![q] = t], torn[q] => t, quicBackend # "sync" => ~t,
         ~t => held = buffer[q].octets /\ held >= Amount(stream[q])
  PROVE  QuicInv'
<1> DEFINE u == stream[q]
           a == Amount(u)
           o == held - a
           b == [buffer[q] EXCEPT !.octets = o]
<1>1. /\ u \in Receivers /\ buffer[q] \in Buffers /\ put[q] \in Puts /\ given[q] \in Gifts /\ torn[q] \in BOOLEAN
      /\ StreamPlace(q) /\ StreamCount(q) /\ handshaken
  BY OfQuery
<1>2. a \in Nat /\ o \in Int /\ OctetsTaken(u) \in Nat /\ WholeSize \in Nat
  <2>1. a \in Nat /\ OctetsTaken(u) \in Nat
    BY <1>1, AmountIs, TakenIs
  <2>2. held \in Int
    BY <1>1 DEF Buffers
  <2> HIDE DEF a
  <2>3. QED  BY <2>1, <2>2, WholeIs
<1>3. buffer' = [buffer EXCEPT ![q] = b] /\ torn'[q] = t
  BY DEF Takes, QuicInv, QuicTypes
<1>4. b \in Buffers /\ b.octets = o /\ b.seenEnd = buffer[q].seenEnd
  <2> HIDE DEF o
  <2>1. QED  BY <1>1, <1>2 DEF Buffers
<1>5. buffer'[q] = b
  BY <1>3 DEF QuicInv, QuicTypes
<1>6. u.result = "none" /\ q \in streams
  BY <1>1 DEF StreamPlace
<1>7. ~t => held + OctetsTaken(u) + Unstored(put[q]) = given[q].octets
  BY <1>1, <1>6 DEF StreamCount
<1>8. Unstored(put[q]) \in Nat /\ given[q].octets \in Nat /\ given[q].octets <= WholeSize
  BY <1>1, <1>2 DEF Unstored, Puts, Gifts
<1>9. CASE u.reading = "length"
  <2> DEFINE s == [u EXCEPT !.at = "checking", !.reading = "answer", !.held = 0]
  <2>1. stream' = [stream EXCEPT ![q] = s]
    BY <1>9 DEF Takes, QuicInv, QuicTypes
  <2>2. s \in Receivers /\ s.at = "checking" /\ s.result = "none" /\ s.reading = "answer"
    <3>1. u \in Receivers /\ 0 \in Int
      BY <1>1
    <3> HIDE DEF u
    <3>2. s \in Receivers /\ s.at = "checking" /\ s.reading = "answer" /\ s.result = u.result
      BY <3>1, ReaderTakes
    <3>3. QED  BY <1>6, <3>2
  <2>3. stream'[q] = s
    BY <2>1 DEF QuicInv, QuicTypes
  <2> HIDE DEF s, b
  <2>4. StreamPlace(q)'
    BY <1>1, <1>3, <1>4, <1>5, <1>6, <2>2, <2>3 DEF StreamPlace
  <2>5. OctetsTaken(u) = 0 /\ OctetsTaken(s) = LengthSize /\ a = LengthSize
    BY <1>6, <1>9, <2>2 DEF OctetsTaken, Amount
  <2>6. ~t => o + OctetsTaken(s) + Unstored(put[q]) = given[q].octets
    BY <1>2, <1>7, <1>8, <2>5, WholeIs
  <2> HIDE DEF o
  <2>7. StreamCount(q)'
    BY <1>1, <1>3, <1>4, <1>5, <2>2, <2>3, <2>6 DEF StreamCount
  <2>8. QED  BY <1>1, <1>3, <1>4, <2>1, <2>2, <2>4, <2>7, OneReader
<1>10. CASE u.reading # "length"
  <2> DEFINE s == [u EXCEPT !.at = "received", !.result = "answer", !.held = 0]
  <2>1. stream' = [stream EXCEPT ![q] = s]
    BY <1>10 DEF Takes, QuicInv, QuicTypes
  <2>2. s \in Receivers /\ s.at = "received" /\ s.result = "answer" /\ u.reading = "answer"
    <3>1. u \in Receivers /\ 0 \in Int /\ u.reading = "answer"
      BY <1>1, <1>10 DEF Receivers
    <3> HIDE DEF u
    <3>2. s \in Receivers /\ s.at = "received" /\ s.result = "answer"
      BY <3>1, ReaderTakes
    <3>3. QED  BY <3>1, <3>2
  <2>3. stream'[q] = s
    BY <2>1 DEF QuicInv, QuicTypes
  <2> HIDE DEF s, b
  <2>4. StreamPlace(q)'
    BY <1>1, <1>3, <1>4, <1>5, <1>6, <2>2, <2>3 DEF StreamPlace
  <2>5. OctetsTaken(u) = LengthSize /\ OctetsTaken(s) = WholeSize /\ a = AnswerSize
    BY <1>6, <1>10, <2>2 DEF OctetsTaken, Amount
  <2>6. ~t => o + OctetsTaken(s) + Unstored(put[q]) = given[q].octets /\ given[q].octets = WholeSize
    <3>1. ~t => held >= a
      OBVIOUS
    <3>2. QED  BY <1>2, <1>7, <1>8, <2>5, <3>1, WholeIs
  <2> HIDE DEF o
  <2>7. StreamCount(q)'
    BY <1>1, <1>3, <1>4, <1>5, <2>2, <2>3, <2>6 DEF StreamCount
  <2>8. QED  BY <1>1, <1>3, <1>4, <2>1, <2>2, <2>4, <2>7, OneReader
<1>11. QED  BY <1>9, <1>10

LEMMA ReceiveKeeps ==
  ASSUME QuicInv, NEW q \in QuicQueries, CheckBuffer(q) \/ CheckEnd(q) \/ ReadBuffer(q) \/ TakeFromBuffer(q)
  PROVE  QuicInv'
<1> DEFINE u == stream[q]
<1>1. /\ u \in Receivers /\ buffer[q] \in Buffers /\ torn[q] \in BOOLEAN /\ StreamPlace(q) /\ StreamCount(q)
      /\ u.at # "idle" /\ handshaken
      /\ UNCHANGED <<quicBackend, handshaken, worker, streams, put, given>>
  BY OfQuery DEF CheckBuffer, CheckEnd, ReadBuffer, TakeFromBuffer
<1>2. buffer[q].octets \in Int /\ Amount(u) \in Nat /\ torn = [torn EXCEPT ![q] = torn[q]]
      /\ buffer = [buffer EXCEPT ![q] = buffer[q]]
  <2>1. Amount(u) \in Nat
    BY <1>1, AmountIs
  <2>2. buffer[q].octets \in Int
    BY <1>1 DEF Buffers
  <2>3. QED  BY <2>1, <2>2 DEF QuicInv, QuicTypes
<1>3. CASE CheckBuffer(q) /\ InThreads
  <2> DEFINE enough == buffer[q].octets >= Amount(u)
             place == IF enough THEN "found" ELSE "short"
             s == [u EXCEPT !.at = place]
  <2>1. stream' = [stream EXCEPT ![q] = s] /\ UNCHANGED <<buffer, torn>> /\ u.at = "checking"
    BY <1>3 DEF CheckBuffer, QuicInv, QuicTypes
  <2>2. place \in {"found", "short"} /\ (place = "found" => enough)
    OBVIOUS
  <2> HIDE DEF place
  <2>3. s \in Receivers /\ s.at = place /\ s.reading = u.reading /\ s.result = u.result
    BY <1>1, <2>2 DEF Receivers
  <2>4. stream'[q] = s
    BY <2>1 DEF QuicInv, QuicTypes
  <2> HIDE DEF s
  <2>5. StreamPlace(q)'
    BY <1>1, <1>3, <2>1, <2>2, <2>3, <2>4 DEF StreamPlace, InThreads
  <2>6. OctetsTaken(s) = OctetsTaken(u) /\ Amount(s) = Amount(u)
    BY <2>3 DEF OctetsTaken, Amount
  <2>7. StreamCount(q)'
    BY <1>1, <2>1, <2>2, <2>3, <2>4, <2>6 DEF StreamCount
  <2>8. QED  BY <1>1, <1>2, <2>1, <2>3, <2>5, <2>7, OneReader
<1>4. CASE CheckBuffer(q) /\ ~InThreads
  <2>1. u.at = "checking" /\ torn' = [torn EXCEPT ![q] = torn[q]] /\ torn[q] = FALSE
    BY <1>1, <1>2, <1>4 DEF CheckBuffer, InThreads, StreamPlace
  <2>2. CASE buffer[q].octets >= Amount(u)
    <3>1. Takes(q, buffer[q].octets)
      BY <1>4, <2>2 DEF CheckBuffer
    <3>2. QED  BY <1>1, <1>2, <2>1, <2>2, <3>1, TakesKeeps
  <2>3. CASE ~(buffer[q].octets >= Amount(u))
    <3>1. TooLittle(q) /\ buffer[q].octets < Amount(u)
      BY <1>2, <1>4, <2>3 DEF CheckBuffer
    <3>2. QED  BY <1>1, <2>1, <3>1, TooLittleKeeps
  <2>4. QED  BY <2>2, <2>3
<1>5. CASE CheckEnd(q)
  <2> DEFINE t == torn[q] \/ (buffer[q].seenEnd /\ buffer[q].octets >= Amount(u))
  <2>1. TooLittle(q) /\ u.at = "short" /\ torn' = [torn EXCEPT ![q] = t] /\ quicBackend = "sync"
    BY <1>1, <1>5 DEF CheckEnd, StreamPlace
  <2>2. t \in BOOLEAN /\ (torn[q] => t) /\ (~t /\ buffer[q].seenEnd => buffer[q].octets < Amount(u))
    BY <1>1, <1>2
  <2> HIDE DEF t
  <2>3. QED  BY <1>1, <2>1, <2>2, TooLittleKeeps
<1>6. CASE ReadBuffer(q)
  <2> DEFINE o == buffer[q].octets
             s == [u EXCEPT !.at = "taking", !.held = o]
  <2>1. stream' = [stream EXCEPT ![q] = s] /\ UNCHANGED <<buffer, torn>> /\ u.at = "found" /\ quicBackend = "sync"
    BY <1>1, <1>6 DEF ReadBuffer, StreamPlace, QuicInv, QuicTypes
  <2>2. o \in Int
    BY <1>2
  <2>3. ~torn[q] => o >= Amount(u)
    BY <1>1, <2>1 DEF StreamCount
  <2> HIDE DEF o
  <2>4. s \in Receivers /\ s.at = "taking" /\ s.held = o /\ s.reading = u.reading /\ s.result = u.result
    BY <1>1, <2>2 DEF Receivers
  <2>5. stream'[q] = s
    BY <2>1 DEF QuicInv, QuicTypes
  <2> HIDE DEF s
  <2>6. StreamPlace(q)'
    BY <1>1, <2>1, <2>4, <2>5 DEF StreamPlace
  <2>7. OctetsTaken(s) = OctetsTaken(u) /\ Amount(s) = Amount(u)
    BY <2>4 DEF OctetsTaken, Amount
  <2>8. StreamCount(q)'
    BY <1>1, <2>1, <2>3, <2>4, <2>5, <2>7 DEF StreamCount
  <2>9. QED  BY <1>1, <1>2, <2>1, <2>4, <2>6, <2>8, OneReader
<1>7. CASE TakeFromBuffer(q)
  <2> DEFINE held == u.held
             t == torn[q] \/ buffer[q].octets # held
  <2>1. Takes(q, held) /\ u.at = "taking" /\ torn' = [torn EXCEPT ![q] = t] /\ quicBackend = "sync" /\ held \in Int
    BY <1>1, <1>7 DEF TakeFromBuffer, StreamPlace, Receivers
  <2>2. t \in BOOLEAN /\ (torn[q] => t) /\ (~t => held = buffer[q].octets /\ held >= Amount(u))
    BY <1>1, <2>1 DEF StreamCount
  <2> HIDE DEF t, held
  <2>3. QED  BY <1>1, <2>1, <2>2, TakesKeeps
<1>8. QED  BY <1>3, <1>4, <1>5, <1>6, <1>7

\* Steps of receive() that neither read nor are given anything.
LEMMA WaitingKeeps ==
  ASSUME QuicInv, NEW q \in QuicQueries, NEW s \in Receivers,
         stream' = [stream EXCEPT ![q] = s],
         UNCHANGED <<quicBackend, handshaken, worker, streams, buffer, put, given, torn>>,
         stream[q].at \in {"falling_asleep", "waiting"}, s.at \in {"checking", "waiting", "received"},
         s.reading = stream[q].reading,
         s.result = stream[q].result \/ (s.at = "received" /\ s.result \in {"nothing", "cancelled"})
  PROVE  QuicInv'
<1>1. /\ buffer[q] \in Buffers /\ torn[q] \in BOOLEAN /\ StreamPlace(q) /\ StreamCount(q) /\ handshaken
      /\ torn = [torn EXCEPT ![q] = torn[q]] /\ buffer = [buffer EXCEPT ![q] = buffer[q]] /\ stream'[q] = s
  BY OfQuery DEF QuicInv, QuicTypes
<1>2. stream[q].result = "none"
  BY <1>1 DEF StreamPlace
<1>3. StreamPlace(q)'
  BY <1>1, <1>2 DEF StreamPlace
<1>4. OctetsTaken(s) = OctetsTaken(stream[q])
  BY <1>2 DEF OctetsTaken
<1>5. StreamCount(q)'
  BY <1>1, <1>2, <1>4 DEF StreamCount
<1>6. QED  BY <1>1, <1>3, <1>5, OneReader

LEMMA WaitsKeep ==
  ASSUME QuicInv, NEW q \in QuicQueries, FallAsleep(q) \/ WokenUp(q) \/ WaitEnds(q) \/ NurseryCancels(q)
  PROVE  QuicInv'
<1> DEFINE u == stream[q]
<1>1. /\ u \in Receivers /\ u.at \in {"falling_asleep", "waiting"}
      /\ UNCHANGED <<quicBackend, handshaken, worker, streams, buffer, put, given, torn>>
  BY OfQuery DEF FallAsleep, WokenUp, WaitEnds, NurseryCancels
<1>2. /\ FallAsleep(q) => stream' = [stream EXCEPT ![q] = [u EXCEPT !.at = "waiting"]]
      /\ WokenUp(q) => stream' = [stream EXCEPT ![q] = Awake(u)]
      /\ WaitEnds(q) => \/ stream' = [stream EXCEPT ![q] = Awake(u)]
                        \/ stream' = [stream EXCEPT ![q] = [u EXCEPT !.at = "received", !.result = "nothing"]]
      /\ NurseryCancels(q) =>
           stream' = [stream EXCEPT ![q] = [u EXCEPT !.at = "received", !.result = "cancelled"]]
  BY DEF FallAsleep, WokenUp, WaitEnds, TimedOut, NurseryCancels, QuicInv, QuicTypes
<1>3. CASE stream' = [stream EXCEPT ![q] = Awake(u)]
  <2>1. Awake(u) \in Receivers /\ Awake(u).at = "checking" /\ Awake(u).reading = u.reading /\ Awake(u).result = u.result
    <3>1. ASSUME NEW n \in Nat PROVE LET s == [u EXCEPT !.expecting = n, !.notified = FALSE, !.at = "checking"]
                                     IN  s \in Receivers /\ s.at = "checking" /\ s.reading = u.reading /\ s.result = u.result
      BY <1>1 DEF Receivers
    <3>2. QED  BY <3>1 DEF Awake
  <2>2. QED  BY <1>1, <1>3, <2>1, WaitingKeeps
<1>4. CASE stream' = [stream EXCEPT ![q] = [u EXCEPT !.at = "waiting"]]
  <2> DEFINE s == [u EXCEPT !.at = "waiting"]
  <2>1. s \in Receivers /\ s.at = "waiting" /\ s.reading = u.reading /\ s.result = u.result
    BY <1>1 DEF Receivers
  <2> HIDE DEF s
  <2>2. stream' = [stream EXCEPT ![q] = s]
    BY <1>4 DEF s
  <2>3. QED  BY <1>1, <2>1, <2>2, WaitingKeeps
<1>5. ASSUME NEW why \in {"nothing", "cancelled"},
             stream' = [stream EXCEPT ![q] = [u EXCEPT !.at = "received", !.result = why]]
      PROVE  QuicInv'
  <2> DEFINE s == [u EXCEPT !.at = "received", !.result = why]
  <2>1. s \in Receivers /\ s.at = "received" /\ s.reading = u.reading /\ s.result = why
    BY <1>1 DEF Receivers
  <2> HIDE DEF s
  <2>2. stream' = [stream EXCEPT ![q] = s]
    BY <1>5 DEF s
  <2>3. QED  BY <1>1, <2>1, <2>2, WaitingKeeps
<1>6. QED  BY <1>2, <1>3, <1>4, <1>5

LEMMA CloseStreamKeeps ==
  ASSUME QuicInv, NEW q \in QuicQueries, CloseStream(q) PROVE QuicInv'
<1> DEFINE why == stream[q].result
           s == [NoStream EXCEPT !.at = "over", !.result = why]
           b == [buffer[q] EXCEPT !.seenEnd = TRUE]
<1>1. /\ stream[q] \in Receivers /\ buffer[q] \in Buffers /\ StreamPlace(q) /\ StreamCount(q)
      /\ stream[q].at = "received" /\ handshaken
      /\ UNCHANGED <<quicBackend, handshaken, worker, put, given, torn>>
  BY OfQuery DEF CloseStream
<1>2. stream' = [stream EXCEPT ![q] = s] /\ buffer' = [buffer EXCEPT ![q] = b] /\ streams' = streams \ {q}
  BY DEF CloseStream, QuicInv, QuicTypes
<1>3. why \in {"none", "answer", "nothing", "cancelled", "UnexpectedEOF"}
  BY <1>1 DEF Receivers
<1> HIDE DEF why
<1>4. s \in Receivers /\ s.at = "over" /\ s.result = why
  <2>1. NoStream \in Receivers
    BY DEF NoStream, Receivers
  <2>2. QED  BY <1>3, <2>1 DEF Receivers
<1>5. b \in Buffers
  BY <1>1 DEF Buffers
<1>6. stream'[q] = s
  BY <1>2 DEF QuicInv, QuicTypes
<1> HIDE DEF s, b
<1>7. QuicTypes' /\ Beginning' /\ \A r \in QuicQueries : r # q => SameStream(r)
  BY <1>1, <1>2, <1>4, <1>5 DEF QuicInv, QuicTypes, Beginning, SameStream
<1>8. StreamPlace(q)'
  BY <1>1, <1>2, <1>4, <1>6 DEF StreamPlace
<1>9. StreamCount(q)'
  BY <1>1, <1>2, <1>4, <1>6 DEF StreamCount, why
<1>10. QED  BY <1>1, <1>7, <1>8, <1>9, OneStream

LEMMA QuicStep ==
  ASSUME QuicInv, [QuicNext]_quicVars PROVE QuicInv'
<1>1. CASE UNCHANGED quicVars \/ HandshakeCompletes \/ ConnectionEnds
  <2>1. /\ UNCHANGED <<quicBackend, streams, stream, buffer, put, given, torn>>
        /\ worker' = "idle" => worker = "idle" /\ handshaken' = handshaken
        /\ handshaken => handshaken'
    BY <1>1 DEF quicVars, HandshakeCompletes, ConnectionEnds, Working
  <2>2. QuicTypes' /\ Beginning'
    BY <2>1 DEF QuicInv, QuicTypes, Beginning
  <2>3. QED  BY <2>1, <2>2 DEF QuicInv, StreamPlace, StreamCount
<1>2. CASE QuicConnect
  <2>1. /\ UNCHANGED <<handshaken, streams, stream, buffer, put, given, torn>>
        /\ worker' = "working" /\ ~handshaken
    BY <1>2 DEF QuicConnect, QuicInv, Beginning
  <2>2. QuicTypes' /\ Beginning'
    BY <2>1 DEF QuicInv, QuicTypes, Beginning
  <2>3. ASSUME NEW q \in QuicQueries PROVE StreamPlace(q)' /\ StreamCount(q)'
    <3>1. stream[q].at = "idle" /\ StreamPlace(q) /\ StreamCount(q)
      BY <2>1 DEF QuicInv, Beginning
    <3>2. QED  BY <2>1, <3>1 DEF StreamPlace, StreamCount
  <2>4. QED  BY <2>2, <2>3 DEF QuicInv
<1>3. QED
  BY <1>1, <1>2, DataReceivedKeeps, PutStoresKeeps, InputAddedKeeps, NotifyReaderKeeps, MakeStreamKeeps, ReceiveKeeps,
     WaitsKeep, CloseStreamKeeps
     DEF QuicNext, WorkerProgress, ReceiveProgress

\* For any number of queries and any lengths an answer is received where all of it
\* came over the query's own stream, and its end is called unexpected only where it
\* came short, whatever the tasks do; a thread's where put() has met neither have()
\* nor get() of its stream.
THEOREM QuicAnswersAreWhole == QuicSpec => []QuicAnswerWhole
<1>1. QuicInv => QuicAnswerWhole
  BY DEF QuicInv, QuicAnswerWhole, StreamPlace, StreamCount
<1>2. QED  BY <1>1, QuicStarts, QuicStep, PTL DEF QuicSpec

=============================================================================
