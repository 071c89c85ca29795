---------------------------- MODULE DnsResolver ----------------------------
(***************************************************************************)
(* One call of dns.asyncresolver.Resolver.resolve(), as the proxy makes    *)
(* it for the A and the AAAA records of a host: the names to try, the name *)
(* servers asked for each of them over UDP or TCP, what a failure does to  *)
(* the list of servers, the back-off between rounds and the lifetime.  Of  *)
(* an exchange, which is DnsExchange's subject, its outcome and the time   *)
(* it took are used here.                                                  *)
(***************************************************************************)
EXTENDS DnsExchange, SequencesExt

CONSTANTS
    Names,          \* _get_qnames_to_try(): a sequence
    Servers,        \* resolver.nameservers: a sequence
    RetryServfail,  \* resolver.retry_servfail
    Caching,        \* resolver.cache is not None
    Lifetime,       \* resolver.lifetime
    QueryTimeout,   \* resolver.timeout
    FirstBackoff,   \* 0.1 s
    MaxBackoff,     \* 2 s
    Unset           \* None

ASSUME ResolverAssumption ==
    /\ Names \in Seq(ToSet(Names)) /\ Servers \in Seq(ToSet(Servers))
    /\ IsInjective(Names) /\ IsInjective(Servers) /\ Unset \notin ToSet(Servers)
    /\ {Lifetime, QueryTimeout, FirstBackoff, MaxBackoff} \subseteq Nat \ {0}
    /\ RetryServfail \in BOOLEAN /\ Caching \in BOOLEAN

VARIABLES
    resolving,      \* what resolve() does next, or how it has ended
    qnames,         \* names not yet tried
    qname,
    nxdomains,      \* nxdomain_responses
    nameservers,    \* not found to be broken
    currentServers, \* not yet asked in this round
    nameserver,
    tcpAttempt,
    retryWithTcp,
    backoff,
    elapsed,        \* time.time() - start
    cached,         \* what the cache holds for each name
    blamed          \* servers found broken for qname (not in the code)

query == <<qname, nameservers, currentServers, nameserver, tcpAttempt, retryWithTcp, backoff>>
resolverVars == <<resolving, qnames, nxdomains, query, elapsed, cached, blamed>>

\* resolve() returns or raises.
Endings == {"answer", "NoAnswer", "NXDOMAIN", "YXDOMAIN", "NoNameservers", "LifetimeTimeout"}

ResolverInit ==
    /\ resolving = "idle"
    /\ qnames = << >>
    /\ qname = Unset /\ nameserver = Unset
    /\ nxdomains = {} /\ blamed = {}
    /\ nameservers = << >> /\ currentServers = << >>
    /\ tcpAttempt = FALSE /\ retryWithTcp = FALSE
    /\ backoff = 0 /\ elapsed = 0
    /\ cached = [n \in ToSet(Names) |-> Unset]

\* The call, with whatever earlier calls have left in the cache.
Resolve ==
    /\ resolving = "idle"
    /\ resolving' = "next_request"
    /\ qnames' = Names
    /\ cached' \in [ToSet(Names) ->
                     IF Caching THEN {Unset, "answer", "NoAnswer", "NXDOMAIN"} ELSE {Unset}]
    /\ UNCHANGED <<nxdomains, query, elapsed>>
    /\ UNCHANGED blamed

\* next_request(): the next name that is not known to be absent.
NextRequest ==
    /\ resolving = "next_request"
    /\ IF qnames = << >>
       THEN resolving' = "NXDOMAIN" /\ UNCHANGED <<qnames, nxdomains, query, blamed>>
       ELSE /\ qname' = Head(qnames) /\ qnames' = Tail(qnames)
            /\ CASE cached[qname'] = "NXDOMAIN" ->
                      /\ nxdomains' = nxdomains \cup {qname'}
                      /\ UNCHANGED <<resolving, nameservers, currentServers, nameserver,
                                     tcpAttempt, retryWithTcp, backoff, blamed>>
                 [] cached[qname'] \in {"answer", "NoAnswer"} ->
                      /\ resolving' = cached[qname']
                      /\ UNCHANGED <<nxdomains, nameservers, currentServers, nameserver,
                                     tcpAttempt, retryWithTcp, backoff, blamed>>
                 [] OTHER ->
                      /\ resolving' = "next_nameserver"
                      /\ nameservers' = Servers /\ currentServers' = Servers
                      /\ nameserver' = Unset
                      /\ tcpAttempt' = FALSE /\ retryWithTcp' = FALSE
                      /\ backoff' = FirstBackoff
                      /\ blamed' = {}
                      /\ UNCHANGED nxdomains
    /\ UNCHANGED <<elapsed, cached>>

Lesser(a, b) == IF a < b THEN a ELSE b

\* next_nameserver() and the sleep: the same server again over TCP, the next
\* of this round, or after a back-off the first of a new round.
NextNameserver ==
    /\ resolving = "next_nameserver"
    /\ CASE retryWithTcp ->
              /\ tcpAttempt' = TRUE /\ retryWithTcp' = FALSE
              /\ resolving' = "timing"
              /\ UNCHANGED <<nameservers, currentServers, nameserver, backoff, elapsed>>
         [] ~retryWithTcp /\ currentServers = << >> /\ nameservers = << >> ->
              /\ resolving' = "NoNameservers"
              /\ UNCHANGED <<tcpAttempt, retryWithTcp, nameservers, currentServers,
                             nameserver, backoff, elapsed>>
         [] OTHER ->
              LET empty == currentServers = << >>
                  round == IF empty THEN nameservers ELSE currentServers
              IN  /\ nameserver' = Head(round) /\ currentServers' = Tail(round)
                  /\ backoff' = IF empty THEN Lesser(2 * backoff, MaxBackoff) ELSE backoff
                  /\ tcpAttempt' = FALSE
                  /\ resolving' = "timing"
                  /\ elapsed' = elapsed + IF empty THEN backoff ELSE 0
                  /\ UNCHANGED <<nameservers, retryWithTcp>>
    /\ UNCHANGED <<qnames, qname, nxdomains, cached, blamed>>

\* _compute_timeout().
ComputeTimeout ==
    /\ resolving = "timing"
    /\ resolving' = IF elapsed >= Lifetime THEN "LifetimeTimeout" ELSE "exchanging"
    /\ UNCHANGED <<qnames, nxdomains, query, elapsed, cached, blamed>>

ExchangeTimeout == Lesser(Lifetime - elapsed, QueryTimeout)

\* What an exchange ends with: a response, by its rcode, or an exception.
\* "broken": the transport or the message was bad (OSError, EOFError,
\* FormError and BadResponse); "stray": any other error, as a datagram of
\* someone else.
Responses == {"answer", "NoAnswer", "no_chain", "NXDOMAIN", "YXDOMAIN", "SERVFAIL", "other_rcode"}
\* udp(), which raises when the response is truncated.
UdpOutcomes == Responses \cup {"broken", "stray", "truncated", "timeout"}
\* tcp(): a response with the TC bit is a message like any other.
TcpOutcomes == Responses \cup {"broken", "timeout"}

Blame ==
    /\ nameservers' = RemoveFirst(nameservers, nameserver)
    /\ blamed' = blamed \cup {nameserver}

\* Faulty variant: a server whose response is truncated is given up at once,
\* and still asked again over TCP.
Fault_Truncated(outcome) ==
    \/ outcome \in {"broken", "no_chain", "other_rcode", "truncated"}
    \/ outcome = "SERVFAIL" /\ ~RetryServfail

\* What takes a server out of the mix.
Fault(outcome) ==
    \/ outcome \in {"broken", "no_chain", "other_rcode"}
    \/ outcome = "SERVFAIL" /\ ~RetryServfail

Learn(what) == cached' = IF Caching THEN [cached EXCEPT ![qname] = what] ELSE cached

\* query_result().
QueryResult(outcome) ==
    /\ IF Fault(outcome) THEN Blame ELSE UNCHANGED <<nameservers, blamed>>
    /\ retryWithTcp' = (outcome = "truncated")
    /\ CASE outcome \in {"answer", "NoAnswer"} ->
              resolving' = outcome /\ Learn(outcome) /\ UNCHANGED nxdomains
         [] outcome = "NXDOMAIN" ->
              /\ nxdomains' = nxdomains \cup {qname} /\ Learn("NXDOMAIN")
              /\ resolving' = "next_request"
         [] outcome = "YXDOMAIN" -> resolving' = "YXDOMAIN" /\ UNCHANGED <<cached, nxdomains>>
         [] OTHER -> resolving' = "next_nameserver" /\ UNCHANGED <<cached, nxdomains>>

\* The exchange with nameserver, and what is made of it.
Exchange ==
    /\ resolving = "exchanging"
    /\ \E outcome \in IF tcpAttempt THEN TcpOutcomes ELSE UdpOutcomes,
          took \in 0..QueryTimeout :
         /\ took <= ExchangeTimeout
         /\ outcome = "timeout" => took = ExchangeTimeout
         /\ elapsed' = elapsed + took
         /\ QueryResult(outcome)
    /\ UNCHANGED <<qnames, qname, currentServers, nameserver, tcpAttempt, backoff>>

ResolverNext == Resolve \/ NextRequest \/ NextNameserver \/ ComputeTimeout \/ Exchange
\* A call that has begun goes on.
ResolverProgress == NextRequest \/ NextNameserver \/ ComputeTimeout \/ Exchange
ResolverSpec == ResolverInit /\ [][ResolverNext]_resolverVars /\ WF_resolverVars(ResolverProgress)

-----------------------------------------------------------------------------
(* Properties. *)

\* resolve() raises NXDOMAIN only when a server, or the cache, has denied each
\* of the names, and an answer is for the first name that was not denied; it
\* gives up for want of servers only when each of them was found broken for
\* that very name, and for want of time only when the lifetime is over.
ResolutionJustified ==
    /\ resolving \in Endings \ {"NXDOMAIN"} =>
         \A i \in 1..Len(Names) - Len(qnames) - 1 : Names[i] \in nxdomains
    /\ resolving = "NXDOMAIN" => nxdomains = ToSet(Names)
    /\ resolving = "NoNameservers" => blamed = ToSet(Servers)
    /\ resolving = "LifetimeTimeout" => elapsed >= Lifetime
    /\ resolving = "exchanging" => nameserver \in ToSet(nameservers) \ blamed

\* Every resolution ends, however servers fail and back off, and no later than
\* the longest back-off after its lifetime: what asks for it can count on that.
ResolutionTimely == 
    /\ [](elapsed <= Lifetime + MaxBackoff)
    /\ resolving = "next_request" ~> resolving \in Endings

\* No answer, of a resolution or of the exchange below it, but one that a
\* server gave to the question, and no failure that was not met.
LookupsSound == ResolutionJustified /\ ExchangeSound

\* Both end, whatever the servers do: the resolution within its lifetime.
LookupsEnd == ResolutionTimely /\ ExchangeEnds
=============================================================================
