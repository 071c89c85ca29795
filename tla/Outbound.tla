------------------------------ MODULE Outbound ------------------------------
(***************************************************************************)
(* How AsyncProxyServer reaches a host for a client: the constructor's     *)
(* choice of resolver and source addresses, and tcp_connect() with the     *)
(* lookups of both families and the race of IPv6 and IPv4 connections.     *)
(* A lookup is a call of DnsResolver, of which only what it promises is    *)
(* used: it ends within LookupBound.                                       *)
(***************************************************************************)
EXTENDS Naturals, FiniteSets

CONSTANTS
    ResolverFamilies,   \* the families of the configured name servers
    LookupBound,        \* a lookup ends within this time
    ConnectionTimeout,  \* connection_timeout
    NoFamily            \* None

IpFamilies == {"ipv4", "ipv6"}

ASSUME OutboundAssumption ==
    /\ ResolverFamilies \subseteq IpFamilies
    /\ LookupBound \in Nat /\ ConnectionTimeout \in Nat

VARIABLES
    connectHosts,    \* the families whose connect_host is not None
    resolverSource,  \* the family of resolver_source and the name servers kept
    addressType,     \* "ipv4", "ipv6", or "domain"
    outbound,        \* where tcp_connect() is, or how it has ended
    lookup,          \* per family, the state of its lookup
    waited,          \* how long gather() has waited
    resolved,        \* the families resolve_address() returned
    attempt          \* per family, the state of its connect

outboundVars == <<connectHosts, resolverSource, addressType, outbound, lookup, waited, resolved, attempt>>

\* The constructor: the name servers of one family are kept, and asked from
\* that family's connect host, IPv4 first.
ResolverSource(hosts) ==
    IF hosts = {} THEN NoFamily
    ELSE IF "ipv4" \in hosts \cap ResolverFamilies THEN "ipv4"
    ELSE IF "ipv6" \in hosts \cap ResolverFamilies THEN "ipv6"
    ELSE "none suitable"

OutboundInit ==
    /\ connectHosts = {} /\ resolverSource = NoFamily
    /\ addressType = "domain"
    /\ outbound = "idle"
    /\ lookup = [f \in IpFamilies |-> "none"]
    /\ waited = 0
    /\ resolved = {}
    /\ attempt = [f \in IpFamilies |-> "none"]

\* tcp_connect() of a server that could be constructed, with an address that a
\* handler has parsed.  A domain that is the text of an address is an address.
TcpConnect ==
    /\ outbound = "idle"
    /\ connectHosts' \in SUBSET IpFamilies
    /\ resolverSource' = ResolverSource(connectHosts') /\ resolverSource' # "none suitable"
    /\ addressType' \in IpFamilies \cup {"domain"}
    /\ outbound' = "resolving"
    /\ UNCHANGED <<lookup, waited, resolved, attempt>>

\* A connect host of one family alone rules the other family out.
Permitted(f) == connectHosts = {} \/ f \in connectHosts

-----------------------------------------------------------------------------
(* resolve_address(). *)

StartLookups ==
    /\ outbound = "resolving"
    /\ IF addressType = "domain"
       THEN /\ outbound' = "gathering"
            /\ lookup' = [f \in IpFamilies |-> IF Permitted(f) THEN "pending" ELSE "failed"]
            /\ UNCHANGED resolved
       ELSE /\ outbound' = "resolved"
            /\ resolved' = {f \in {addressType} : Permitted(f)}
            /\ UNCHANGED lookup
    /\ UNCHANGED <<connectHosts, resolverSource, addressType, waited, attempt>>

LookupEnds(f) ==
    /\ outbound = "gathering" /\ lookup[f] = "pending"
    /\ \E r \in {"answered", "failed"} : lookup' = [lookup EXCEPT ![f] = r]
    /\ UNCHANGED <<connectHosts, resolverSource, addressType, outbound, waited, resolved, attempt>>

\* Time passes, though not beyond what the lookups may take.  wait_for() would
\* raise TimeoutError after ConnectionTimeout: OutboundUsesWhatWorks says that
\* it never comes to that.
LookupWaits ==
    /\ outbound = "gathering" /\ \E f \in IpFamilies : lookup[f] = "pending"
    /\ waited < LookupBound
    /\ waited' = waited + 1
    /\ UNCHANGED <<connectHosts, resolverSource, addressType, outbound, lookup, resolved, attempt>>

\* Faulty variant: gather() without return_exceptions ends with the first
\* exception.
Gathered_FirstException ==
    /\ outbound = "gathering" /\ \A f \in IpFamilies : lookup[f] # "pending"
    /\ IF \E f \in IpFamilies : lookup[f] = "failed" /\ Permitted(f)
       THEN outbound' = "unresolved" /\ UNCHANGED resolved
       ELSE outbound' = "resolved" /\ resolved' = {f \in IpFamilies : lookup[f] = "answered"}
    /\ UNCHANGED <<connectHosts, resolverSource, addressType, lookup, waited, attempt>>

Gathered ==
    /\ outbound = "gathering" /\ \A f \in IpFamilies : lookup[f] # "pending"
    /\ outbound' = "resolved"
    /\ resolved' = {f \in IpFamilies : lookup[f] = "answered"}
    /\ UNCHANGED <<connectHosts, resolverSource, addressType, lookup, waited, attempt>>

-----------------------------------------------------------------------------
(* tcp_connect(). *)

BeginConnect ==
    /\ outbound = "resolved"
    /\ IF resolved = {}
       THEN outbound' = "unresolved" /\ UNCHANGED attempt
       ELSE /\ outbound' = "connecting"
            /\ LET first == IF "ipv6" \in resolved THEN "ipv6" ELSE "ipv4"
               IN  attempt' = [attempt EXCEPT ![first] = "open"]
    /\ UNCHANGED <<connectHosts, resolverSource, addressType, lookup, waited, resolved>>

\* staggered_race() starts the next connect after a delay, or as soon as the
\* one before has failed.
StartSecond ==
    /\ outbound = "connecting" /\ resolved = IpFamilies /\ attempt["ipv4"] = "none"
    /\ attempt' = [attempt EXCEPT !["ipv4"] = "open"]
    /\ UNCHANGED <<connectHosts, resolverSource, addressType, outbound, lookup, waited, resolved>>

\* The first connect that succeeds wins, and the other is cancelled.
ConnectSucceeds(f) ==
    /\ outbound = "connecting" /\ attempt[f] = "open"
    /\ outbound' = "connected"
    /\ attempt' = [g \in IpFamilies |->
                     IF g = f THEN "connected" ELSE IF attempt[g] = "open" THEN "cancelled" ELSE attempt[g]]
    /\ UNCHANGED <<connectHosts, resolverSource, addressType, lookup, waited, resolved>>

\* open_connection() fails or connection_timeout is over; when no connect is
\* left its exception, or the one of IPv6, is raised.
ConnectFails(f) ==
    /\ outbound = "connecting" /\ attempt[f] = "open"
    /\ attempt' = [attempt EXCEPT ![f] = "failed"]
    /\ outbound' = IF \A g \in resolved : attempt'[g] = "failed" THEN "refused" ELSE "connecting"
    /\ UNCHANGED <<connectHosts, resolverSource, addressType, lookup, waited, resolved>>

OutboundNext ==
    \/ TcpConnect \/ StartLookups \/ LookupWaits \/ Gathered
    \/ BeginConnect \/ StartSecond
    \/ \E f \in IpFamilies : LookupEnds(f) \/ ConnectSucceeds(f) \/ ConnectFails(f)
OutboundSpec == OutboundInit /\ [][OutboundNext]_outboundVars

-----------------------------------------------------------------------------
(* Properties. *)

\* A host is out of reach only when each family that could be used was tried:
\* one family's lookup or connect that fails, or takes long, does not cost the
\* other's.  What is reached is reached over a permitted family, once, and the
\* name servers that are asked are of a family the proxy has a source for.
OutboundUsesWhatWorks ==
    /\ outbound = "unresolved" =>
         \A f \in IpFamilies : Permitted(f) => lookup[f] # "answered" /\ addressType # f
    /\ waited < ConnectionTimeout
    /\ outbound = "refused" => \A f \in resolved : attempt[f] = "failed"
    /\ \A f \in IpFamilies : attempt[f] # "none" => Permitted(f) /\ f \in resolved
    /\ outbound = "connected" => Cardinality({f \in IpFamilies : attempt[f] \in {"connected", "open"}}) = 1
    /\ resolverSource = NoFamily \/ resolverSource \in connectHosts \cap ResolverFamilies
=============================================================================
