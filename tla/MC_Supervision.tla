-------------------------- MODULE MC_Supervision --------------------------
\* Supervision with probes that fail one by one, and interfaces that come and
\* go: none, one, those of a phone, and those of a hotspot whose VPN has no
\* IPv4 address.
EXTENDS Supervision

AnyGlitch == SUBSET Listeners

WithIPv4(interfaceKind) == [kind |-> interfaceKind, ipv4 |-> TRUE]
SomeLists ==
    {<< >>,
     <<WithIPv4("en")>>,
     <<WithIPv4("lo"), WithIPv4("en"), WithIPv4("pdp_ip")>>,
     <<WithIPv4("bridge"), WithIPv4("en"), [kind |-> "utun", ipv4 |-> FALSE]>>}
=============================================================================
