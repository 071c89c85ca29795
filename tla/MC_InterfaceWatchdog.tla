------------------------ MODULE MC_InterfaceWatchdog ------------------------
\* InterfaceWatchdog with an en* and a cellular interface.
EXTENDS InterfaceWatchdog

CONSTANTS en2, pdp, a, b, g

KindOf == [n \in Names |-> IF n = en2 THEN "local" ELSE "cellular"]

\* No address, one of two IPv4 addresses, IPv6 too, IPv6 only.
Bare == [ipv4 |-> None, ipv6 |-> None]
OneA == [ipv4 |-> a, ipv6 |-> None]
OneB == [ipv4 |-> b, ipv6 |-> None]
Both == [ipv4 |-> a, ipv6 |-> g]
OnlyIPv6 == [ipv4 |-> None, ipv6 |-> g]

FewAddresses == {Bare, OneA, OneB}
IPv6Addresses == {Bare, OneA, Both, OnlyIPv6}
=============================================================================
