----------------------------- MODULE ZoneLookup -----------------------------
(***************************************************************************)
(* zone_for_name(): which zone a name is in, asked of name servers one     *)
(* label at a time, and what it and every resolution rest on: how          *)
(* QueryMessage.resolve_chaining() follows the CNAMEs of a response.  The  *)
(* servers know the zones and the aliases, answer truly, and may leave out *)
(* the SOA record that says which zone has no such data.                   *)
(***************************************************************************)
EXTENDS Naturals, Sequences, FiniteSets, SequencesExt

CONSTANTS
    DomainNames,   \* sequences of labels, << >> the root, with their parents
    Aliases,       \* those that may have a CNAME record
    MaxChain,      \* MAX_CHAIN
    MaxTtl         \* dns.ttl.MAX_TTL

ASSUME LookupAssumption ==
    /\ DomainNames \subseteq Seq(UNION {Range(n) : n \in DomainNames}) /\ IsFiniteSet(Aliases)
    /\ << >> \in DomainNames /\ Aliases \subseteq DomainNames \ {<< >>}
    /\ \A n \in DomainNames \ {<< >>} : Tail(n) \in DomainNames
    /\ {MaxChain, MaxTtl} \subseteq Nat \ {0}

VARIABLES
    zones,         \* the apexes (the servers' data)
    alias,         \* the owners of CNAME records, with their targets
    lifetimes,     \* the TTL of each CNAME record
    async,         \* dns.asyncresolver's zone_for_name()
    wanted,        \* the name that was asked for
    name,
    response,      \* the last response
    searching         \* "idle", "asking", "answered", "found", "raised"

lookupVars == <<zones, alias, lifetimes, async, wanted, name, response, searching>>

Encloses(super, n) == IsSuffix(super, n)
Closest(apexes, n) ==
    CHOOSE z \in apexes : Encloses(z, n) /\ \A y \in apexes : Encloses(y, n) => Len(y) <= Len(z)

NoResponse == [rcode |-> "none", cnames |-> << >>, soa |-> << >>, authority |-> << >>]

LookupInit ==
    /\ zones = {} /\ alias = << >> /\ lifetimes = << >>
    /\ async = TRUE
    /\ wanted = << >> /\ name = << >>
    /\ response = NoResponse
    /\ searching = "idle"

\* A call, with whatever the servers know.
ZoneForName ==
    /\ searching = "idle"
    /\ zones' \in {{<< >>} \cup more : more \in SUBSET (DomainNames \ {<< >>})}
    /\ alias' \in UNION {[owners -> DomainNames] : owners \in SUBSET (Aliases \ zones')}
    /\ lifetimes' \in [DOMAIN alias' -> 0..MaxTtl - 1]
    /\ async' \in BOOLEAN
    /\ wanted' \in DomainNames /\ name' = wanted'
    /\ searching' = "asking"
    /\ UNCHANGED response

\* The owners that a server comes to, a CNAME record after the other.
Followed(n) ==
    LET at[k \in 0..Cardinality(Aliases)] ==
            IF k = 0 THEN n ELSE IF at[k - 1] \in DOMAIN alias THEN alias[at[k - 1]] ELSE at[k - 1]
    IN  at
CnameChain(n) == {Followed(n)[k] : k \in 0..Cardinality(Aliases)}

\* The name at the end, unless they go round.
ChainEnd(owners) == {n \in owners : n \notin DOMAIN alias}

-----------------------------------------------------------------------------
(* QueryMessage.resolve_chaining(). *)

Lower(a, b) == IF a < b THEN a ELSE b

\* One turn of the loop, at a name: to the SOA record, or by a CNAME.
Turn(message, at) ==
    CASE at.end # "none" -> at
      [] at.end = "none" /\ at.n \in DOMAIN message.soa ->
           [at EXCEPT !.end = "answer", !.ttl = Lower(@, message.soa[at.n])]
      [] at.end = "none" /\ at.n \in DOMAIN message.cnames \ DOMAIN message.soa ->
           [at EXCEPT !.n = message.cnames[at.n].target, !.ttl = Lower(@, message.cnames[at.n].ttl)]
      [] OTHER -> [at EXCEPT !.end = "no answer"]
Turns(message, qname) ==
    LET at[k \in 0..MaxChain] ==
            IF k = 0 THEN [n |-> qname, ttl |-> MaxTtl, end |-> "none"] ELSE Turn(message, at[k - 1])
    IN  at

\* Without an answer, the SOA record of the closest zone in the authority
\* section bounds the TTL as well.
ResolveChaining(message, qname) ==
    LET last  == Turns(message, qname)[MaxChain]
        above == {z \in DOMAIN message.authority : Encloses(z, last.n)}
    IN  CASE last.end = "none" -> [last EXCEPT !.end = "ChainTooLong"]
          [] last.end = "answer" /\ message.rcode = "NXDOMAIN" -> [last EXCEPT !.end = "AnswerForNXDOMAIN"]
          [] last.end = "no answer" /\ above # {} ->
               [last EXCEPT !.ttl = Lower(@, message.authority[Closest(above, last.n)])]
          [] OTHER -> last
Raised == {"ChainTooLong", "AnswerForNXDOMAIN"}

-----------------------------------------------------------------------------
(* zone_for_name(). *)

\* A server answers an SOA query.
Answered ==
    /\ searching = "asking"
    /\ LET owners == CnameChain(name)
           cnames == [n \in owners \cap DOMAIN alias |-> [target |-> alias[n], ttl |-> lifetimes[n]]]
           data   == [n \in ChainEnd(owners) \cap zones |-> 1]
           denied == ChainEnd(owners) \ zones
       IN  \E rcode \in {"NOERROR"} \cup (IF denied = {} THEN {} ELSE {"NXDOMAIN"}), says \in BOOLEAN, ttl \in 0..1 :
              response' = [rcode |-> rcode, cnames |-> cnames, soa |-> data,
                           authority |-> IF says THEN [z \in {Closest(zones, n) : n \in denied} |-> ttl] ELSE << >>]
    /\ searching' = "answered"
    /\ UNCHANGED <<zones, alias, lifetimes, async, wanted, name>>

Return(zone) == searching' = "found" /\ name' = zone

\* parent(), or NoRootSOA.
LookHigher ==
    IF name = << >> THEN searching' = "raised" /\ UNCHANGED name
    ELSE searching' = "asking" /\ name' = Tail(name)

\* What the response, if it denies the data, says of the zone: only
\* dns.resolver looks at it.
Named == {z \in DOMAIN response.authority : ~async /\ Encloses(z, name) /\ z # name}

\* Faulty variant: the zone of the name that name is an alias of is taken.
Judge_AnyOwner ==
    LET answer == ResolveChaining(response, name)
    IN  CASE answer.end \in Raised -> searching' = "raised" /\ UNCHANGED name
          [] answer.end = "answer" -> Return(answer.n)
          [] answer.end = "no answer" /\ Named # {} -> \E z \in Named : Return(z)
          [] OTHER -> LookHigher

Judge ==
    LET answer == ResolveChaining(response, name)
    IN  CASE answer.end \in Raised -> searching' = "raised" /\ UNCHANGED name
          [] answer.end = "answer" /\ answer.n = name -> Return(name)
          [] answer.end = "no answer" /\ Named # {} -> \E z \in Named : Return(z)
          [] OTHER -> LookHigher

ResponseJudged ==
    /\ searching = "answered"
    /\ Judge
    /\ UNCHANGED <<zones, alias, lifetimes, async, wanted, response>>

LookupNext == ZoneForName \/ Answered \/ ResponseJudged
LookupSpec == LookupInit /\ [][LookupNext]_lookupVars

-----------------------------------------------------------------------------
(* Properties. *)

\* The zone that zone_for_name() finds is the one that the name is in: no zone
\* lies between, whatever aliases lead elsewhere on the way and whatever the
\* servers leave out.  dns.resolver's is as good as that only where the name
\* and those above it are no aliases: it also trusts the SOA record of the
\* zone that an alias leads to, if that zone happens to lie above.  No result
\* is kept longer than any of the records it rests on.
ZoneIsClosest ==
    /\ searching = "found" =>
         /\ name \in zones /\ Encloses(name, wanted)
         /\ async \/ (\A n \in DOMAIN alias : ~Encloses(n, wanted)) => name = Closest(zones, wanted)
    /\ searching = "answered" =>
         LET answer == ResolveChaining(response, name)
         IN  IF answer.end \notin Raised
             THEN \A n \in DOMAIN response.cnames : answer.ttl <= response.cnames[n].ttl
             ELSE ChainEnd(CnameChain(name)) = {} \/ Cardinality(DOMAIN response.cnames) >= MaxChain
=============================================================================
