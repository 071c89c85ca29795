---------------------------- MODULE NameService ----------------------------
(***************************************************************************)
(* The parts of the name service below the proxy, each by itself: how the  *)
(* proxy reaches a host, one resolution, its cache, one exchange with a    *)
(* server, the messages exchanged, updates, queries over QUIC, the search  *)
(* for a zone, tables of names, zone files, zones that are read, changed   *)
(* and transferred, and their signatures.  Each takes from the others only *)
(* what they promise, and they share no state; part says which one takes   *)
(* the steps.                                                              *)
(***************************************************************************)
EXTENDS Outbound, DnsResolver, DnsCache, DnsMessage, UpdateMessage,
        ZoneLookup, QuicStreams, NameTable, ZoneFileTokens, ZoneFileReader, ZoneVersions,
        InboundTransfer, Dnssec

VARIABLE part

nameServiceVars == <<part, outboundVars, resolverVars, cacheVars, exchangeVars,
                     messageVars, updateVars, lookupVars, quicVars, tableVars,
                     tokenVars, readerVars, zoneVars, transferVars, dnssecVars>>

Parts == {"outbound", "resolver", "cache", "exchange", "message", "update", "lookup",
          "quic", "names", "tokens", "file", "zone", "transfer", "dnssec"}

NameServiceInit ==
    /\ part \in Parts
    /\ OutboundInit /\ ResolverInit /\ CacheInit /\ ExchangeInit
    /\ MessageInit /\ UpdateInit /\ LookupInit /\ QuicInit /\ TableInit /\ TokenInit /\ ReaderInit
    /\ ZoneInit /\ TransferInit /\ DnssecInit

\* All parts but p stay as they are.
Only(p) ==
    /\ part = p /\ UNCHANGED part
    /\ p # "outbound" => UNCHANGED outboundVars
    /\ p # "resolver" => UNCHANGED resolverVars
    /\ p # "cache"    => UNCHANGED cacheVars
    /\ p # "exchange" => UNCHANGED exchangeVars
    /\ p # "message"  => UNCHANGED messageVars
    /\ p # "update"   => UNCHANGED updateVars
    /\ p # "lookup"   => UNCHANGED lookupVars
    /\ p # "quic"     => UNCHANGED quicVars
    /\ p # "names"    => UNCHANGED tableVars
    /\ p # "tokens"   => UNCHANGED tokenVars
    /\ p # "file"     => UNCHANGED readerVars
    /\ p # "zone"     => UNCHANGED zoneVars
    /\ p # "transfer" => UNCHANGED transferVars
    /\ p # "dnssec"   => UNCHANGED dnssecVars

NameServiceNext ==
    \/ part = "outbound" /\ OutboundNext /\ Only("outbound")
    \/ part = "resolver" /\ ResolverNext /\ Only("resolver")
    \/ part = "cache"    /\ CacheNext    /\ Only("cache")
    \/ part = "exchange" /\ ExchangeNext /\ Only("exchange")
    \/ part = "message"  /\ MessageNext  /\ Only("message")
    \/ part = "update"   /\ UpdateNext   /\ Only("update")
    \/ part = "lookup"   /\ LookupNext   /\ Only("lookup")
    \/ part = "quic"     /\ QuicNext     /\ Only("quic")
    \/ part = "names"    /\ NameTableNext /\ Only("names")
    \/ part = "tokens"   /\ TokenNext    /\ Only("tokens")
    \/ part = "file"     /\ ReaderNext   /\ Only("file")
    \/ part = "zone"     /\ ZoneNext     /\ Only("zone")
    \/ part = "transfer" /\ TransferNext /\ Only("transfer")
    \/ part = "dnssec"   /\ DnssecNext   /\ Only("dnssec")

\* What has begun goes on, whatever part it is: a resolution, an exchange, a
\* write transaction, each of the queries over QUIC, and what came for it.
NameServiceSpec ==
    /\ NameServiceInit /\ [][NameServiceNext]_nameServiceVars
    /\ WF_resolverVars(part = "resolver" /\ ResolverProgress)
    /\ WF_exchangeVars(part = "exchange" /\ ExchangeProgress)
    /\ WF_zoneVars(part = "zone" /\ ZoneProgress)
    /\ WF_quicVars(part = "quic" /\ \E q \in QuicQueries : WorkerProgress(q))
    /\ \A q \in QuicQueries : WF_quicVars(part = "quic" /\ ReceiveProgress(q))
=============================================================================
