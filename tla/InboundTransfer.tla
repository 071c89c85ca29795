-------------------------- MODULE InboundTransfer --------------------------
(***************************************************************************)
(* A zone transfer into a zone: inbound_xfr() with dns.xfr.Inbound, which  *)
(* takes the records one by one, as an AXFR or an IXFR, into a             *)
(* transaction.  What the server sends is any row of records, divided into *)
(* messages anywhere, that may break off anywhere.  A message is a record  *)
(* and where it ends; a transaction is what it has made of the zone.       *)
(* Signed transfers are left out.                                          *)
(***************************************************************************)
EXTENDS Naturals, Sequences, FiniteSets

CONSTANTS
    SerialModulus, \* dns.serial.Serial: the numbers of a circle, 2^bits, RFC 1982
    Serials,       \* of the SOAs that the server sends
    ZoneRecords,   \* the other records
    HeldZones,     \* the zones to begin with, [serial, records]
    NoSoa,         \* None, where there is no SOA; not a serial
    MaxReceived    \* bound: records that the server sends

ASSUME SerialAssumption == SerialModulus \in Nat /\ SerialModulus >= 4 /\ SerialModulus % 2 = 0
ASSUME TransferAssumption ==
    /\ Serials \subseteq 0..SerialModulus - 1 /\ NoSoa \notin Serials
    /\ HeldZones \subseteq [serial : Serials \cup {NoSoa}, records : SUBSET ZoneRecords]

SerialHalf == SerialModulus \div 2

SerialLess(a, b) ==
    \/ a < b /\ b - a < SerialHalf
    \/ a > b /\ a - b > SerialHalf

VARIABLES
    held,        \* the zone at first
    zone,        \* what has been committed
    transfer,    \* "running", or how inbound_xfr() has ended
    udpMode,     \* "NEVER", "TRY_FIRST" or "ONLY"
    inbound,     \* the Inbound of the connection
    txn,         \* its transaction: << >>, or the zone as it would be
    inMessage,   \* whether the last message has more records
    received     \* all records of the connection (not in the code)

transferVars == <<held, zone, transfer, udpMode, inbound, txn, inMessage, received>>

Soa(n) == [soa |-> n, record |-> NoSoa]
Record(r) == [soa |-> NoSoa, record |-> r]
Sendable == {Soa(n) : n \in Serials} \cup {Record(r) : r \in ZoneRecords}
IsSoa(rr) == rr.soa # NoSoa

NoZone == [serial |-> NoSoa, records |-> {}]
NewInbound(mode, rdtype, serial) ==
    [rdtype |-> rdtype, serial |-> serial, isUdp |-> rdtype = "IXFR" /\ mode # "NEVER",
     soa |-> NoSoa, done |-> FALSE, expectingSoa |-> FALSE, deleteMode |-> FALSE]

TransferInit ==
    /\ held = NoZone /\ zone = held
    /\ udpMode = "NEVER" /\ inbound = NewInbound("NEVER", "AXFR", NoSoa)
    /\ transfer = "idle" /\ txn = << >> /\ inMessage = FALSE /\ received = << >>

\* make_query(): an IXFR from the zone's serial if it has one, or an AXFR
\* where the caller wants that.
InboundXfr ==
    /\ transfer = "idle" /\ transfer' = "running"
    /\ held' \in HeldZones /\ zone' = held'
    /\ udpMode' \in {"NEVER", "TRY_FIRST", "ONLY"}
    /\ \E rdtype \in IF held'.serial = NoSoa THEN {"AXFR"} ELSE {"AXFR", "IXFR"} :
         inbound' = NewInbound(udpMode', rdtype, held'.serial)
    /\ UNCHANGED <<txn, inMessage, received>>

\* process_message() begins a transaction with the first message.
Begun == IF inbound.rdtype = "AXFR" THEN NoZone ELSE zone

-----------------------------------------------------------------------------
(* The ends of a transfer; leaving Inbound rolls an open transaction back.  *)

Leave == txn' = << >>

Fails == transfer' = "failed" /\ Leave /\ UNCHANGED <<zone, inbound, udpMode, received>>

\* The connection breaks, a timeout is over, a message is bad, has an error
\* for an rcode or answers another question, or the first has no SOA to begin
\* with.
Broken ==
    /\ transfer = "running" /\ ~inMessage
    /\ Fails
    /\ UNCHANGED <<held, inMessage>>

\* The last record of a message is done with.
MessageOver ==
    /\ transfer = "running" /\ inMessage
    /\ IF inbound.isUdp /\ ~inbound.done THEN Fails
       ELSE IF inbound.done
       THEN transfer' = "done" /\ Leave /\ UNCHANGED <<zone, inbound, udpMode, received>>
       ELSE UNCHANGED <<transfer, txn, zone, inbound, udpMode, received>>
    /\ inMessage' = FALSE /\ UNCHANGED held

\* UseTCP: a UDP answer of one SOA that is newer.
UseTcp ==
    /\ transfer = "running" /\ inMessage /\ inbound.isUdp
    /\ Len(received) = 1 /\ ~inbound.done
    /\ Leave /\ inMessage' = FALSE /\ UNCHANGED <<held, zone>>
    /\ IF udpMode = "ONLY"
       THEN transfer' = "UseTCP" /\ UNCHANGED <<inbound, udpMode, received>>
       ELSE /\ udpMode' = "NEVER" /\ inbound' = NewInbound("NEVER", "IXFR", held.serial)
            /\ received' = << >> /\ UNCHANGED transfer

-----------------------------------------------------------------------------
(* The records of the answer section. *)

MayReceive ==
    /\ transfer = "running" /\ Len(received) < MaxReceived
    /\ inMessage' = TRUE /\ UNCHANGED <<held, udpMode>>

\* The SOA the first message begins with.
FirstSoa ==
    /\ MayReceive /\ ~inMessage /\ inbound.soa = NoSoa
    /\ \E n \in Serials :
         /\ received' = <<Soa(n)>>
         /\ IF inbound.rdtype = "IXFR" /\ SerialLess(n, inbound.serial)
            THEN transfer' = "failed" /\ Leave /\ UNCHANGED inbound
            ELSE /\ txn' = <<Begun>>
                 /\ inbound' = [inbound EXCEPT !.soa = n,
                                   !.done = (inbound.rdtype = "IXFR" /\ n = inbound.serial),
                                   !.expectingSoa = (inbound.rdtype = "IXFR" /\ n # inbound.serial)]
                 /\ UNCHANGED transfer
    /\ UNCHANGED zone

\* Faulty variant: a deletion set is taken whatever serial it is from.
SoaFits_AnyBase(n) ==
    LET deletes == inbound.rdtype = "IXFR" /\ ~inbound.deleteMode
        ends == n = inbound.soa /\ (inbound.rdtype = "AXFR" \/ deletes)
    IN  CASE ends -> ~inbound.expectingSoa /\ (deletes => n = inbound.serial)
          [] ~ends /\ inbound.rdtype = "AXFR" -> FALSE
          [] OTHER -> TRUE

\* Whether an SOA of the origin, not the first, may come here: as the last of
\* all, at the start of a deletion set or of an addition set.
SoaFits(n) ==
    LET deletes == inbound.rdtype = "IXFR" /\ ~inbound.deleteMode
        ends == n = inbound.soa /\ (inbound.rdtype = "AXFR" \/ deletes)
    IN  CASE ends -> ~inbound.expectingSoa /\ (deletes => n = inbound.serial)
          [] ~ends /\ inbound.rdtype = "AXFR" -> FALSE
          [] OTHER -> deletes => n = inbound.serial

OriginSoa(n) ==
    LET deletes == inbound.rdtype = "IXFR" /\ ~inbound.deleteMode
        ends == n = inbound.soa /\ (inbound.rdtype = "AXFR" \/ deletes)
    IN  /\ inbound' = [inbound EXCEPT !.deleteMode = deletes, !.expectingSoa = FALSE, !.done = ends,
                          !.serial = IF ends \/ deletes THEN @ ELSE n]
        /\ IF ends THEN zone' = [txn[1] EXCEPT !.serial = n] /\ txn' = << >>
           ELSE /\ txn' = IF deletes THEN txn ELSE <<[txn[1] EXCEPT !.serial = n]>>
                /\ UNCHANGED zone

\* Any other record: where an SOA was expected, the answer is an AXFR.
DataRecord(r) ==
    LET axfr == inbound.expectingSoa
        begun == IF axfr THEN NoZone ELSE txn[1]
        deletes == inbound.deleteMode /\ ~axfr
    IN  /\ inbound' = IF axfr THEN [inbound EXCEPT !.rdtype = "AXFR", !.expectingSoa = FALSE, !.deleteMode = FALSE]
                      ELSE inbound
        /\ txn' = <<[begun EXCEPT !.records = IF deletes THEN @ \ {r} ELSE @ \cup {r}]>>
        /\ UNCHANGED zone

\* delete_exact() raises where there is nothing to delete.
RecordFits(r) == inbound.deleteMode => r \in txn[1].records

NextRecord ==
    /\ MayReceive /\ inbound.soa # NoSoa /\ (inMessage \/ ~inbound.done)
    /\ \E rr \in Sendable :
         /\ received' = Append(received, rr)
         /\ IF inbound.done \/ (IF IsSoa(rr) THEN ~SoaFits(rr.soa) ELSE ~RecordFits(rr.record))
            THEN transfer' = "failed" /\ Leave /\ UNCHANGED <<zone, inbound>>
            ELSE /\ UNCHANGED transfer
                 /\ IF IsSoa(rr) THEN OriginSoa(rr.soa) ELSE DataRecord(rr.record)

TransferNext == InboundXfr \/ Broken \/ MessageOver \/ UseTcp \/ FirstSoa \/ NextRecord
TransferSpec == TransferInit /\ [][TransferNext]_transferVars

-----------------------------------------------------------------------------
(* Properties. *)

SoasUpTo(rrs, i) == Cardinality({j \in 1..i : IsSoa(rrs[j])})

\* A whole AXFR: an SOA, the records, the SOA again.
CompleteAxfr(rrs) ==
    /\ Len(rrs) > 1 /\ IsSoa(rrs[1]) /\ rrs[Len(rrs)] = rrs[1]
    /\ SoasUpTo(rrs, Len(rrs)) = 2

\* A whole IXFR: the newest SOA, then in turn the SOA of a version with what
\* is deleted from it and the SOA of the next with what is added, as long as
\* the last is not the newest; and this SOA again.
CompleteIxfr(rrs, from) ==
    LET soas == {i \in DOMAIN rrs : IsSoa(rrs[i])}
        nth(k) == rrs[CHOOSE i \in soas : SoasUpTo(rrs, i) = k].soa
        n == Cardinality(soas)
    IN  /\ Len(rrs) > 3 /\ rrs[Len(rrs)] = rrs[1] /\ n % 2 = 0 /\ n > 3
        /\ IsSoa(rrs[1]) /\ IsSoa(rrs[2]) /\ nth(2) = from
        /\ \A k \in 2..n \div 2 : nth(2 * k) = nth(2 * k - 1)
        /\ \A k \in 2..n \div 2 - 1 : nth(2 * k) # nth(1)

\* What it makes of a zone: by its last mention, a record is added or deleted.
Mentioned(rrs) == {rr.record : rr \in {rrs[i] : i \in {j \in DOMAIN rrs : ~IsSoa(rrs[j])}}}
LastAdded(rrs, r) ==
    LET last == CHOOSE i \in DOMAIN rrs : rrs[i] = Record(r) /\ \A j \in i + 1..Len(rrs) : rrs[j] # Record(r)
    IN  SoasUpTo(rrs, last) % 2 = 1
AfterTransfer(rrs, from) ==
    [serial |-> rrs[1].soa,
     records |-> {r \in ZoneRecords : IF r \in Mentioned(rrs) THEN LastAdded(rrs, r) ELSE r \in from}]

Transferred(rrs) ==
    \/ CompleteAxfr(rrs) /\ zone = AfterTransfer(rrs, {})
    \/ CompleteIxfr(rrs, held.serial) /\ zone = AfterTransfer(rrs, held.records)

\* The zone stays as it was, or is exactly what a whole transfer makes of it;
\* it is the latter, or up to date, when inbound_xfr() returns; and however
\* that ends no transaction stays open, which would keep out every writer.
TransferAllOrNothing ==
    /\ zone = held \/ \E k \in DOMAIN received : Transferred(SubSeq(received, 1, k))
    /\ transfer = "done" => Transferred(received) \/ (zone = held /\ received = <<Soa(held.serial)>>)
    /\ transfer # "running" => txn = << >>
=============================================================================
