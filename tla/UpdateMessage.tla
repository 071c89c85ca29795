--------------------------- MODULE UpdateMessage ---------------------------
(***************************************************************************)
(* A dynamic update (dns/update.py): the calls that put prerequisites and  *)
(* changes of a zone into the sections of a message, the records that      *)
(* dns.rdataset writes for them, and how dns.message reads them back.      *)
(***************************************************************************)
EXTENDS Naturals, Sequences, SequencesExt, FiniteSets

CONSTANTS
    UpdateNames, UpdateTypes, UpdateData, \* owners, types and contents of records
    ZoneBefore,                           \* the zone at the server: a set of [name, type, data]
    MaxCalls                              \* bound on the calls

ASSUME UpdateAssumption ==
    /\ MaxCalls \in Nat /\ {"ANY", "SOA"} \cap UpdateTypes = {} /\ IsFiniteSet(UpdateData)
    /\ ZoneBefore \subseteq [name : UpdateNames, type : UpdateTypes, data : UpdateData]

VARIABLES
    prerequisite, update, \* sections of the message, of Entries
    calls,
    zoneAfter,            \* what the calls make of it (not in the code)
    demands,              \* what the calls demand of it (not in the code)
    arrived               \* the sections as they were read

updateVars == <<prerequisite, update, calls, zoneAfter, demands, arrived>>

\* An RRset of a section; deleting "no" stands for None.
Entry(n, rdclass, rdtype, deleting, rds) ==
    [name |-> n, rdclass |-> rdclass, rdtype |-> rdtype, deleting |-> deleting, rds |-> rds]
NotArrived == [error |-> FALSE, prerequisite |-> << >>, update |-> << >>, is |-> FALSE]

UpdateInit ==
    /\ prerequisite = << >> /\ update = << >> /\ calls = 0
    /\ zoneAfter = ZoneBefore
    /\ demands = {} /\ arrived = NotArrived

-----------------------------------------------------------------------------
(* The calls. *)

\* Faulty variant: force_unique is not set.
UniqueRRset_Merged(section, e) ==
    LET SameKey(i) == [section[i] EXCEPT !.rds = e.rds] = e
        found == {i \in DOMAIN section : SameKey(i)}
    IN  IF found = {} THEN Append(section, e)
        ELSE LET i == CHOOSE i \in found : TRUE
             IN  [section EXCEPT ![i].rds = @ \o e.rds]

\* find_rrset() of dns.message, which every call makes with force_unique.
UniqueRRset(section, e) == Append(section, e)

\* _add_rr(), for each record.
AddRRs(section, n, t, data, deleting) ==
    FoldLeft(LAMBDA sec, d : UniqueRRset(sec, Entry(n, "IN", t, deleting, <<d>>)), section, data)

DeleteType(section, n, t) == UniqueRRset(section, Entry(n, "IN", t, "ANY", << >>))
Of(n, t, data) == {[name |-> n, type |-> t, data |-> d] : d \in Range(data)}
RecordsOf(zone, n, types) == {r \in zone : r.name = n /\ r.type \in types}

Call ==
    /\ ~arrived.is /\ calls < MaxCalls /\ calls' = calls + 1
    /\ UNCHANGED arrived
Changes(section, zone) ==
    Call /\ update' = section /\ zoneAfter' = zone /\ UNCHANGED <<prerequisite, demands>>
Requires(section, demand) ==
    /\ Call /\ prerequisite' = section /\ demands' = demands \cup demand
    /\ UNCHANGED <<update, zoneAfter>>

Add(n, t, data) ==
    Changes(AddRRs(update, n, t, data, "no"), zoneAfter \cup Of(n, t, data))

\* replace() deletes the type in the update section, and adds.
Replace(n, t, data) ==
    Changes(AddRRs(DeleteType(update, n, t), n, t, data, "no"),
            (zoneAfter \ RecordsOf(zoneAfter, n, {t})) \cup Of(n, t, data))

\* delete(), with a name alone, with a type, and with records.
Delete(n, t, data) ==
    \/ Changes(UniqueRRset(update, Entry(n, "ANY", "ANY", "ANY", << >>)),
               zoneAfter \ RecordsOf(zoneAfter, n, UpdateTypes))
    \/ Changes(DeleteType(update, n, t), zoneAfter \ RecordsOf(zoneAfter, n, {t}))
    \/ Changes(AddRRs(update, n, t, data, "NONE"), zoneAfter \ Of(n, t, data))

Demand(kind, n, types, records) ==
    {[kind |-> kind, name |-> n, types |-> types, records |-> records]}

\* present(), with a name alone, with a type, and with records.
Present(n, t, data) ==
    \/ Requires(UniqueRRset(prerequisite, Entry(n, "ANY", "ANY", "no", << >>)),
                Demand("some", n, UpdateTypes, {}))
    \/ Requires(UniqueRRset(prerequisite, Entry(n, "ANY", t, "no", << >>)), Demand("some", n, {t}, {}))
    \/ Requires(AddRRs(prerequisite, n, t, data, "no"), Demand("these", n, {t}, Of(n, t, data)))

\* absent(), with a name alone and with a type.
Absent(n, t) ==
    \/ Requires(UniqueRRset(prerequisite, Entry(n, "NONE", "ANY", "no", << >>)),
                Demand("none", n, UpdateTypes, {}))
    \/ Requires(UniqueRRset(prerequisite, Entry(n, "NONE", t, "no", << >>)), Demand("none", n, {t}, {}))

-----------------------------------------------------------------------------
(* The message is sent. *)

\* to_wire() of dns.rdataset: an RRset without records makes one record
\* without data.
RecordOf(e, data) ==
    [name |-> e.name, type |-> e.rdtype, data |-> data,
     class |-> IF e.deleting # "no" THEN e.deleting ELSE e.rdclass]
WireOf(e) ==
    IF e.rds = << >> THEN <<RecordOf(e, << >>)>> ELSE [i \in DOMAIN e.rds |-> RecordOf(e, <<e.rds[i]>>)]
Written(section) == FlattenSeq([i \in DOMAIN section |-> WireOf(section[i])])

\* _parse_rr_header(), behind a zone section that holds the SOA, of class IN.
Meta(rr) == rr.class \in {"ANY", "NONE"}
Dataless(rr, which) == Meta(rr) /\ (rr.class = "ANY" \/ which = "prerequisite")
ReadUpdate(rr) ==
    IF Meta(rr) THEN Entry(rr.name, "IN", rr.type, rr.class, rr.data)
    ELSE Entry(rr.name, rr.class, rr.type, "no", rr.data)
ReadBack(rrs) == [i \in DOMAIN rrs |-> ReadUpdate(rrs[i])]
FormError(rrs, which) == \E i \in DOMAIN rrs : ~(Dataless(rrs[i], which) <=> rrs[i].data = << >>)

Send ==
    /\ ~arrived.is
    /\ LET written == [prerequisite |-> Written(prerequisite), update |-> Written(update)]
       IN  arrived' = [error |-> \E which \in DOMAIN written : FormError(written[which], which),
                       prerequisite |-> ReadBack(written.prerequisite),
                       update |-> ReadBack(written.update), is |-> TRUE]
    /\ UNCHANGED <<prerequisite, update, calls, zoneAfter, demands>>

UpdateNext ==
    \/ \E n \in UpdateNames, t \in UpdateTypes :
         \/ Absent(n, t)
         \/ \E data \in {SetToSeq(some) : some \in (SUBSET UpdateData) \ {{}}} :
              Add(n, t, data) \/ Replace(n, t, data) \/ Delete(n, t, data) \/ Present(n, t, data)
    \/ Send

UpdateSpec == UpdateInit /\ [][UpdateNext]_updateVars

-----------------------------------------------------------------------------
(* Properties. *)

\* What RFC 2136 has a server do with one entry of the update section.
TypesOf(e) == IF e.rdtype = "ANY" THEN UpdateTypes ELSE {e.rdtype}
Applied(zone, e) ==
    CASE e.deleting = "ANY"  -> zone \ RecordsOf(zone, e.name, TypesOf(e))
      [] e.deleting = "NONE" -> zone \ Of(e.name, e.rdtype, e.rds)
      [] e.deleting = "no"   -> zone \cup Of(e.name, e.rdtype, e.rds)

\* When it finds the prerequisites met: an RRset that they give records of has
\* those and no others.
Given(entries, n, t) ==
    UNION {Of(n, t, entries[i].rds) :
             i \in {k \in DOMAIN entries : entries[k].name = n /\ entries[k].rdtype = t /\ entries[k].deleting = "no"}}
Met(entries, zone) ==
    \A i \in DOMAIN entries :
      LET e == entries[i]
          there == RecordsOf(zone, e.name, TypesOf(e))
      IN  CASE e.deleting = "ANY"  -> there # {}
            [] e.deleting = "NONE" -> there = {}
            [] e.deleting = "no"   -> there = Given(entries, e.name, e.rdtype)

AllOf(n, types) == UNION {d.records : d \in {q \in demands : q.kind = "these" /\ q.name = n /\ q.types = types}}
Demanded(zone) ==
    \A d \in demands :
      LET there == RecordsOf(zone, d.name, d.types)
      IN  CASE d.kind = "some"  -> there # {}
            [] d.kind = "none"  -> there = {}
            [] d.kind = "these" -> there = AllOf(d.name, d.types)

\* The server makes of the zone what the calls make of it one after the other,
\* and does so when what they demand is so: the order of the calls, and which
\* records belong to which call, is in the message and comes back out of it.
UpdateMeansItsCalls ==
    arrived.is =>
        /\ ~arrived.error
        /\ FoldLeft(Applied, ZoneBefore, arrived.update) = zoneAfter
        /\ (Met(arrived.prerequisite, ZoneBefore) <=> Demanded(ZoneBefore))
=============================================================================
