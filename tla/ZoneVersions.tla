---------------------------- MODULE ZoneVersions ----------------------------
(***************************************************************************)
(* dns.versioned.Zone: a zone as a row of versions that threads read while *)
(* one of them, in a transaction, makes the next.  A version maps owners   *)
(* to nodes and shares the nodes it did not change with the version        *)
(* before it; a node is known by the version that made it and its owner.   *)
(* A node is the set of its records; the records of one type are an        *)
(* rdataset.  Ttls, and the checks a caller may hook in, are left out.     *)
(***************************************************************************)
EXTENDS Naturals, Sequences, FiniteSets, FiniteSetsExt, SequencesExt

CONSTANTS
    Threads, Owners, Origin,
    RecordTypes,     \* a subset of {"SOA", "CNAME", "A", "NSEC"}
    RecordData,      \* per type, the data of its records
    SerialCircle,    \* dns.serial.Serial: how many there are, 2^bits
    Increments,      \* arguments of update_serial()
    MaxVersions,     \* arguments of set_max_versions(), 0 for the default policy
    LastVersion,     \* bound: versions made
    TxnOperations,   \* bound: changes of a transaction
    Nobody           \* None

ASSUME ZoneAssumption ==
    /\ Origin \in Owners /\ Nobody \notin Threads
    /\ RecordTypes \subseteq {"SOA", "CNAME", "A", "NSEC"}
    /\ Increments \cup MaxVersions \subseteq Nat
    /\ SerialCircle \in Nat /\ SerialCircle >= 4 /\ SerialCircle % 2 = 0
    /\ LastVersion \in Nat \ {0} /\ TxnOperations \in Nat

VARIABLES
    versions,       \* a sequence of [id, nodes]; nodes gives, per owner, the
                    \* version that made its node, 0 for none
    nodeRecords,    \* the records of the node an owner got in a version
    maxVersions,    \* what the pruning policy keeps, 0 for the default policy
    doing,          \* what each thread does
    readVersion,    \* per thread, the version its read transaction has
    writeTxn, writeEvent, writeWaiters,
    work,           \* the WritableVersion: [nodes, changed]
    operations      \* bound: changes left to the transaction

zoneVars == <<versions, nodeRecords, maxVersions, doing, readVersion,
              writeTxn, writeEvent, writeWaiters, work, operations>>

NoNodes == [o \in Owners |-> 0]
NoWork == [nodes |-> NoNodes, changed |-> {}]

\* Zone(): the first version is empty.
ZoneInit ==
    /\ versions = <<[id |-> 1, nodes |-> NoNodes]>>
    /\ nodeRecords = [i \in 1..LastVersion |-> [o \in Owners |-> {}]]
    /\ maxVersions = 0
    /\ doing = [t \in Threads |-> "nothing"]
    /\ readVersion = [t \in Threads |-> 0]
    /\ writeTxn = Nobody /\ writeEvent = Nobody /\ writeWaiters = << >>
    /\ work = NoWork /\ operations = 0

-----------------------------------------------------------------------------
(* Versions and their readers. *)

\* _prune_versions_unlocked(): from the oldest on, while no reader has it or
\* an older one and the policy gives it up.
Pruned(vs, pins, most) ==
    LET leastKept == Min({vs[Len(vs)].id} \cup pins)
    IN  SubSeq(vs, Min({i \in DOMAIN vs : vs[i].id >= leastKept \/ Len(vs) - i + 1 <= most}), Len(vs))

Pins(f) == {f[t] : t \in Threads} \ {0}

\* reader(): the newest version, or the one that has an id or a serial.
Reader(t) ==
    /\ doing[t] = "nothing"
    /\ doing' = [doing EXCEPT ![t] = "reading"]
    /\ \E v \in ToSet(versions) : readVersion' = [readVersion EXCEPT ![t] = v.id]
    /\ UNCHANGED <<versions, nodeRecords, maxVersions, writeTxn, writeEvent, writeWaiters, work, operations>>

EndRead(t) ==
    /\ doing[t] = "reading"
    /\ doing' = [doing EXCEPT ![t] = "nothing"]
    /\ readVersion' = [readVersion EXCEPT ![t] = 0]
    /\ versions' = Pruned(versions, Pins(readVersion'), maxVersions)
    /\ UNCHANGED <<nodeRecords, maxVersions, writeTxn, writeEvent, writeWaiters, work, operations>>

SetMaxVersions(n) ==
    /\ maxVersions' = n
    /\ versions' = Pruned(versions, Pins(readVersion), n)
    /\ UNCHANGED <<nodeRecords, doing, readVersion, writeTxn, writeEvent, writeWaiters, work, operations>>

-----------------------------------------------------------------------------
(* One writer at a time, and those who wait. *)

\* writer(), under the lock: at the first try, and after being woken with the
\* event waited for.
Writer(t) ==
    /\ doing[t] \in {"nothing", "woken"}
    /\ IF writeTxn = Nobody /\ writeEvent = (IF doing[t] = "woken" THEN t ELSE Nobody)
       THEN /\ writeTxn' = t /\ writeEvent' = Nobody
            /\ doing' = [doing EXCEPT ![t] = "setting_up"]
            /\ UNCHANGED writeWaiters
       ELSE /\ doing' = [doing EXCEPT ![t] = "waiting"]
            /\ writeWaiters' = Append(writeWaiters, t)
            /\ UNCHANGED <<writeTxn, writeEvent>>
    /\ UNCHANGED <<versions, nodeRecords, maxVersions, readVersion, work, operations>>

Newest == versions[Len(versions)]
WorkId == Newest.id + 1

\* _setup_version(), outside the lock: a copy of the zone's nodes, or nothing.
SetupVersion(t) ==
    /\ doing[t] = "setting_up"
    /\ doing' = [doing EXCEPT ![t] = "writing"]
    /\ \E replacement \in BOOLEAN :
         work' = [nodes |-> IF replacement THEN NoNodes ELSE Newest.nodes, changed |-> {}]
    /\ operations' = TxnOperations
    /\ UNCHANGED <<versions, nodeRecords, maxVersions, readVersion, writeTxn, writeEvent, writeWaiters>>

\* Faulty variant: the one who ends wakes nobody up.
EndWrite_Silent(t) ==
    /\ writeTxn' = Nobody
    /\ doing' = [doing EXCEPT ![t] = "nothing"]
    /\ UNCHANGED <<writeEvent, writeWaiters>>

\* _end_write_unlocked() and _maybe_wakeup_one_waiter_unlocked().
EndWrite(t) ==
    /\ writeTxn' = Nobody
    /\ IF writeWaiters = << >>
       THEN doing' = [doing EXCEPT ![t] = "nothing"] /\ UNCHANGED <<writeEvent, writeWaiters>>
       ELSE LET w == Head(writeWaiters)
            IN  /\ writeEvent' = w /\ writeWaiters' = Tail(writeWaiters)
                /\ doing' = [doing EXCEPT ![t] = "nothing", ![w] = "woken"]

\* commit(): a version of changed nodes is appended; without a change there is
\* nothing to append.  rollback() forgets them.
Commit(t) ==
    /\ doing[t] = "writing"
    /\ versions' = IF work.changed = {} THEN versions
                   ELSE Pruned(Append(versions, [id |-> WorkId, nodes |-> work.nodes]),
                               Pins(readVersion), maxVersions)
    /\ EndWrite(t)
    /\ work' = NoWork /\ operations' = 0
    /\ UNCHANGED <<nodeRecords, maxVersions, readVersion>>

Rollback(t) ==
    /\ doing[t] = "writing"
    /\ EndWrite(t)
    /\ work' = NoWork /\ operations' = 0
    /\ UNCHANGED <<versions, nodeRecords, maxVersions, readVersion>>

-----------------------------------------------------------------------------
(* The changes of a transaction. *)

\* NodeKind.classify().
Kind(type) == CASE type = "CNAME" -> "cname" [] type = "NSEC" -> "neutral" [] OTHER -> "regular"
Singleton(type) == type \in {"SOA", "CNAME"}

OfType(records, type) == {r \in records : r.type = type}
Rdataset(type, data) == {[type |-> type, data |-> d] : d \in data}
RecordsAt(nodes, o) == IF nodes[o] = 0 THEN {} ELSE nodeRecords[nodes[o]][o]
Existing(o, type) == OfType(RecordsAt(work.nodes, o), type)

\* Faulty variant: the node is written where it is, whoever else has it.
MaybeCow_InPlace(o, records) ==
    LET id == IF work.nodes[o] = 0 THEN WorkId ELSE work.nodes[o]
    IN  /\ nodeRecords' = [nodeRecords EXCEPT ![id][o] = records]
        /\ work' = [nodes |-> [work.nodes EXCEPT ![o] = id], changed |-> work.changed \cup {o}]

\* _maybe_cow(): a node of the version being written is given the records,
\* and takes the place of an older one.
MaybeCow(o, records) ==
    /\ nodeRecords' = [nodeRecords EXCEPT ![WorkId][o] = records]
    /\ work' = [nodes |-> [work.nodes EXCEPT ![o] = WorkId], changed |-> work.changed \cup {o}]

\* WritableVersion.delete_node().
DeleteNode(o) ==
    /\ work' = IF work.nodes[o] = 0 THEN work
               ELSE [nodes |-> [work.nodes EXCEPT ![o] = 0], changed |-> work.changed \cup {o}]
    /\ UNCHANGED nodeRecords

\* Node.replace_rdataset(): a CNAME drives out all that is regular, and the
\* other way round.
PutRdataset(o, type, rdataset) ==
    LET others == {r \in RecordsAt(work.nodes, o) \ Existing(o, type) :
                     {Kind(r.type), Kind(type)} # {"cname", "regular"}}
    IN  MaybeCow(o, others \cup rdataset)

\* WritableVersion.delete_rdataset(): a node that is empty is deleted.
DeleteRdataset(o, type) ==
    LET others == RecordsAt(work.nodes, o) \ Existing(o, type)
    IN  IF others = {} THEN DeleteNode(o) ELSE MaybeCow(o, others)

\* add() and replace(): _add().
TxnAdd(o, type, rdataset, replace) ==
    /\ type = "SOA" => o = Origin
    /\ PutRdataset(o, type, IF replace \/ Singleton(type) THEN rdataset ELSE Existing(o, type) \cup rdataset)

\* delete() and delete_exact() of records: _delete().
TxnDelete(o, type, rdataset, exact) ==
    LET existing == Existing(o, type)
    IN  /\ IF exact THEN rdataset \subseteq existing ELSE existing # {}
        /\ IF existing \ rdataset = {} THEN DeleteRdataset(o, type)
           ELSE PutRdataset(o, type, existing \ rdataset)

TxnDeleteName(o, exact) == (exact => work.nodes[o] # 0) /\ DeleteNode(o)
TxnDeleteType(o, type) == Existing(o, type) # {} /\ DeleteRdataset(o, type)

SerialAddable(v) == v <= SerialCircle \div 2 - 1
SerialSum(a, v) == (a + v) % SerialCircle

\* update_serial(): the serial 0 is stepped over.
UpdateSerial(v) ==
    \E soa \in Existing(Origin, "SOA") :
      /\ SerialAddable(v)
      /\ LET sum == SerialSum(soa.data, v)
         IN  PutRdataset(Origin, "SOA", Rdataset("SOA", {IF sum = 0 THEN 1 ELSE sum}))

TxnOperation ==
    \/ \E v \in Increments : UpdateSerial(v)
    \/ \E o \in Owners :
         \/ \E exact \in BOOLEAN : TxnDeleteName(o, exact)
         \/ \E type \in RecordTypes :
              \/ TxnDeleteType(o, type)
              \/ \E d \in RecordData[type], flag \in BOOLEAN :
                   \/ TxnAdd(o, type, Rdataset(type, {d}), flag)
                   \/ TxnDelete(o, type, Rdataset(type, {d}), flag)

\* An operation that raises leaves the version as it was, and is left out.
Change(t) ==
    /\ doing[t] = "writing" /\ WorkId <= LastVersion
    /\ operations > 0 /\ operations' = operations - 1
    /\ TxnOperation
    /\ UNCHANGED <<versions, maxVersions, doing, readVersion, writeTxn, writeEvent, writeWaiters>>

ZoneNext ==
    \/ \E t \in Threads :
         Reader(t) \/ EndRead(t) \/ Writer(t) \/ SetupVersion(t) \/ Change(t) \/ Commit(t) \/ Rollback(t)
    \/ \E n \in MaxVersions : SetMaxVersions(n)

\* A thread that has the write transaction, or was woken to take it, goes on
\* and ends it; nobody has to begin one.
ZoneProgress == \E t \in Threads :
    \/ doing[t] = "woken" /\ Writer(t)
    \/ SetupVersion(t) \/ Commit(t) \/ Rollback(t)

ZoneSpec == ZoneInit /\ [][ZoneNext]_zoneVars /\ WF_zoneVars(ZoneProgress)

-----------------------------------------------------------------------------
(* Properties. *)

Contents(v) == [o \in Owners |-> RecordsAt(v.nodes, o)]

\* What a reader has is there, and so are all versions since; no version mixes
\* a CNAME with other data, holds two records of a type that has but one, has
\* an empty node, or an SOA elsewhere than at the origin.
ZoneVersionsSound ==
    /\ \A i \in 2..Len(versions) : versions[i].id = versions[i - 1].id + 1
    /\ Pins(readVersion) \subseteq {v.id : v \in ToSet(versions)}
    /\ \A v \in ToSet(versions) \cup {work}, o \in Owners :
         LET records == RecordsAt(v.nodes, o)
             types == {r.type : r \in records}
         IN  /\ v.nodes[o] # 0 => records # {}
             /\ {"cname", "regular"} \cap {Kind(c) : c \in types} # {"cname", "regular"}
             /\ \A c \in types : Singleton(c) => Cardinality(OfType(records, c)) = 1
             /\ "SOA" \in types => o = Origin

\* A version, once committed, reads the same for as long as it is kept.
VersionsFrozen ==
    [][\A v \in ToSet(versions) : v \in ToSet(versions') => Contents(v) = Contents(v)']_zoneVars

\* What readers see is a zone, and one and the same as long as they look.
VersionsSound == []ZoneVersionsSound /\ VersionsFrozen

\* One at a time, each thread that asks for a write transaction gets one: none
\* asks, is woken up and asks again for ever.
WritersServed == \A t \in Threads : []<>(doing[t] \notin {"waiting", "woken", "setting_up"})
=============================================================================
