-------------------------- MODULE InterfaceRegistry --------------------------
(***************************************************************************)
(* InterfaceRegistry (lib/interface_manager.py): what the program knows of *)
(* the phone's network interfaces.  The runtime and the user interface     *)
(* both call refresh(), from threads of their own; a refresh scans the     *)
(* interfaces once or several times and then publishes what it saw.        *)
(* resolve() picks the interface of a selection from what is published.    *)
(*                                                                         *)
(* Monotonic times are kept as ages, counted in ticks, and an age stops    *)
(* counting one tick after the last threshold that the code compares it    *)
(* with.                                                                   *)
(***************************************************************************)
EXTENDS Naturals, FiniteSets

CONSTANTS
    Names,                \* interface names
    Kind,                 \* classify_interface: the kind of each name
    Addresses,            \* the sets of addresses an interface may have,
                          \* records of an ipv4 and an ipv6
    None,                 \* Python's None
    AUTO,                 \* the selection "Auto"
    PreferVpn,            \* prefer_vpn
    MissingScans,         \* missing_scans
    Grace,                \* missing_grace, in ticks
    CacheTTL,             \* cache_ttl, in ticks
    Scans,                \* the number of retry delays of a full refresh
    MaxChanges            \* bound on what the environment does

Kinds == {"bridge", "local", "cellular", "vpn", "other"}

\* InterfaceRecord without name and kind; unseen is the age of last_seen,
\* missingFor that of first_missing_at, which is None when missCount is 0.
RecordType ==
    [ipv4 : {w.ipv4 : w \in Addresses}, ipv6 : {w.ipv6 : w \in Addresses},
     available : BOOLEAN, missCount : 0..MissingScans,
     missingFor : 0..Grace, unseen : 0..(CacheTTL + 1)]

ASSUME RegistryAssumption ==
    /\ IsFiniteSet(Names) /\ None \notin Names /\ AUTO \notin Names
    /\ Kind \in [Names -> Kinds]
    /\ None \notin Addresses /\ None \notin RecordType
    /\ PreferVpn \in BOOLEAN
    /\ MissingScans \in Nat \ {0}
    /\ Grace \in Nat
    /\ CacheTTL \in Nat /\ CacheTTL >= Grace
    /\ Scans \in Nat \ {0}
    /\ MaxChanges \in Nat

VARIABLES
    world,        \* the interfaces the phone has now, with their addresses
    online,       \* the interfaces from which 1.1.1.1 can be reached
    changes,      \* how much the environment has done
    records,      \* _records
    job,          \* per thread, the refresh() it is in
    lastScan      \* what the latest scan to succeed saw (not in the code)

worldVars == <<world, online, changes>>
registryVars == <<world, online, changes, records, job, lastScan>>

Actors == {"runtime", "ui"}

Record(v4, v6, available, missCount, missingFor, unseen) ==
    [ipv4 |-> v4, ipv6 |-> v6, available |-> available,
     missCount |-> missCount, missingFor |-> missingFor, unseen |-> unseen]

Nothing == [n \in Names |-> None]
Job(at, left, merged, worked) ==
    [at |-> at, left |-> left, merged |-> merged, worked |-> worked]
Idle == Job("idle", 0, Nothing, FALSE)

RegistryInit ==
    /\ world \in [Names -> Addresses \cup {None}]
    /\ online \in SUBSET Names
    /\ changes = 0
    /\ records = Nothing
    /\ job = [a \in Actors |-> Idle]
    /\ lastScan = Nothing

-----------------------------------------------------------------------------
(* The phone *)

\* An interface appears, disappears, or gets other addresses.
InterfaceChanges ==
    /\ changes < MaxChanges
    /\ changes' = changes + 1
    /\ \E n \in Names, w \in Addresses \cup {None} :
          w # world[n] /\ world' = [world EXCEPT ![n] = w]
    /\ UNCHANGED <<online, records, job, lastScan>>

\* The route to the internet through an interface comes or goes.
RouteChanges ==
    /\ changes < MaxChanges
    /\ changes' = changes + 1
    /\ \E n \in Names : online' = IF n \in online THEN online \ {n}
                                  ELSE online \cup {n}
    /\ UNCHANGED <<world, records, job, lastScan>>

\* One tick for every age.
Older(age, limit) == IF age < limit THEN age + 1 ELSE age
AgeRecords ==
    records' = [n \in Names |->
        IF records[n] = None THEN None
        ELSE [records[n] EXCEPT !.unseen = Older(@, CacheTTL + 1),
                                !.missingFor =
                  IF records[n].missCount = 0 THEN 0 ELSE Older(@, Grace)]]

-----------------------------------------------------------------------------
(* refresh() *)

\* What getifaddrs() is turned into: an interface without any usable address
\* is kept when it is an en* one only.
Snapshot ==
    [n \in Names |->
        IF world[n] = None THEN None
        ELSE IF world[n].ipv4 = None /\ world[n].ipv6 = None
                /\ Kind[n] # "local" THEN None
        ELSE world[n]]

Call(a, scans) ==
    job' = [job EXCEPT ![a] = Job("waiting", scans, Nothing, FALSE)]

LockFree == \A a \in Actors : job[a].at # "scanning"

\* Faulty variant: only the publication is serialised.
TakeLock_NotHeld(a) ==
    /\ job[a].at = "waiting"
    /\ job' = [job EXCEPT ![a].at = "scanning"]
    /\ UNCHANGED <<worldVars, records, lastScan>>

\* _refresh_lock is held from the first scan to the publication.
TakeLock(a) ==
    /\ job[a].at = "waiting"
    /\ LockFree
    /\ job' = [job EXCEPT ![a].at = "scanning"]
    /\ UNCHANGED <<worldVars, records, lastScan>>

\* One scan; what earlier scans of the refresh saw and this one does not is
\* kept.
Scan(a) ==
    /\ job[a].at = "scanning" /\ job[a].left > 0
    /\ lastScan' = Snapshot
    /\ LET merged == [n \in Names |-> IF Snapshot[n] # None THEN Snapshot[n]
                                      ELSE job[a].merged[n]]
       IN  job' = [job EXCEPT
              ![a] = Job("scanning", job[a].left - 1, merged, TRUE)]
    /\ UNCHANGED <<worldVars, records>>

\* The scan raises; the next one is tried.
ScanFails(a) ==
    /\ job[a].at = "scanning" /\ job[a].left > 0
    /\ changes < MaxChanges
    /\ changes' = changes + 1
    /\ job' = [job EXCEPT ![a].left = @ - 1]
    /\ UNCHANGED <<world, online, records, lastScan>>

\* A record of an interface that this refresh did not see.
Missed(r) ==
    LET count == IF r.missCount < MissingScans THEN r.missCount + 1
                 ELSE r.missCount
        since == IF r.missCount = 0 THEN 0 ELSE r.missingFor
    IN  IF r.unseen > CacheTTL THEN None
        ELSE Record(r.ipv4, r.ipv6,
                    ~(count >= MissingScans /\ since >= Grace),
                    count, since, r.unseen)

\* The records after a refresh that saw merged.
Publish(merged) ==
    [n \in Names |->
        IF merged[n] # None
        THEN Record(merged[n].ipv4, merged[n].ipv6, TRUE, 0, 0, 0)
        ELSE IF records[n] = None THEN None
        ELSE Missed(records[n])]

\* The end of a refresh: it publishes when at least one scan worked ...
Publishes(a) ==
    /\ job[a].at = "scanning" /\ job[a].left = 0 /\ job[a].worked
    /\ records' = Publish(job[a].merged)
    /\ job' = [job EXCEPT ![a] = Idle]
    /\ UNCHANGED <<worldVars, lastScan>>

\* ... and raises the last error when none did.
Raises(a) ==
    /\ job[a].at = "scanning" /\ job[a].left = 0 /\ ~job[a].worked
    /\ job' = [job EXCEPT ![a] = Idle]
    /\ UNCHANGED <<worldVars, records, lastScan>>

\* StableServerManager.refresh_interfaces, called by the user interface.
UiRefresh ==
    /\ job["ui"].at = "idle"
    /\ Call("ui", Scans)
    /\ UNCHANGED <<worldVars, records, lastScan>>

-----------------------------------------------------------------------------
(* resolve() *)

\* A record that resolve() takes.
Usable(n) ==
    /\ records[n] # None
    /\ records[n].available /\ records[n].missCount = 0
    /\ records[n].ipv4 # None

Weight(purpose, kind) ==
    IF purpose = "proxy"
    THEN [bridge |-> 500, local |-> 400, other |-> 200, cellular |-> 100,
          vpn |-> 50][kind]
    ELSE [vpn |-> IF PreferVpn THEN 500 ELSE 300, cellular |-> 450,
          local |-> 350, other |-> 200, bridge |-> 100][kind]

\* The best of a set of interfaces; equals are in the order of the registry.
Best(purpose, candidates) ==
    {n \in candidates : \A o \in candidates :
        Weight(purpose, Kind[n]) >= Weight(purpose, Kind[o])}

\* Auto for the outbound: the best interface of each kind is probed first,
\* then the others; with no route at all, the best one is taken.  With five
\* candidates or fewer the limit of five probes never bites.
BestConnected(candidates) ==
    LET KindsOf(S) == {Kind[n] : n \in S}
        firsts == {S \in SUBSET candidates :
                      /\ KindsOf(S) = KindsOf(candidates)
                      /\ \A m, n \in S : Kind[m] = Kind[n] => m = n}
        pick(S) ==
            IF S \cap online # {} THEN Best("outbound", S \cap online)
            ELSE IF candidates \cap online # {}
                 THEN Best("outbound", candidates \cap online)
            ELSE Best("outbound", S)
    IN  UNION {pick(S) : S \in firsts}

Candidates == {n \in Names : Usable(n)}

\* The names resolve() may return; none is InterfaceUnavailable.
Resolve(selection, purpose, current) ==
    IF selection # AUTO THEN {selection} \cap Candidates
    ELSE IF current \in Candidates
            /\ (purpose = "proxy" \/ current \in online) THEN {current}
    ELSE IF purpose = "proxy" THEN Best("proxy", Candidates)
    ELSE BestConnected(Candidates)

-----------------------------------------------------------------------------
(* Properties *)

\* The registry's variables have their types.
RegistryTypeOK ==
    /\ world \in [Names -> Addresses \cup {None}]
    /\ online \subseteq Names
    /\ changes \in 0..MaxChanges
    /\ records \in [Names -> RecordType \cup {None}]
    /\ job \in [Actors -> [at : {"idle", "waiting", "scanning"},
                           left : 0..Scans,
                           merged : [Names -> Addresses \cup {None}],
                           worked : BOOLEAN]]
    /\ lastScan \in [Names -> Addresses \cup {None}]

\* What is published is never older than what the latest scan saw: whoever
\* refreshed last, between two refreshes every interface of the latest scan
\* has a record that is not missing, with exactly the addresses it had then
\* (refresh holds _refresh_lock over all its scans and assigns both families).
NewestScanPublished ==
    LockFree =>
        \A n \in Names : lastScan[n] # None =>
            /\ records[n] # None
            /\ records[n].available /\ records[n].missCount = 0
            /\ records[n].ipv4 = lastScan[n].ipv4
            /\ records[n].ipv6 = lastScan[n].ipv6

\* An interface is given up by the registry only when it was missing from
\* MissingScans refreshes in a row and for the whole of the grace period.
GivenUpAfterGrace ==
    \A n \in Names : records[n] # None /\ ~records[n].available =>
        /\ records[n].missCount >= MissingScans
        /\ records[n].unseen >= Grace

\* What the registry publishes of an interface, seen or given up, is true.
RegistryTruthful == NewestScanPublished /\ GivenUpAfterGrace

\* One refresh that does not see an interface leaves its record available
\* when more than one miss is needed.
FirstMissTolerated ==
    [][\A n \in Names :
          /\ records[n] # None /\ records'[n] # records[n]
          /\ records[n].missCount = 0 /\ MissingScans > 1
          => records'[n] # None /\ records'[n].available]_registryVars

=============================================================================
