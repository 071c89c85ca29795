---------------------- MODULE InterfaceWatchdog_proofs ----------------------
(***************************************************************************)
(* Theorems about InterfaceWatchdog, for any set of interfaces, any        *)
(* selections and any values of the thresholds.                            *)
(*                                                                         *)
(* Most of the steps leave the registry alone, so lemma RegistrySteps      *)
(* first reduces a step of the runtime to what it does to the registry;    *)
(* the invariants about records and refreshes are then proved over that.   *)
(***************************************************************************)
EXTENDS InterfaceWatchdog, TLAPS

-----------------------------------------------------------------------------
(* Types *)

Types ==
    /\ world \in [Names -> Addresses \cup {None}]
    /\ online \subseteq Names
    /\ changes \in 0..MaxChanges
    /\ records \in [Names -> RecordType \cup {None}]
    /\ job \in [Actors -> [at : {"idle", "waiting", "scanning"},
                           left : 0..Scans,
                           merged : [Names -> Addresses \cup {None}],
                           worked : BOOLEAN]]
    /\ lastScan \in [Names -> Addresses \cup {None}]

LEMMA RegistryTypes == RegistryTypeOK <=> Types
  BY DEF RegistryTypeOK, Types

\* resolve() returns usable interfaces only, and an explicit selection or
\* nothing for an explicit selection.
LEMMA ResolveUsable ==
  ASSUME NEW selection, NEW purpose, NEW current,
         NEW n \in Resolve(selection, purpose, current)
  PROVE  /\ n \in Names
         /\ Usable(n)
         /\ selection # AUTO => n = selection
<1>1. \A S : Best("proxy", S) \subseteq S /\ Best("outbound", S) \subseteq S
  BY DEF Best
<1>2. ASSUME NEW x \in BestConnected(Candidates) PROVE x \in Candidates
  <2>1. PICK S \in SUBSET Candidates :
          \/ x \in Best("outbound", S \cap online) \/ x \in Best("outbound", Candidates \cap online)
          \/ x \in Best("outbound", S)
    BY DEF BestConnected
  <2>2. QED  BY <1>1, <2>1
<1>3. Resolve(selection, purpose, current) \subseteq Candidates
  BY <1>1, <1>2 DEF Resolve
<1>4. n \in Candidates
  BY <1>3
<1>5. selection # AUTO => Resolve(selection, purpose, current) \subseteq {selection}
  BY DEF Resolve
<1>6. QED  BY <1>4, <1>5 DEF Candidates

\* Ageing and publishing keep the type of the records.
Aged(r) ==
    [r EXCEPT !.unseen = Older(@, CacheTTL + 1),
              !.missingFor = IF r.missCount = 0 THEN 0 ELSE Older(@, Grace)]

LEMMA AgedType ==
  ASSUME NEW r \in RecordType
  PROVE  /\ Aged(r) \in RecordType
         /\ Aged(r).ipv4 = r.ipv4 /\ Aged(r).ipv6 = r.ipv6
         /\ Aged(r).available = r.available
         /\ Aged(r).missCount = r.missCount
         /\ Aged(r).unseen = Older(r.unseen, CacheTTL + 1)
         /\ Aged(r).missingFor = IF r.missCount = 0 THEN 0
                                 ELSE Older(r.missingFor, Grace)
<1>1. Older(r.unseen, CacheTTL + 1) \in 0..(CacheTTL + 1)
  BY RegistryAssumption DEF RecordType, Older
<1>2. Older(r.missingFor, Grace) \in 0..Grace /\ 0 \in 0..Grace
  BY RegistryAssumption DEF RecordType, Older
<1>3. QED  BY <1>1, <1>2 DEF RecordType, Aged

LEMMA AgeEffect ==
  ASSUME Types, AgeRecords, NEW n \in Names
  PROVE  IF records[n] = None THEN records'[n] = None
         ELSE records[n] \in RecordType /\ records'[n] = Aged(records[n])
  BY DEF Types, AgeRecords, Aged

LEMMA AgeTypes ==
  ASSUME Types, AgeRecords
  PROVE  records' \in [Names -> RecordType \cup {None}]
<1>1. \A n \in Names : records'[n] \in RecordType \cup {None}
  BY AgeEffect, AgedType
<1>2. records' = [n \in Names |-> records'[n]]
  BY DEF AgeRecords
<1>3. QED  BY <1>1, <1>2

LEMMA MissedType ==
  ASSUME NEW r \in RecordType
  PROVE  Missed(r) \in RecordType \cup {None}
  BY RegistryAssumption DEF Missed, Record, RecordType

LEMMA PublishTypes ==
  ASSUME Types, NEW merged \in [Names -> Addresses \cup {None}]
  PROVE  Publish(merged) \in [Names -> RecordType \cup {None}]
<1>1. ASSUME NEW n \in Names, merged[n] # None
      PROVE  Record(merged[n].ipv4, merged[n].ipv6, TRUE, 0, 0, 0)
                \in RecordType
  BY <1>1, RegistryAssumption DEF Record, RecordType
<1>2. ASSUME NEW n \in Names, records[n] # None
      PROVE  Missed(records[n]) \in RecordType \cup {None}
  BY <1>2, MissedType DEF Types
<1>3. QED  BY <1>1, <1>2 DEF Publish

\* The state of the inbound interface is one of three.
LEMMA InboundStates ==
  ASSUME NEW n
  PROVE  InboundState(n) \in {"READY", "PRESENT_NO_IPV4", "ABSENT"}
  BY DEF InboundState

-----------------------------------------------------------------------------
(* What a step does to the registry *)

\* The runtime is inside refresh() at two awaits only.
RuntimeJob ==
    job["runtime"].at # "idle" => pc \in {"startRefresh", "refreshing"}

RefreshStep(a) ==
    \/ /\ job[a].at = "idle"
       /\ \E scans \in {1, Scans} : Call(a, scans)
       /\ UNCHANGED <<worldVars, records, lastScan>>
    \/ TakeLock(a) \/ Scan(a) \/ ScanFails(a) \/ Publishes(a) \/ Raises(a)

RegistryStep ==
    \/ UNCHANGED registryVars
    \/ InterfaceChanges \/ RouteChanges
    \/ /\ BackgroundLite /\ changes < MaxChanges /\ changes' = changes + 1
       /\ UNCHANGED <<world, online, records, job, lastScan>>
    \/ AgeRecords /\ UNCHANGED <<worldVars, job, lastScan>>
    \/ \E a \in Actors : RefreshStep(a)

LEMMA RegistrySteps ==
  ASSUME RuntimeJob, [Next]_vars
  PROVE  RegistryStep
<1>1. CASE UNCHANGED vars
  BY <1>1 DEF vars, RegistryStep
<1>2. CASE Environment
  BY <1>2 DEF Environment, EnterBackground, EnterForeground, UiRefresh,
     RegistryStep, RefreshStep, Actors
<1>3. CASE Tick
  BY <1>3 DEF Tick, RegistryStep
<1>4. CASE StartRefresh \/ Wake
  BY <1>4 DEF StartRefresh, Wake, RuntimeJob, RegistryStep, RefreshStep,
     Actors
<1>5. CASE StartRefreshed \/ Refreshed
  BY <1>5 DEF StartRefreshed, Refreshed, RegistryStep, RefreshStep, Actors
<1>6. CASE SelectProxy \/ SelectOutbound \/ Restart
  BY <1>6 DEF SelectProxy, SelectOutbound, Restart, RegistryStep
<1>7. CASE WakePaused \/ Scanned \/ Advised \/ Resolved
  BY <1>7 DEF WakePaused, Scanned, Advised, Resolved, Advise, RegistryStep
<1>8. CASE UiEnds
  BY <1>8 DEF UiEnds, RegistryStep, RefreshStep, Actors
<1>9. CASE \E a \in Actors : Refreshing(a)
  BY <1>9 DEF Refreshing, RegistryStep, RefreshStep
<1>10. CASE \E a \in Actors : ScanFails(a) /\ UNCHANGED <<pc, runVars>>
  BY <1>10 DEF RegistryStep, RefreshStep
<1>11. QED
  BY <1>1, <1>2, <1>3, <1>4, <1>5, <1>6, <1>7, <1>8, <1>9, <1>10
     DEF Next, Runtime

LEMMA StepRegistryTypes ==
  ASSUME Types, RegistryStep
  PROVE  Types'
<1> USE RegistryAssumption
<1>1. CASE UNCHANGED registryVars
  BY <1>1 DEF Types, registryVars
<1>2. CASE InterfaceChanges
  BY <1>2 DEF Types, InterfaceChanges
<1>3. CASE RouteChanges
  BY <1>3 DEF Types, RouteChanges
<1>4. CASE /\ BackgroundLite /\ changes < MaxChanges
           /\ changes' = changes + 1
           /\ UNCHANGED <<world, online, records, job, lastScan>>
  BY <1>4 DEF Types
<1>5. CASE AgeRecords /\ UNCHANGED <<worldVars, job, lastScan>>
  BY <1>5, AgeTypes DEF Types, worldVars
<1>6. ASSUME NEW a \in Actors, RefreshStep(a) PROVE Types'
  <2>1. CASE /\ \E scans \in {1, Scans} : Call(a, scans)
             /\ UNCHANGED <<worldVars, records, lastScan>>
    <3>1. PICK scans \in {1, Scans} : Call(a, scans)
      BY <2>1
    <3>2. scans \in 0..Scans /\ Nothing \in [Names -> Addresses \cup {None}]
      BY DEF Nothing
    <3>3. QED  BY <2>1, <3>1, <3>2 DEF Types, Call, Job, worldVars
  <2>2. CASE TakeLock(a)
    BY <2>2 DEF Types, TakeLock, worldVars
  <2>3. CASE Scan(a)
    <3>1. Snapshot \in [Names -> Addresses \cup {None}]
      BY DEF Types, Snapshot
    <3>2. [n \in Names |-> IF Snapshot[n] # None THEN Snapshot[n]
                           ELSE job[a].merged[n]]
             \in [Names -> Addresses \cup {None}]
      BY <3>1 DEF Types
    <3>3. job[a].left - 1 \in 0..Scans
      BY <2>3 DEF Types, Scan
    <3>4. QED  BY <2>3, <3>1, <3>2, <3>3 DEF Types, Scan, Job, worldVars
  <2>4. CASE ScanFails(a)
    BY <2>4 DEF Types, ScanFails
  <2>5. CASE Publishes(a)
    <3>1. records' \in [Names -> RecordType \cup {None}]
      BY <2>5, PublishTypes DEF Publishes, Types
    <3>2. QED  BY <2>5, <3>1 DEF Types, Publishes, Idle, Job, Nothing, worldVars
  <2>6. CASE Raises(a)
    BY <2>6 DEF Types, Raises, Idle, Job, Nothing, worldVars
  <2>7. QED  BY <1>6, <2>1, <2>2, <2>3, <2>4, <2>5, <2>6 DEF RefreshStep
<1>7. QED  BY <1>1, <1>2, <1>3, <1>4, <1>5, <1>6 DEF RegistryStep

-----------------------------------------------------------------------------
(* The runtime: types, and what a generation is bound to *)

LocalTypes ==
    /\ pc \in PCs
    /\ slept \in BOOLEAN /\ background \in BOOLEAN /\ warned \in BOOLEAN
    /\ active \in [name : Names \cup {None},
                   ipv4 : {w.ipv4 : w \in Addresses} \cup {None},
                   ipv6 : {w.ipv6 : w \in Addresses} \cup {None}]
    /\ proxy \in Names \cup {None} /\ picked \in Names \cup {None}
    /\ proxyState \in {"READY", "PRESENT_NO_IPV4", "ABSENT"}
    /\ noIpv4For \in 0..NotWaiting

CoreInv ==
    /\ Types
    /\ LocalTypes
    /\ RuntimeJob
    /\ BoundWhileUp

LEMMA InitCore == Init => CoreInv
<1> SUFFICES ASSUME Init PROVE CoreInv
  OBVIOUS
<1> USE RegistryAssumption, WatchdogAssumption DEF Init, RegistryInit
<1>1. Types
  BY DEF Types, Nothing, Idle, Job
<1>2. LocalTypes
  <2>1. Nobody \in [name : Names \cup {None},
                   ipv4 : {w.ipv4 : w \in Addresses} \cup {None},
                   ipv6 : {w.ipv6 : w \in Addresses} \cup {None}]
    BY DEF Nobody
  <2>2. NotWaiting \in 0..NotWaiting
    BY DEF NotWaiting
  <2>3. QED  BY <2>1, <2>2 DEF LocalTypes, PCs
<1>3. RuntimeJob /\ BoundWhileUp
  BY DEF RuntimeJob, Idle, Job, BoundWhileUp, Watching, Actors
<1>4. QED  BY <1>1, <1>2, <1>3 DEF CoreInv

\* The interface that is selected is bound with the addresses of its record.
LEMMA BoundType ==
  ASSUME Types, NEW n \in Names, Usable(n)
  PROVE  /\ Bound(n) \in [name : Names \cup {None},
                          ipv4 : {w.ipv4 : w \in Addresses} \cup {None},
                          ipv6 : {w.ipv6 : w \in Addresses} \cup {None}]
         /\ Bound(n).ipv4 # None /\ Bound(n).name = n
  BY DEF Types, Usable, Bound, RecordType

LEMMA AdviseKeeps ==
  ASSUME LocalTypes, RuntimeJob, BoundWhileUp, pc \in {"scanned", "advising"},
         NEW state \in {"READY", "PRESENT_NO_IPV4", "ABSENT"}, Advise(state),
         proxy' \in Names \cup {None}
  PROVE  LocalTypes' /\ BoundWhileUp' /\ RuntimeJob'
<1> USE WatchdogAssumption
<1>1. /\ pc' \in {"asleep", "resolving"}
      /\ proxyState' = state
      /\ UNCHANGED <<registryVars, slept, background, active, picked>>
  BY DEF Advise
<1>2. noIpv4For' \in 0..NotWaiting
  BY DEF Advise, LocalTypes, NotWaiting
<1>3. warned' \in BOOLEAN
  BY DEF Advise
<1>4. LocalTypes'
  BY <1>1, <1>2, <1>3 DEF LocalTypes, PCs, NotWaiting
<1>5. BoundWhileUp'
  BY <1>1 DEF BoundWhileUp, Watching
<1>6. RuntimeJob'
  BY <1>1 DEF RuntimeJob, registryVars
<1>7. QED  BY <1>4, <1>5, <1>6

LEMMA StepCore == CoreInv /\ [Next]_vars => CoreInv'
<1> SUFFICES ASSUME CoreInv, [Next]_vars PROVE CoreInv'
  OBVIOUS
<1> USE RegistryAssumption, WatchdogAssumption
<1> USE DEF CoreInv
<1>1. Types'
  BY RegistrySteps, StepRegistryTypes
<1> SUFFICES LocalTypes' /\ RuntimeJob' /\ BoundWhileUp'
  BY <1>1
<1> DEFINE Goal == LocalTypes' /\ RuntimeJob' /\ BoundWhileUp'
<1>2. ASSUME UNCHANGED <<pc, runVars>>,
             job["runtime"].at # "idle" \/ job'["runtime"] = job["runtime"]
      PROVE  Goal
  BY <1>2 DEF LocalTypes, RuntimeJob, BoundWhileUp, runVars, inboundVars,
     NotWaiting
<1>3. CASE UNCHANGED vars
  BY <1>2, <1>3 DEF vars, registryVars
<1>4. CASE Environment
  <2>1. CASE (InterfaceChanges \/ RouteChanges) /\ UNCHANGED <<pc, runVars>>
    BY <1>2, <2>1 DEF InterfaceChanges, RouteChanges
  <2>2. CASE EnterBackground \/ EnterForeground
    BY <2>2 DEF EnterBackground, EnterForeground, registryVars, LocalTypes,
       RuntimeJob, BoundWhileUp, inboundVars, NotWaiting
  <2>3. CASE UiRefresh /\ UNCHANGED <<pc, runVars>>
    BY <1>2, <2>3 DEF UiRefresh, Call, Types, Actors
  <2>4. QED  BY <1>4, <2>1, <2>2, <2>3 DEF Environment
<1>5. CASE Tick
  <2>1. noIpv4For' \in 0..NotWaiting
    BY <1>5 DEF Tick, LocalTypes, NotWaiting, Older
  <2>2. slept' \in BOOLEAN
    BY <1>5 DEF Tick
  <2>3. QED
    BY <1>5, <2>1, <2>2 DEF Tick, LocalTypes, RuntimeJob, BoundWhileUp,
       NotWaiting
<1>6. CASE Runtime
  <2>1. CASE StartRefresh
    BY <2>1 DEF StartRefresh, LocalTypes, RuntimeJob, BoundWhileUp, PCs,
       Watching, runVars, inboundVars, NotWaiting
  <2>2. CASE StartRefreshed
    BY <2>2 DEF StartRefreshed, Publishes, Raises, Idle, Job, Types, Actors,
       LocalTypes, RuntimeJob, BoundWhileUp, PCs, Watching, runVars,
       inboundVars, NotWaiting
  <2>3. CASE SelectProxy
    <3>1. picked' \in Names \cup {None}
      BY <2>3, ResolveUsable DEF SelectProxy, LocalTypes
    <3>2. pc' \in {"selectFallback", "failed", "selectOutbound"}
      BY <2>3 DEF SelectProxy
    <3>3. QED
      BY <2>3, <3>1, <3>2 DEF SelectProxy, LocalTypes, RuntimeJob,
         BoundWhileUp, PCs, Watching, registryVars, NotWaiting
  <2>4. CASE SelectOutbound
    <3>1. CASE /\ pc' = "failed"
               /\ UNCHANGED <<active, proxy, proxyState, noIpv4For, warned>>
      BY <2>4, <3>1 DEF SelectOutbound, LocalTypes, RuntimeJob,
         BoundWhileUp, PCs, Watching, registryVars, NotWaiting
    <3>2. CASE pc' = "asleep"
      <4>1. PICK n \in Resolve(OutboundSelection, "outbound", active.name) :
               active' = Bound(n)
        BY <2>4, <3>2 DEF SelectOutbound
      <4>2. /\ n \in Names /\ Usable(n)
            /\ OutboundSelection # AUTO => n = OutboundSelection
        BY ResolveUsable
      <4>3. BoundWhileUp'
        BY <4>1, <4>2, BoundType DEF BoundWhileUp
      <4>4. /\ proxyState' = InboundState(picked) /\ proxy' = picked
            /\ noIpv4For' \in {NotWaiting, 0, noIpv4For}
            /\ warned' \in BOOLEAN
        BY <2>4, <3>2 DEF SelectOutbound, LocalTypes
      <4>5. /\ proxyState' \in {"READY", "PRESENT_NO_IPV4", "ABSENT"}
            /\ noIpv4For' \in 0..NotWaiting
        BY <4>4, InboundStates DEF LocalTypes, NotWaiting
      <4>6. LocalTypes'
        BY <2>4, <3>2, <4>1, <4>2, <4>4, <4>5, BoundType
           DEF SelectOutbound, LocalTypes, PCs, NotWaiting
      <4>7. QED
        BY <2>4, <4>3, <4>6 DEF SelectOutbound, RuntimeJob, registryVars
    <3>3. QED  BY <2>4, <3>1, <3>2 DEF SelectOutbound
  <2>5. CASE Restart \/ WakePaused
    BY <2>5 DEF Restart, WakePaused, LocalTypes, RuntimeJob, BoundWhileUp,
       PCs, Watching, runVars, registryVars, inboundVars, NotWaiting
  <2>6. CASE Wake
    BY <2>6 DEF Wake, LocalTypes, RuntimeJob, BoundWhileUp, PCs, Watching,
       inboundVars, NotWaiting
  <2>7. CASE Refreshed
    BY <2>7 DEF Refreshed, Publishes, Raises, Idle, Job, Types, Actors,
       LocalTypes, RuntimeJob, BoundWhileUp, PCs, Watching, runVars,
       inboundVars, NotWaiting
  <2>8. CASE Scanned
    <3>1. CASE pc' = "advising" /\ UNCHANGED <<registryVars, runVars>>
      BY <2>8, <3>1 DEF Scanned, LocalTypes, RuntimeJob, BoundWhileUp, PCs,
         Watching, runVars, registryVars, inboundVars, NotWaiting
    <3>2. CASE proxy' = Target /\ Advise(InboundState(Target))
      <4>1. Target \in Names \cup {None}
        BY DEF Target, LocalTypes
      <4>2. pc = "scanned"
        BY <2>8 DEF Scanned
      <4>3. QED  BY <3>2, <4>1, <4>2, AdviseKeeps, InboundStates
    <3>3. QED  BY <2>8, <3>1, <3>2 DEF Scanned
  <2>9. CASE Advised
    <3>1. proxy' \in Names \cup {None}
      BY <2>9, ResolveUsable DEF Advised, LocalTypes
    <3>2. pc = "advising" /\ Advise("READY")
      BY <2>9 DEF Advised
    <3>3. QED  BY <3>1, <3>2, AdviseKeeps
  <2>10. CASE Resolved
    <3>1. pc' \in {"asleep", "failed"}
      BY <2>10 DEF Resolved
    <3>2. QED
      BY <2>10, <3>1 DEF Resolved, LocalTypes, RuntimeJob, BoundWhileUp, PCs,
         Watching, runVars, registryVars, inboundVars, NotWaiting
  <2>11. QED
    BY <1>6, <2>1, <2>2, <2>3, <2>4, <2>5, <2>6, <2>7, <2>8, <2>9, <2>10
       DEF Runtime
<1>7. CASE UiEnds
  BY <1>2, <1>7 DEF UiEnds, Publishes, Raises, Types, Actors
<1>8. ASSUME NEW a \in Actors,
             \/ Refreshing(a)
             \/ ScanFails(a) /\ UNCHANGED <<pc, runVars>>
      PROVE  Goal
  <2>1. job[a].at # "idle" /\ \A o \in Actors \ {a} : job'[o] = job[o]
    BY <1>8 DEF Refreshing, TakeLock, Scan, ScanFails, Types
  <2>2. UNCHANGED <<pc, runVars>>
    BY <1>8 DEF Refreshing
  <2>3. QED  BY <1>2, <2>1, <2>2 DEF Actors
<1>9. QED
  BY <1>3, <1>4, <1>5, <1>6, <1>7, <1>8 DEF Next

THEOREM CoreInvariant == Spec => []CoreInv
<1>1. QED  BY InitCore, StepCore, PTL DEF Spec

\* Every variable has its type, in every state of every behaviour.
THEOREM WatchdogTypeCorrect == Spec => []TypeOK
<1>1. CoreInv => TypeOK
  BY RegistryTypes DEF CoreInv, LocalTypes, TypeOK
<1>2. QED  BY CoreInvariant, <1>1, PTL

\* While a generation is up, its servers are bound to an IPv4 address that an
\* interface allowed by the selection had when it was chosen.
THEOREM ServersAreBound == Spec => []BoundWhileUp
<1>1. CoreInv => BoundWhileUp
  BY DEF CoreInv
<1>2. QED  BY CoreInvariant, <1>1, PTL

-----------------------------------------------------------------------------
(* Refreshes never publish an older scan over a newer one *)

Matches(n) ==
    lastScan[n] # None =>
        /\ records[n] # None
        /\ records[n].available /\ records[n].missCount = 0
        /\ records[n].ipv4 = lastScan[n].ipv4
        /\ records[n].ipv6 = lastScan[n].ipv6

\* One thread scans at a time; from its first successful scan on, what the
\* latest scan saw is in its merged result instead of the records.
ScanInv ==
    /\ \A a, o \in Actors :
          job[a].at = "scanning" /\ job[o].at = "scanning" => a = o
    /\ \A a \in Actors : job[a].worked => job[a].at = "scanning"
    /\ \A a \in Actors, n \in Names :
          job[a].worked /\ lastScan[n] # None =>
              job[a].merged[n] = lastScan[n]
    /\ (\A a \in Actors : ~job[a].worked) => \A n \in Names : Matches(n)

LEMMA InitScan == Init => ScanInv
  BY DEF Init, RegistryInit, ScanInv, Matches, Nothing, Idle, Job

LEMMA StepScan ==
  ASSUME Types, ScanInv, RegistryStep
  PROVE  ScanInv'
<1>1. CASE UNCHANGED <<records, job, lastScan>>
  BY <1>1 DEF ScanInv, Matches
<1>2. CASE AgeRecords /\ UNCHANGED <<worldVars, job, lastScan>>
  <2>1. ASSUME NEW n \in Names, Matches(n) PROVE Matches(n)'
    BY <1>2, <2>1, AgeEffect, AgedType, RegistryAssumption DEF Matches
  <2>2. QED  BY <1>2, <2>1 DEF ScanInv
<1>3. ASSUME NEW a \in Actors, RefreshStep(a) PROVE ScanInv'
  <2>1. ASSUME UNCHANGED <<records, lastScan>>, ~job[a].worked,
               NEW j, job' = [job EXCEPT ![a] = j], ~j.worked,
               j.at = "scanning" => job[a].at = "scanning" \/ LockFree
        PROVE  ScanInv'
    BY <2>1 DEF ScanInv, Matches, Types, LockFree
  <2>2. CASE /\ job[a].at = "idle"
             /\ \E scans \in {1, Scans} : Call(a, scans)
             /\ UNCHANGED <<worldVars, records, lastScan>>
    <3>1. ~job[a].worked
      BY <2>2 DEF ScanInv, Types
    <3>2. PICK scans \in {1, Scans} :
              job' = [job EXCEPT ![a] = Job("waiting", scans, Nothing, FALSE)]
      BY <2>2 DEF Call
    <3>3. /\ Job("waiting", scans, Nothing, FALSE).at = "waiting"
          /\ ~Job("waiting", scans, Nothing, FALSE).worked
      BY DEF Job
    <3>4. QED  BY <2>1, <2>2, <3>1, <3>2, <3>3
  <2>3. CASE TakeLock(a)
    <3>1. ~job[a].worked
      BY <2>3 DEF TakeLock, ScanInv, Types
    <3>2. job' = [job EXCEPT ![a] = [job[a] EXCEPT !.at = "scanning"]]
      BY <2>3 DEF TakeLock, Types
    <3>3. ~[job[a] EXCEPT !.at = "scanning"].worked
      BY <3>1 DEF Types
    <3>4. QED  BY <2>1, <2>3, <3>1, <3>2, <3>3 DEF TakeLock
  <2>4. CASE Scan(a)
    <3>1. /\ job'[a].at = "scanning" /\ job'[a].worked
          /\ \A n \in Names : lastScan'[n] # None =>
                job'[a].merged[n] = lastScan'[n]
          /\ \A o \in Actors \ {a} : job'[o] = job[o]
      BY <2>4 DEF Scan, Types, Job, Snapshot
    <3>2. \A o \in Actors \ {a} : job[o].at # "scanning" /\ ~job[o].worked
      BY <2>4 DEF Scan, ScanInv
    <3>3. QED  BY <3>1, <3>2 DEF ScanInv
  <2>5. CASE ScanFails(a)
    <3>1. /\ \A o \in Actors : /\ job'[o].at = job[o].at
                               /\ job'[o].worked = job[o].worked
                               /\ job'[o].merged = job[o].merged
          /\ UNCHANGED <<records, lastScan>>
      BY <2>5 DEF ScanFails, Types
    <3>2. QED  BY <3>1 DEF ScanInv, Matches
  <2>6. CASE Publishes(a)
    <3>1. /\ ~job'[a].worked /\ job'[a].at = "idle"
          /\ \A o \in Actors \ {a} : job'[o] = job[o]
          /\ UNCHANGED lastScan
      BY <2>6 DEF Publishes, Types, Idle, Job
    <3>2. \A o \in Actors \ {a} : ~job[o].worked
      BY <2>6 DEF Publishes, ScanInv
    <3>3. ASSUME NEW n \in Names, lastScan[n] # None
          PROVE  Matches(n)'
      <4>1. job[a].merged[n] = lastScan[n]
        BY <2>6, <3>3 DEF Publishes, ScanInv
      <4>2. records'[n] = Record(lastScan[n].ipv4, lastScan[n].ipv6, TRUE,
                                 0, 0, 0)
        BY <2>6, <3>3, <4>1 DEF Publishes, Publish
      <4>3. Record(lastScan[n].ipv4, lastScan[n].ipv6, TRUE, 0, 0, 0)
               \in RecordType
        BY <3>3, RegistryAssumption DEF Types, Record, RecordType
      <4>4. records'[n] # None
        BY <4>2, <4>3, RegistryAssumption
      <4>5. QED  BY <3>1, <4>2, <4>4 DEF Matches, Record
    <3>4. \A n \in Names : Matches(n)'
      BY <3>1, <3>3 DEF Matches
    <3>5. QED  BY <3>1, <3>2, <3>4 DEF ScanInv
  <2>7. CASE Raises(a)
    <3>1. Idle.at = "idle" /\ ~Idle.worked
      BY DEF Idle, Job
    <3>2. QED  BY <2>1, <2>7, <3>1 DEF Raises
  <2>8. QED
    BY <1>3, <2>2, <2>3, <2>4, <2>5, <2>6, <2>7 DEF RefreshStep
<1>4. QED
  BY <1>1, <1>2, <1>3 DEF RegistryStep, registryVars, InterfaceChanges,
     RouteChanges

\* Between two refreshes the records show exactly the addresses that the
\* latest scan saw, whichever thread made it.
THEOREM NewestPublished == Spec => []NewestScanPublished
<1>1. CoreInv /\ ScanInv /\ [Next]_vars => ScanInv'
  BY RegistrySteps, StepScan DEF CoreInv
<1>2. ScanInv => NewestScanPublished
  BY DEF ScanInv, NewestScanPublished, LockFree, Matches
<1>3. QED  BY InitScan, CoreInvariant, <1>1, <1>2, PTL DEF Spec

-----------------------------------------------------------------------------
(* An interface is given up after its grace period *)

\* A record is unavailable only past both thresholds, and it was last seen
\* before it was first missing.
Aging(r) ==
    /\ ~r.available => r.missCount >= MissingScans /\ r.missingFor >= Grace
    /\ r.missingFor <= r.unseen

AgingInv == \A n \in Names : records[n] # None => Aging(records[n])

LEMMA AgedAging ==
  ASSUME NEW r \in RecordType, Aging(r)
  PROVE  Aging(Aged(r))
<1>1. /\ Aged(r).available = r.available
      /\ Aged(r).missCount = r.missCount
      /\ Aged(r).unseen = Older(r.unseen, CacheTTL + 1)
      /\ Aged(r).missingFor = IF r.missCount = 0 THEN 0
                              ELSE Older(r.missingFor, Grace)
  BY AgedType
<1>2. /\ r.missCount \in Nat /\ r.missingFor \in 0..Grace
      /\ r.unseen \in 0..(CacheTTL + 1)
  BY RegistryAssumption DEF RecordType
<1>3. Aged(r).missingFor <= Aged(r).unseen
  BY <1>1, <1>2, RegistryAssumption DEF Aging, Older
<1>4. ~Aged(r).available =>
          Aged(r).missCount >= MissingScans /\ Aged(r).missingFor >= Grace
  BY <1>1, <1>2, RegistryAssumption DEF Aging, Older
<1>5. QED  BY <1>3, <1>4 DEF Aging

LEMMA MissedAging ==
  ASSUME NEW r \in RecordType, Aging(r), Missed(r) # None
  PROVE  Aging(Missed(r))
  BY RegistryAssumption DEF RecordType, Aging, Missed, Record

LEMMA StepAging ==
  ASSUME Types, AgingInv, RegistryStep
  PROVE  AgingInv'
<1>1. CASE UNCHANGED records
  BY <1>1 DEF AgingInv
<1>2. CASE AgeRecords
  <2>1. ASSUME NEW n \in Names, records'[n] # None
        PROVE  Aging(records'[n])
    BY <1>2, <2>1, AgeEffect, AgedAging DEF AgingInv
  <2>2. QED  BY <2>1 DEF AgingInv, Aging
<1>3. ASSUME NEW a \in Actors, Publishes(a) PROVE AgingInv'
  <2>1. ASSUME NEW n \in Names, records'[n] # None
        PROVE  Aging(records'[n])
    <3>1. CASE job[a].merged[n] # None
      BY <1>3, <3>1, RegistryAssumption
         DEF Publishes, Publish, Record, Aging
    <3>2. CASE job[a].merged[n] = None
      <4>1. /\ records[n] # None /\ records'[n] = Missed(records[n])
            /\ records[n] \in RecordType
        BY <1>3, <2>1, <3>2 DEF Publishes, Publish, Types
      <4>2. QED  BY <2>1, <4>1, MissedAging DEF AgingInv
    <3>3. QED  BY <3>1, <3>2
  <2>2. QED  BY <2>1 DEF AgingInv, Aging
<1>4. QED
  BY <1>1, <1>2, <1>3 DEF RegistryStep, RefreshStep, registryVars,
     InterfaceChanges, RouteChanges, TakeLock, Scan, ScanFails, Raises

\* The registry calls an interface unavailable only when it was missing from
\* missing_scans refreshes in a row and for the whole of missing_grace.
THEOREM GivenUpOnlyAfterGrace == Spec => []GivenUpAfterGrace
<1>1. Init => AgingInv
  BY DEF Init, RegistryInit, AgingInv, Nothing
<1>2. CoreInv /\ AgingInv /\ [Next]_vars => AgingInv'
  BY RegistrySteps, StepAging DEF CoreInv
<1>3. CoreInv /\ AgingInv => GivenUpAfterGrace
  <2>1. ASSUME NEW r \in RecordType, Aging(r), ~r.available
        PROVE  r.missCount >= MissingScans /\ r.unseen >= Grace
    BY <2>1, RegistryAssumption DEF RecordType, Aging
  <2>2. QED  BY <2>1 DEF CoreInv, Types, AgingInv, GivenUpAfterGrace
<1>4. QED  BY CoreInvariant, <1>1, <1>2, <1>3, PTL DEF Spec

\* What the registry publishes of an interface is what its latest scan saw, or
\* that it was missing for as long as it takes to be given up.
THEOREM RegistryIsTruthful == Spec => []RegistryTruthful
<1>1. NewestScanPublished /\ GivenUpAfterGrace => RegistryTruthful
  BY DEF RegistryTruthful
<1>2. QED  BY <1>1, NewestPublished, GivenUpOnlyAfterGrace, PTL
-----------------------------------------------------------------------------
(* A generation is not ended without a reason *)

\* With a foreground app, and nobody else who refreshes, the watchdog scans
\* after every tick; a record that is missing is counted by each of them, so
\* it is given up before it is old enough to be forgotten, if the cache keeps
\* records for longer than the grace period and the scans that count.
Attentive ==
    /\ ~UiRefreshes /\ ~BackgroundLite
    /\ CacheTTL >= MissingScans /\ CacheTTL > Grace

\* The ticks since the last refresh.
Lag == IF pc = "refreshing" \/ slept THEN 1 ELSE 0

\* A record that every refresh has counted: it was seen by the last one, or
\* missed by each one since it was seen.
Counted(r, lag) ==
    /\ r.missCount = 0 => r.unseen = lag
    /\ r.missCount > 0 =>
          /\ r.missCount >= MissingScans \/ r.missCount + lag >= r.unseen
          /\ r.missingFor >= Grace \/ r.missingFor + 1 >= r.unseen
    /\ r.available => r.unseen < CacheTTL + lag

\* What is known at each await of the record that the servers are bound to.
Followed(r) ==
    /\ r # None
    /\ Counted(r, Lag)
    /\ pc \in {"asleep", "refreshing"} => r.available
    /\ pc = "resolving" => r.missCount = 0 \/ ~r.available

ReasonInv ==
    /\ ~background
    /\ slept => pc = "asleep"
    /\ job["ui"].at = "idle"
    /\ pc \in {"selectProxy", "selectFallback", "selectOutbound"} =>
          \A n \in Names : records[n] # None /\ records[n].missCount = 0
                              => records[n].unseen = 0
    /\ pc \in Watching =>
          active.name \in Names /\ Followed(records[active.name])

LEMMA InitReason == Init => ReasonInv
  BY DEF Init, RegistryInit, ReasonInv, Idle, Job, Actors, Watching

\* A tick makes a record, and the lag, one tick older.
LEMMA AgedCounted ==
  ASSUME NEW r \in RecordType, Counted(r, 0), Attentive
  PROVE  Counted(Aged(r), 1) /\ Aged(r).available = r.available
<1>1. /\ Aged(r).available = r.available
      /\ Aged(r).missCount = r.missCount
      /\ Aged(r).unseen = Older(r.unseen, CacheTTL + 1)
      /\ Aged(r).missingFor = IF r.missCount = 0 THEN 0
                              ELSE Older(r.missingFor, Grace)
  BY AgedType
<1>2. /\ r.missCount \in Nat /\ r.missingFor \in 0..Grace
      /\ r.unseen \in 0..(CacheTTL + 1)
  BY RegistryAssumption DEF RecordType
<1>3. QED
  BY <1>1, <1>2, RegistryAssumption DEF Counted, Older, Attentive

\* A refresh that misses an interface, one tick after the last one, counts it
\* and keeps its record.
LEMMA MissedCounted ==
  ASSUME NEW r \in RecordType, Counted(r, 1), r.available, Attentive
  PROVE  Missed(r) # None /\ Counted(Missed(r), 0) /\ Missed(r).missCount > 0
<1>1. /\ r.missCount \in 0..MissingScans /\ r.missingFor \in 0..Grace
      /\ r.unseen \in 0..(CacheTTL + 1) /\ r.unseen <= CacheTTL
  BY RegistryAssumption DEF RecordType, Counted
<1> DEFINE count == IF r.missCount < MissingScans THEN r.missCount + 1
                    ELSE r.missCount
           since == IF r.missCount = 0 THEN 0 ELSE r.missingFor
           m == Record(r.ipv4, r.ipv6, ~(count >= MissingScans /\ since >= Grace),
                       count, since, r.unseen)
<1>2. Missed(r) = m
  BY <1>1, RegistryAssumption DEF Missed
<1>3. /\ m.missCount = count /\ m.missingFor = since /\ m.unseen = r.unseen
      /\ m.available <=> ~(count >= MissingScans /\ since >= Grace)
      /\ m.ipv4 = r.ipv4 /\ m.ipv6 = r.ipv6
  BY DEF Record
<1>4. /\ count \in 1..MissingScans /\ since \in 0..Grace
      /\ count >= MissingScans \/ count >= r.unseen
      /\ since >= Grace \/ since + 1 >= r.unseen
  BY <1>1, RegistryAssumption DEF Counted
<1>5. ~(count >= MissingScans /\ since >= Grace) => r.unseen < CacheTTL
  BY <1>1, <1>4, RegistryAssumption DEF Attentive
<1>6. m \in RecordType
  BY <1>1, <1>4, RegistryAssumption DEF RecordType, Record
<1> HIDE DEF count, since, m
<1>7. m # None
  BY <1>6, RegistryAssumption
<1>8. Counted(m, 0)
  BY <1>1, <1>3, <1>4, <1>5, RegistryAssumption DEF Counted
<1>9. QED
  BY <1>2, <1>3, <1>4, <1>7, <1>8, RegistryAssumption

\* What a refresh publishes of any interface: it was seen now, or missed.
LEMMA PublishedRecord ==
  ASSUME Types, NEW a \in Actors, Publishes(a), NEW n \in Names,
         records'[n] # None
  PROVE  \/ records'[n].missCount = 0 /\ records'[n].unseen = 0
            /\ records'[n].available
         \/ records[n] \in RecordType /\ records'[n] = Missed(records[n])
            /\ records'[n].missCount > 0
<1>1. records' = Publish(job[a].merged)
  BY DEF Publishes
<1>2. CASE job[a].merged[n] # None
  BY <1>1, <1>2 DEF Publish, Record
<1>3. CASE job[a].merged[n] = None
  <2>1. records[n] # None /\ records'[n] = Missed(records[n])
    BY <1>1, <1>3 DEF Publish
  <2>2. records[n] \in RecordType
    BY <2>1 DEF Types
  <2>3. Missed(records[n]) # None => Missed(records[n]).missCount > 0
    BY <2>2, RegistryAssumption DEF Missed, Record, RecordType
  <2>4. QED  BY <2>1, <2>2, <2>3
<1>4. QED  BY <1>2, <1>3

\* A step that leaves the records alone, and the awaits it leads to.
LEMMA QuietStep ==
  ASSUME ReasonInv, UNCHANGED <<records, active>>, ~background',
         job'["ui"].at = "idle", slept' => pc' = "asleep",
         Lag' = Lag \/ pc' \notin Watching,
         pc' \in {"selectProxy", "selectFallback", "selectOutbound"} =>
             pc \in {"selectProxy", "selectFallback", "selectOutbound"},
         pc' \in Watching =>
             /\ pc \in Watching
             /\ pc' \in {"asleep", "refreshing"} =>
                   records[active.name].available
             /\ pc' = "resolving" => \/ records[active.name].missCount = 0
                                     \/ ~records[active.name].available
  PROVE  ReasonInv'
<1>1. ASSUME pc' \in Watching
      PROVE  active.name \in Names /\ Followed(records[active.name])'
  BY <1>1 DEF ReasonInv, Followed
<1>2. QED  BY <1>1 DEF ReasonInv

\* The user does not refresh, so that the runtime alone does.
LEMMA UiIsIdle ==
  ASSUME Types, ReasonInv, Attentive, [Next]_vars
  PROVE  /\ ~UiEnds /\ ~Refreshing("ui") /\ ~ScanFails("ui")
         /\ ~(UiRefreshes /\ UiRefresh) /\ ~EnterBackground
         /\ ~WakePaused /\ ~EnterForeground
  BY DEF ReasonInv, Attentive, UiEnds, Publishes, Raises, Refreshing, TakeLock,
     Scan, ScanFails, EnterBackground, WakePaused, EnterForeground

LEMMA StepReason ==
  ASSUME CoreInv, ReasonInv, Attentive, [Next]_vars
  PROVE  ReasonInv'
<1> USE DEF CoreInv
<1>1. CASE UNCHANGED vars
  BY <1>1, QuietStep DEF vars, runVars, registryVars, Lag, ReasonInv, Followed
<1>2. CASE Environment
  <2>1. (InterfaceChanges \/ RouteChanges) /\ UNCHANGED <<pc, runVars>>
    BY <1>2, UiIsIdle DEF Environment
  <2>2. QED
    BY <2>1, QuietStep
       DEF InterfaceChanges, RouteChanges, runVars, Lag, ReasonInv, Followed
<1>3. CASE Tick
  <2>1. /\ AgeRecords /\ UNCHANGED <<job, pc, background, active>>
        /\ slept' = (pc = "asleep")
    BY <1>3 DEF Tick
  <2>2. CASE pc = "failed"
    BY <2>1, <2>2 DEF ReasonInv, Watching
  <2>3. CASE pc = "asleep" /\ ~slept
    <3>1. active.name \in Names /\ Followed(records[active.name])
      BY <2>3 DEF ReasonInv, Watching
    <3>2. /\ records[active.name] \in RecordType
          /\ records'[active.name] = Aged(records[active.name])
      BY <2>1, <3>1, AgeEffect DEF Followed
    <3>3. Lag = 0 /\ Lag' = 1
      BY <2>1, <2>3 DEF Lag
    <3>4. /\ Counted(records'[active.name], 1)
          /\ records'[active.name].available
      BY <2>3, <3>1, <3>2, <3>3, AgedCounted DEF Followed
    <3>5. records'[active.name] # None
      BY <3>2, AgedType, RegistryAssumption
    <3>6. Followed(records[active.name])'
      BY <2>1, <2>3, <3>3, <3>4, <3>5 DEF Followed
    <3>7. QED  BY <2>1, <2>3, <3>1, <3>6 DEF ReasonInv, Watching
  <2>4. QED  BY <1>3, <2>2, <2>3 DEF Tick
<1>4. CASE Runtime
  <2>1. CASE StartRefresh \/ Restart
    <3>1. /\ UNCHANGED <<records, runVars>> /\ pc' \in {"startRefresh", "start"}
          /\ job'["ui"] = job["ui"] /\ pc \in {"start", "failed"}
      BY <2>1 DEF StartRefresh, Restart, Call, registryVars, Types, Actors
    <3>2. QED
      BY <3>1, QuietStep DEF runVars, ReasonInv, Watching, Lag
  <2>2. CASE StartRefreshed
    <3>1. CASE Publishes("runtime") /\ pc' = "selectProxy"
      <4>1. UNCHANGED runVars /\ job'["ui"] = job["ui"] /\ pc = "startRefresh"
        BY <2>2, <3>1 DEF StartRefreshed, Publishes, Types, Actors
      <4>2. \A n \in Names : records'[n] # None /\ records'[n].missCount = 0
                                => records'[n].unseen = 0
        BY <3>1, PublishedRecord DEF Actors, Types, RecordType
      <4>3. QED  BY <3>1, <4>1, <4>2 DEF ReasonInv, runVars, Watching
    <3>2. CASE Raises("runtime") /\ pc' = "failed"
      BY <2>2, <3>2, QuietStep DEF StartRefreshed, Raises, runVars, ReasonInv,
         Watching, Types, Actors
    <3>3. QED  BY <2>2, <3>1, <3>2 DEF StartRefreshed
  <2>3. CASE SelectProxy
    BY <2>3, QuietStep DEF SelectProxy, registryVars, ReasonInv, Watching
  <2>4. CASE SelectOutbound
    <3>1. CASE pc' = "failed" /\ UNCHANGED active
      BY <2>4, <3>1, QuietStep DEF SelectOutbound, registryVars, ReasonInv,
         Watching
    <3>2. CASE pc' = "asleep"
      <4>1. PICK n \in Resolve(OutboundSelection, "outbound", active.name) :
               active' = Bound(n)
        BY <2>4, <3>2 DEF SelectOutbound
      <4>2. n \in Names /\ Usable(n)
        BY ResolveUsable
      <4>3. active'.name = n /\ UNCHANGED <<registryVars, background>>
            /\ ~slept' /\ pc = "selectOutbound"
        BY <2>4, <4>1 DEF SelectOutbound, Bound
      <4>4. /\ records[n].missCount = 0 /\ records[n].unseen = 0
            /\ records[n] # None /\ records[n].available
        BY <4>2, <4>3 DEF ReasonInv, Usable
      <4>5. Lag' = 0
        BY <3>2, <4>3 DEF Lag
      <4>6. Followed(records[active.name])'
        BY <3>2, <4>3, <4>4, <4>5, RegistryAssumption
           DEF Followed, Counted, registryVars, Attentive
      <4>7. QED
        BY <3>2, <4>2, <4>3, <4>6 DEF ReasonInv, registryVars
    <3>3. QED  BY <2>4, <3>1, <3>2 DEF SelectOutbound
  <2>5. CASE Wake
    <3>1. /\ UNCHANGED <<records, active, background>>
          /\ job'["ui"] = job["ui"] /\ pc = "asleep" /\ slept
          /\ pc' = "refreshing"
      BY <2>5 DEF Wake, Call, Types, Actors
    <3>2. Lag' = Lag
      BY <3>1 DEF Lag
    <3>3. pc \in Watching /\ records[active.name].available
      BY <3>1 DEF ReasonInv, Followed, Watching
    <3>4. slept' => pc' = "asleep"
      BY <2>5 DEF Wake
    <3>5. QED
      BY <3>1, <3>2, <3>3, <3>4, QuietStep DEF ReasonInv
  <2>6. CASE Refreshed
    <3>1. CASE Raises("runtime") /\ pc' = "failed"
      BY <2>6, <3>1, QuietStep DEF Refreshed, Raises, runVars, ReasonInv,
         Watching, Types, Actors
    <3>2. CASE Publishes("runtime") /\ pc' = "scanned"
      <4>1. UNCHANGED runVars /\ job'["ui"] = job["ui"] /\ pc = "refreshing"
        BY <2>6, <3>2 DEF Refreshed, Publishes, Types, Actors
      <4>2. active'.name = active.name /\ active.name \in Names
            /\ Followed(records[active.name]) /\ Lag = 1 /\ Lag' = 0
        BY <3>2, <4>1 DEF ReasonInv, Watching, runVars, Lag
      <4>3. /\ records[active.name] \in RecordType
            /\ Counted(records[active.name], 1)
            /\ records[active.name].available
        BY <4>1, <4>2 DEF Followed, Types
      <4>4. /\ Missed(records[active.name]) # None
            /\ Counted(Missed(records[active.name]), 0)
        BY <4>3, MissedCounted
      <4>5. records'[active.name] # None
        <5>1. CASE job["runtime"].merged[active.name] # None
          <6>1. records'[active.name] =
                    Record(job["runtime"].merged[active.name].ipv4,
                           job["runtime"].merged[active.name].ipv6,
                           TRUE, 0, 0, 0)
            BY <3>2, <4>2, <5>1 DEF Publishes, Publish
          <6>2. job["runtime"].merged[active.name] \in Addresses
            BY <4>2, <5>1 DEF Types, Actors
          <6>3. records'[active.name] \in RecordType
            BY <6>1, <6>2, RegistryAssumption DEF Record, RecordType
          <6>4. QED  BY <6>3, RegistryAssumption
        <5>2. CASE job["runtime"].merged[active.name] = None
          BY <3>2, <4>2, <4>3, <4>4, <5>2, RegistryAssumption
             DEF Publishes, Publish
        <5>3. QED  BY <5>1, <5>2
      <4>6. Counted(records'[active.name], 0)
        <5>1. CASE /\ records'[active.name].missCount = 0
                   /\ records'[active.name].unseen = 0
          BY <5>1, RegistryAssumption DEF Counted, Attentive
        <5>2. CASE records'[active.name] = Missed(records[active.name])
          BY <4>4, <5>2
        <5>3. QED
          BY <3>2, <4>2, <4>5, <5>1, <5>2, PublishedRecord DEF Actors
      <4>7. Followed(records[active.name])'
        BY <3>2, <4>2, <4>5, <4>6 DEF Followed
      <4>8. QED
        BY <3>2, <4>1, <4>2, <4>7 DEF ReasonInv, runVars
    <3>3. QED  BY <2>6, <3>1, <3>2 DEF Refreshed
  <2>7. CASE Scanned \/ Advised
    <3>1. CASE pc' = "advising" /\ UNCHANGED <<registryVars, runVars>>
      BY <2>7, <3>1, QuietStep DEF Scanned, Advised, runVars, registryVars,
         ReasonInv, Watching, Lag
    <3>2. ASSUME NEW state, Advise(state) PROVE ReasonInv'
      <4>1. /\ UNCHANGED <<registryVars, slept, background, active>>
            /\ pc' = IF records[active.name] # None
                        /\ records[active.name].missCount > 0
                        /\ records[active.name].available
                     THEN "asleep" ELSE "resolving"
        BY <3>2 DEF Advise
      <4>2. pc \in {"scanned", "advising"}
        BY <2>7 DEF Scanned, Advised
      <4>3. active.name \in Names /\ Followed(records[active.name])
        BY <4>2 DEF ReasonInv, Watching
      <4>4. ~slept
        BY <4>2 DEF ReasonInv
      <4>5. records[active.name].missCount \in Nat
        BY <4>3, RegistryAssumption DEF Types, RecordType, Followed
      <4>6. Lag' = Lag
        BY <4>1, <4>2, <4>4 DEF Lag
      <4>7. pc' \in Watching /\ pc \in Watching
        BY <4>1, <4>2 DEF Watching
      <4>8. QED
        BY <4>1, <4>2, <4>3, <4>5, <4>6, <4>7, QuietStep
           DEF registryVars, ReasonInv, Followed
    <3>3. QED  BY <2>7, <3>1, <3>2 DEF Scanned, Advised
  <2>8. CASE Resolved
    <3>1. PICK n \in Names \cup {None} :
              \/ pc' = "failed"
              \/ pc' = "asleep" /\ Usable(n) /\ Bound(n) = active
      BY <2>8, ResolveUsable DEF Resolved
    <3>2. UNCHANGED <<registryVars, runVars>> /\ pc = "resolving"
      BY <2>8 DEF Resolved
    <3>3. CASE pc' = "failed"
      BY <3>2, <3>3, QuietStep DEF registryVars, runVars, ReasonInv, Watching
    <3>4. CASE pc' = "asleep" /\ Usable(n) /\ Bound(n) = active
      <4>1. records[active.name].available
        BY <3>4 DEF Bound, Usable
      <4>2. Lag' = Lag
        BY <3>2, <3>4 DEF Lag, runVars, ReasonInv
      <4>3. QED
        BY <3>2, <3>4, <4>1, <4>2, QuietStep
           DEF registryVars, runVars, ReasonInv, Watching
    <3>5. QED  BY <3>1, <3>3, <3>4
  <2>9. QED
    BY <1>4, <2>1, <2>2, <2>3, <2>4, <2>5, <2>6, <2>7, <2>8, UiIsIdle
       DEF Runtime
<1>5. CASE \E a \in Actors : Refreshing(a)
  <2>1. Refreshing("runtime")
    BY <1>5, UiIsIdle DEF Actors
  <2>2. UNCHANGED <<records, pc, runVars>> /\ job'["ui"] = job["ui"]
    BY <2>1 DEF Refreshing, TakeLock, Scan, Types, Actors
  <2>3. QED
    BY <2>2, QuietStep DEF runVars, ReasonInv, Followed, Lag
<1>6. CASE \E a \in Actors : ScanFails(a) /\ UNCHANGED <<pc, runVars>>
  <2>1. ScanFails("runtime") /\ UNCHANGED <<pc, runVars>>
    BY <1>6, UiIsIdle DEF Actors
  <2>2. UNCHANGED <<records, pc, runVars>> /\ job'["ui"] = job["ui"]
    BY <2>1 DEF ScanFails, Types, Actors
  <2>3. QED
    BY <2>2, QuietStep DEF runVars, ReasonInv, Followed, Lag
<1>7. QED
  BY <1>1, <1>2, <1>3, <1>4, <1>5, <1>6, UiIsIdle DEF Next

\* What makes a generation end once its outbound interface is resolved.
LEMMA ReasonOfStep ==
  ASSUME CoreInv, ReasonInv, AgingInv, [Next]_vars,
         pc = "resolving", pc' = "failed"
  PROVE  LET r == records[active.name]
         IN  /\ r # None
             /\ \/ /\ r.missCount = 0
                   /\ \/ <<r.ipv4, r.ipv6>> # <<active.ipv4, active.ipv6>>
                      \/ OutboundSelection = AUTO /\ active.name \notin online
                \/ r.missCount >= MissingScans /\ r.unseen >= Grace
<1> DEFINE r == records[active.name]
<1>1. /\ active.name \in Names /\ r # None /\ r \in RecordType
      /\ r.missCount = 0 \/ ~r.available
  BY DEF ReasonInv, Watching, Followed, CoreInv, Types
<1>2. CASE ~r.available
  <2>1. Aging(r)
    BY <1>1 DEF AgingInv
  <2>2. r.missCount >= MissingScans /\ r.unseen >= Grace
    BY <1>1, <1>2, <2>1, RegistryAssumption DEF Aging, RecordType
  <2>3. QED  BY <1>1, <2>2
<1>3. CASE r.available /\ <<r.ipv4, r.ipv6>> = <<active.ipv4, active.ipv6>>
           /\ ~(OutboundSelection = AUTO /\ active.name \notin online)
  <2>1. Usable(active.name)
    BY <1>1, <1>3 DEF Usable, CoreInv, BoundWhileUp, Watching
  <2>2. Resolve(OutboundSelection, "outbound", active.name) = {active.name}
    BY <1>1, <1>3, <2>1 DEF Resolve, Candidates, CoreInv, BoundWhileUp, Watching
  <2>3. Bound(active.name) = active
    BY <1>3 DEF Bound, CoreInv, LocalTypes
  <2>4. Resolved
    BY DEF Next, Environment, Tick, Runtime, UiEnds, Refreshing, InterfaceChanges,
       RouteChanges, EnterBackground, EnterForeground, UiRefresh, StartRefresh,
       StartRefreshed, SelectProxy, SelectOutbound, Restart, WakePaused, Wake,
       Refreshed, Scanned, Advised, vars, runVars
  <2>5. FALSE
    BY <2>2, <2>3, <2>4 DEF Resolved
  <2>6. QED  BY <2>5
<1>4. QED  BY <1>1, <1>2, <1>3

\* A generation is ended for its outbound interface only, and only when it
\* has no longer the addresses the servers are bound to, or no route, or was
\* missing for the whole of its grace period: provided the app stays in the
\* foreground, nobody else refreshes, and the cache outlives the grace period.
THEOREM RestartsHaveReasons ==
  ASSUME Attentive
  PROVE  Spec => RestartHasReason
<1>1. Init => CoreInv /\ ReasonInv /\ AgingInv
  BY InitCore, InitReason DEF Init, RegistryInit, AgingInv, Nothing
<1>2. CoreInv /\ ReasonInv /\ AgingInv /\ [Next]_vars
        => CoreInv' /\ ReasonInv' /\ AgingInv'
  BY StepCore, StepReason, RegistrySteps, StepAging DEF CoreInv
<1>3. CoreInv /\ ReasonInv /\ AgingInv /\ [Next]_vars
        => [pc = "resolving" /\ pc' = "failed" =>
              LET r == records[active.name]
              IN  /\ r # None
                  /\ \/ /\ r.missCount = 0
                        /\ \/ <<r.ipv4, r.ipv6>> # <<active.ipv4, active.ipv6>>
                           \/ OutboundSelection = AUTO /\ active.name \notin online
                     \/ r.missCount >= MissingScans /\ r.unseen >= Grace]_vars
  BY ReasonOfStep
<1>4. QED  BY <1>1, <1>2, <1>3, PTL DEF Spec, RestartHasReason
=============================================================================
