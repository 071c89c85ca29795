-------------------------- MODULE InterfaceWatchdog --------------------------
(***************************************************************************)
(* The runtime's use of the InterfaceRegistry (lib/stable_runtime.py): a   *)
(* generation starts by choosing its interfaces, its servers are bound to  *)
(* the outbound address chosen then, and _interface_watchdog ends it when  *)
(* that address is no longer the right one.  The inbound interface is      *)
(* advisory.  One action is what the coroutine does from one await to the  *)
(* next; what starts and stops a generation otherwise, and the delay       *)
(* before a restart, is the subject of StableRuntime.                      *)
(*                                                                         *)
(* One tick is one watchdog_interval.  Scans and probes take no tick.      *)
(***************************************************************************)
EXTENDS InterfaceRegistry

CONSTANTS
    ProxySelection,       \* proxy_selection, a name or AUTO
    OutboundSelection,    \* outbound_selection, a name or AUTO
    WarnAfter,            \* inbound_ipv4_warn_after, in ticks
    BackgroundLite,       \* background_lite_mode, with an app that iOS may
                          \* put in the background
    UiRefreshes           \* the user refreshes the interfaces meanwhile

ASSUME WatchdogAssumption ==
    /\ ProxySelection \in Names \cup {AUTO}
    /\ OutboundSelection \in Names \cup {AUTO}
    /\ WarnAfter \in Nat
    /\ BackgroundLite \in BOOLEAN
    /\ UiRefreshes \in BOOLEAN

VARIABLES
    pc,           \* the await the runtime is suspended in
    slept,        \* the watchdog's sleep is over
    background,   \* _pythonista_is_backgrounded()
    active,       \* generation["outbound"]: what the servers are bound to;
                  \* its name also stays in the status
    proxy,        \* the name of generation["proxy"], and of the status
    picked,       \* the proxy chosen by a start that is not complete
    proxyState,   \* generation["proxy_state"]
    noIpv4For,    \* age of _inbound_no_ipv4_since, or NotWaiting
    warned        \* _inbound_warned

inboundVars == <<proxy, picked, proxyState, noIpv4For, warned>>
runVars == <<slept, background, active, inboundVars>>
vars == <<registryVars, pc, runVars>>

NotWaiting == WarnAfter + 1
Nobody == [name |-> None, ipv4 |-> None, ipv6 |-> None]

Init ==
    /\ RegistryInit
    /\ pc = "start"
    /\ slept = FALSE
    /\ background = FALSE
    /\ active = Nobody
    /\ proxy = None
    /\ picked = None
    /\ proxyState = "ABSENT"
    /\ noIpv4For = NotWaiting
    /\ warned = FALSE

\* InterfaceRecord.inbound_state of the record of a name.
InboundState(n) ==
    IF n \notin Names THEN "ABSENT"
    ELSE IF records[n] = None THEN "ABSENT"
    ELSE IF ~records[n].available \/ records[n].missCount > 0 THEN "ABSENT"
    ELSE IF records[n].ipv4 # None THEN "READY"
    ELSE "PRESENT_NO_IPV4"

-----------------------------------------------------------------------------
(* _start_generation *)

StartRefresh ==
    /\ pc = "start"
    /\ Call("runtime", Scans)
    /\ pc' = "startRefresh"
    /\ UNCHANGED <<worldVars, records, lastScan, runVars>>

\* The scans are over; without any result the start fails.
StartRefreshed ==
    /\ pc = "startRefresh"
    /\ \/ Publishes("runtime") /\ pc' = "selectProxy"
       \/ Raises("runtime") /\ pc' = "failed"
    /\ UNCHANGED runVars

\* The inbound interface; when it cannot be resolved, an explicit selection
\* is kept for the status, but some interface must be found for WPAD.
SelectProxy ==
    /\ pc \in {"selectProxy", "selectFallback"}
    /\ LET selection == IF pc = "selectProxy" THEN ProxySelection ELSE AUTO
           found == Resolve(selection, "proxy", proxy)
       IN  IF found = {}
           THEN /\ pc' = IF pc = "selectProxy" THEN "selectFallback"
                         ELSE "failed"
                /\ UNCHANGED picked
           ELSE /\ pc' = "selectOutbound"
                /\ \E n \in found :
                      picked' = IF ProxySelection = AUTO THEN n
                                ELSE ProxySelection
    /\ UNCHANGED <<registryVars, slept, background, active, proxy,
                   proxyState, noIpv4For, warned>>

\* What resolve() returns of a record: a copy of its addresses.
Bound(n) ==
    [name |-> n, ipv4 |-> records[n].ipv4, ipv6 |-> records[n].ipv6]

\* The outbound interface, to whose addresses the servers are bound.  The
\* clock of an inbound interface without IPv4 goes on across generations.
SelectOutbound ==
    /\ pc = "selectOutbound"
    /\ LET found == Resolve(OutboundSelection, "outbound", active.name)
           state == InboundState(picked)
       IN  IF found = {}
           THEN /\ pc' = "failed"
                /\ UNCHANGED <<active, proxy, proxyState, noIpv4For, warned>>
           ELSE /\ pc' = "asleep"
                /\ \E n \in found : active' = Bound(n)
                /\ proxy' = picked
                /\ proxyState' = state
                /\ noIpv4For' =
                      IF state = "READY" THEN NotWaiting
                      ELSE IF state = "PRESENT_NO_IPV4"
                              /\ noIpv4For = NotWaiting THEN 0
                      ELSE noIpv4For
                /\ warned' = (warned /\ state # "READY")
    /\ slept' = FALSE
    /\ UNCHANGED <<registryVars, background, picked>>

\* RecoveryRequired, or a start that failed: the supervisor tries again.
Restart ==
    /\ pc = "failed"
    /\ pc' = "start"
    /\ UNCHANGED <<registryVars, runVars>>

-----------------------------------------------------------------------------
(* _interface_watchdog *)

\* A watchdog_interval passes; the loop wakes the watchdog in time.
Tick ==
    /\ pc = "failed" \/ (pc = "asleep" /\ ~slept)
    /\ slept' = (pc = "asleep")
    /\ AgeRecords
    /\ noIpv4For' = IF noIpv4For = NotWaiting THEN NotWaiting
                    ELSE Older(noIpv4For, WarnAfter)
    /\ UNCHANGED <<worldVars, job, lastScan, pc, background, active, proxy,
                   picked, proxyState, warned>>

\* In the background no interface is scanned.
WakePaused ==
    /\ pc = "asleep" /\ slept /\ background
    /\ slept' = FALSE
    /\ UNCHANGED <<registryVars, pc, background, active, inboundVars>>

Wake ==
    /\ pc = "asleep" /\ slept /\ ~background
    /\ slept' = FALSE
    /\ Call("runtime", 1)
    /\ pc' = "refreshing"
    /\ UNCHANGED <<worldVars, records, lastScan, background, active,
                   inboundVars>>

\* The scan is over; when it raises, so does the watchdog.
Refreshed ==
    /\ pc = "refreshing"
    /\ \/ Publishes("runtime") /\ pc' = "scanned"
       \/ Raises("runtime") /\ pc' = "failed"
    /\ UNCHANGED runVars

Target == IF ProxySelection = AUTO THEN proxy ELSE ProxySelection

\* Faulty variant: a missing outbound interface is not tolerated.
Advise_NoGrace(state) ==
    /\ proxyState' = state
    /\ noIpv4For' = IF state # "PRESENT_NO_IPV4" THEN NotWaiting
                    ELSE IF noIpv4For = NotWaiting THEN 0 ELSE noIpv4For
    /\ warned' = /\ state = "PRESENT_NO_IPV4"
                 /\ warned \/ noIpv4For' >= WarnAfter
    /\ pc' = "resolving"
    /\ UNCHANGED <<registryVars, slept, background, active, picked>>

\* The rest of a pass up to its next await, once the state of the inbound
\* interface is known: its clock, and the record of the outbound one, whose
\* absence is tolerated for a while.
Advise(state) ==
    /\ proxyState' = state
    /\ noIpv4For' = IF state # "PRESENT_NO_IPV4" THEN NotWaiting
                    ELSE IF noIpv4For = NotWaiting THEN 0 ELSE noIpv4For
    /\ warned' = /\ state = "PRESENT_NO_IPV4"
                 /\ warned \/ noIpv4For' >= WarnAfter
    /\ LET r == records[active.name]
       IN  pc' = IF r # None /\ r.missCount > 0 /\ r.available
                 THEN "asleep" ELSE "resolving"
    /\ UNCHANGED <<registryVars, slept, background, active, picked>>

\* The scan has been published: the state of the inbound interface.  A ready
\* one is resolved again, for its addresses; any other is shown as it is.
Scanned ==
    /\ pc = "scanned"
    /\ LET state == InboundState(Target)
       IN  IF state = "READY"
           THEN /\ pc' = "advising"
                /\ UNCHANGED <<registryVars, runVars>>
           ELSE /\ proxy' = Target
                /\ Advise(state)

\* The inbound interface is resolved, or has gone meanwhile.
Advised ==
    /\ pc = "advising"
    /\ LET found == Resolve(ProxySelection, "proxy", Target)
       IN  IF found = {} THEN proxy' = proxy ELSE proxy' \in found
    /\ Advise("READY")

\* Faulty variant: only the name of the outbound interface is compared.
Resolved_NameOnly ==
    /\ pc = "resolving"
    /\ LET found == Resolve(OutboundSelection, "outbound", active.name)
       IN  \/ found = {} /\ pc' = "failed"
           \/ \E n \in found :
                 pc' = IF n = active.name THEN "asleep" ELSE "failed"
    /\ UNCHANGED <<registryVars, runVars>>

\* The generation goes on while the selection still gives what its servers
\* are bound to.
Resolved ==
    /\ pc = "resolving"
    /\ LET found == Resolve(OutboundSelection, "outbound", active.name)
       IN  \/ found = {} /\ pc' = "failed"
           \/ \E n \in found :
                 pc' = IF Bound(n) = active THEN "asleep" ELSE "failed"
    /\ UNCHANGED <<registryVars, runVars>>

-----------------------------------------------------------------------------
(* The specification *)

\* iOS puts the app in the background, and the user brings it back.
EnterBackground ==
    /\ BackgroundLite /\ ~background /\ changes < MaxChanges
    /\ changes' = changes + 1
    /\ background' = TRUE
    /\ UNCHANGED <<world, online, records, job, lastScan, pc, slept, active,
                   inboundVars>>

EnterForeground ==
    /\ background
    /\ background' = FALSE
    /\ UNCHANGED <<registryVars, pc, slept, active, inboundVars>>

Environment ==
    \/ (InterfaceChanges \/ RouteChanges) /\ UNCHANGED <<pc, runVars>>
    \/ EnterBackground
    \/ EnterForeground
    \/ UiRefreshes /\ UiRefresh /\ UNCHANGED <<pc, runVars>>

\* A thread inside refresh(), up to its end.
Refreshing(a) == (TakeLock(a) \/ Scan(a)) /\ UNCHANGED <<pc, runVars>>

UiEnds == (Publishes("ui") \/ Raises("ui")) /\ UNCHANGED <<pc, runVars>>

Runtime ==
    \/ StartRefresh \/ StartRefreshed \/ SelectProxy \/ SelectOutbound
    \/ Restart \/ WakePaused \/ Wake \/ Refreshed \/ Scanned \/ Advised
    \/ Resolved

Next ==
    \/ Environment
    \/ Tick
    \/ Runtime
    \/ UiEnds
    \/ \E a \in Actors : Refreshing(a)
    \/ \E a \in Actors : ScanFails(a) /\ UNCHANGED <<pc, runVars>>

Spec == Init /\ [][Next]_vars

\* The threads run, time passes, and a paused app comes back.  The lock goes
\* to the runtime at some time although the user may refresh again and again.
FairSpec ==
    /\ Spec
    /\ WF_vars(Runtime) /\ WF_vars(pc = "asleep" /\ Tick)
    /\ WF_vars(EnterForeground)
    /\ SF_vars(Refreshing("runtime")) /\ WF_vars(Refreshing("ui"))
    /\ WF_vars(UiEnds)

-----------------------------------------------------------------------------
(* Properties *)

PCs == {"start", "startRefresh", "selectProxy", "selectFallback",
        "selectOutbound", "failed", "asleep", "refreshing", "scanned",
        "advising", "resolving"}
Watching == {"asleep", "refreshing", "scanned", "advising", "resolving"}

\* The variables have their types.
TypeOK ==
    /\ RegistryTypeOK
    /\ pc \in PCs
    /\ slept \in BOOLEAN /\ background \in BOOLEAN /\ warned \in BOOLEAN
    /\ active \in [name : Names \cup {None},
                   ipv4 : {w.ipv4 : w \in Addresses} \cup {None},
                   ipv6 : {w.ipv6 : w \in Addresses} \cup {None}]
    /\ proxy \in Names \cup {None} /\ picked \in Names \cup {None}
    /\ proxyState \in {"READY", "PRESENT_NO_IPV4", "ABSENT"}
    /\ noIpv4For \in 0..NotWaiting

\* While a generation is up its servers are bound to the IPv4 address of an
\* interface that the selection allows, and never to none.
BoundWhileUp ==
    pc \in Watching =>
        /\ active.ipv4 # None
        /\ OutboundSelection # AUTO => active.name = OutboundSelection

\* The watchdog restarts the servers for the outbound interface alone, and
\* only for a reason: its record shows it without the addresses the servers
\* are bound to, or (Auto) without a route; or it has been missing from
\* MissingScans refreshes in a row and for the whole grace period.
RestartHasReason ==
    [][pc = "resolving" /\ pc' = "failed" =>
          LET r == records[active.name]
          IN  /\ r # None
              /\ \/ /\ r.missCount = 0
                    /\ \/ <<r.ipv4, r.ipv6>> # <<active.ipv4, active.ipv6>>
                       \/ OutboundSelection = AUTO /\ active.name \notin online
                 \/ r.missCount >= MissingScans /\ r.unseen >= Grace]_vars

CanBind(n) ==
    /\ OutboundSelection \in {n, AUTO}
    /\ world[n] # None
    /\ world[n].ipv4 # None

BoundToWorld ==
    /\ pc \in Watching
    /\ CanBind(active.name)
    /\ world[active.name] = [ipv4 |-> active.ipv4, ipv6 |-> active.ipv6]

\* Once the phone's interfaces stay as they are, the servers end up bound to
\* the addresses that an interface of the selection really has, and stay so.
EventuallyBound == <>[]((\E n \in Names : CanBind(n)) => BoundToWorld)

=============================================================================
