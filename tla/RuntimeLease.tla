---------------------------- MODULE RuntimeLease ----------------------------
(***************************************************************************)
(* What StableServerManager promises about its runtime threads and their   *)
(* listening sockets, without saying how: one runtime at a time holds the  *)
(* lease; only the holder acquires ports, only with all of them it serves, *)
(* it withdraws service before it gives a port back, and it ends with none *)
(* in hand.  A runtime that ended never comes back.                        *)
(***************************************************************************)
CONSTANTS Sessions, Ports

VARIABLES
    live,       \* runtimes that exist
    past,       \* runtimes that ended
    serving,    \* runtimes with a verified generation
    owned       \* the ports each runtime holds

leaseVars == <<live, past, serving, owned>>

LeaseInit ==
    /\ live = {} /\ past = {} /\ serving = {}
    /\ owned = [s \in Sessions |-> {}]

Launch(s) ==
    /\ live = {} /\ s \notin past
    /\ live' = {s}
    /\ UNCHANGED <<past, serving, owned>>

Acquire(s, p) ==
    /\ s \in live /\ s \notin serving
    /\ \A t \in Sessions : p \notin owned[t]
    /\ owned' = [owned EXCEPT ![s] = @ \cup {p}]
    /\ UNCHANGED <<live, past, serving>>

Serve(s) ==
    /\ s \in live /\ owned[s] = Ports
    /\ serving' = {s}
    /\ UNCHANGED <<live, past, owned>>

Withdraw(s) ==
    /\ s \in serving
    /\ serving' = {}
    /\ UNCHANGED <<live, past, owned>>

Release(s, p) ==
    /\ s \in live /\ s \notin serving /\ p \in owned[s]
    /\ owned' = [owned EXCEPT ![s] = @ \ {p}]
    /\ UNCHANGED <<live, past, serving>>

End(s) ==
    /\ s \in live /\ s \notin serving /\ owned[s] = {}
    /\ live' = {}
    /\ past' = past \cup {s}
    /\ UNCHANGED <<serving, owned>>

LeaseNext ==
    \E s \in Sessions :
      \/ Launch(s) \/ Serve(s) \/ Withdraw(s) \/ End(s)
      \/ \E p \in Ports : Acquire(s, p) \/ Release(s, p)

LeaseSpec == LeaseInit /\ [][LeaseNext]_leaseVars
=============================================================================
