---------------------------- MODULE UdpForwarder ----------------------------
(***************************************************************************)
(* One SOCKS5 UDP association: handle_udp, UdpForwarder and the protocols  *)
(* of its datagram endpoints (lib/socks5_server.py).  The client's         *)
(* datagrams are unpacked and sent from outbound sockets, and a reply is   *)
(* taken back to the client by a table of the peers it has sent to.        *)
(*                                                                         *)
(* Every datagram is handled in a task of its own, and one that names a    *)
(* host waits for its resolution: what a task finds when it goes on may    *)
(* have changed.  Tasks are told apart only by who sent the datagram.      *)
(***************************************************************************)
EXTENDS Naturals, FiniteSets, FiniteSetsExt

CONSTANTS
    Senders,      \* addresses datagrams come from at the client's endpoint
    Expected,     \* those that match expected_client
    Peers,        \* addresses on the network
    FamilyOf,     \* the address family of a peer
    Families,     \* the families with an outbound address
    MaxMappings,  \* udp_max_mappings
    Ttl,          \* udp_mapping_ttl, in ticks
    MaxPending,   \* udp_max_pending_tasks
    None

ASSUME UdpAssumption ==
    /\ Expected \subseteq Senders /\ None \notin Senders
    /\ IsFiniteSet(Senders) /\ IsFiniteSet(Peers)
    /\ FamilyOf \in [Peers -> {"ipv4", "ipv6"}]
    /\ Families \subseteq {"ipv4", "ipv6"}
    /\ MaxMappings \in Nat \ {0}
    /\ Ttl \in Nat
    /\ MaxPending \in Nat \ {0}

VARIABLES
    pc,           \* handle_udp: "creating" endpoints, "serving" or "ended"
    open,         \* the endpoints that client_conn, server_conn_ipv4 and
                  \* server_conn_ipv6 refer to
    closing,      \* endpoints that are closed, before connection_lost()
    locked,       \* _locked_client
    mapping,      \* connections: the client a peer answers to, or None
    age,          \* and the time since the entry was used
    fresh,        \* tasks of client datagrams that have not begun
    resolving,    \* those that wait for a name to be resolved
    inbox,        \* tasks of peers' datagrams that have not begun
    quiet         \* time since anything was sent to the peer or taken from it
                  \* (not in the code)

connections == <<mapping, age>>
vars == <<pc, open, closing, locked, connections, fresh, resolving, inbox, quiet>>

Endpoints == {"client"} \cup Families

\* A time past the TTL is not told apart from a longer one.
Later(t) == IF t > Ttl THEN t ELSE t + 1

Init ==
    /\ pc = "creating"
    /\ open = {}
    /\ closing = {}
    /\ locked = None
    /\ mapping = [p \in Peers |-> None]
    /\ age = [p \in Peers |-> 0]
    /\ fresh = [s \in Senders |-> 0]
    /\ resolving = [s \in Senders |-> 0]
    /\ inbox = [p \in Peers |-> 0]
    /\ quiet = [p \in Peers |-> Ttl + 1]

Total(f, S) == MapThenSumSet(LAMBDA x : f[x], S)

\* UdpForwarderProtocol._tasks of an endpoint.
PeersOf(e) == {p \in Peers : FamilyOf[p] = e}
Pending(e) == IF e = "client" THEN Total(fresh, Senders) + Total(resolving, Senders)
              ELSE Total(inbox, PeersOf(e))

Mapped == {p \in Peers : mapping[p] # None}

\* The entries of K are all that is left of the table.
Keep(K) ==
    /\ mapping' = [p \in Peers |-> IF p \in K THEN mapping[p] ELSE None]
    /\ age' = [p \in Peers |-> IF p \in K THEN age[p] ELSE 0]

-----------------------------------------------------------------------------
(* The endpoints *)

\* start() creates the client's endpoint first, then one for each family.
CreationOrder == <<"client", "ipv4", "ipv6">>
Missing == Endpoints \ open
NextEndpoint ==
    CreationOrder[Min({i \in 1..3 : CreationOrder[i] \in Missing})]

Created ==
    /\ pc = "creating"
    /\ open' = open \cup {NextEndpoint}
    /\ pc' = IF open' = Endpoints THEN "serving" ELSE "creating"
    /\ UNCHANGED <<closing, locked, connections, fresh, resolving, inbox, quiet>>

\* close()
Close ==
    /\ open' = {}
    /\ closing' = closing \cup open
    /\ Keep({})

\* Creating an endpoint fails or is cancelled.
CreateFails ==
    /\ pc = "creating"
    /\ Close
    /\ pc' = "ended"
    /\ UNCHANGED <<locked, fresh, resolving, inbox, quiet>>

\* The client's TCP connection ends, or the handler is cancelled.
AssociationEnds ==
    /\ pc = "serving"
    /\ Close
    /\ pc' = "ended"
    /\ UNCHANGED <<locked, fresh, resolving, inbox, quiet>>

\* connection_lost(): what is pending on the endpoint is cancelled.  (A task
\* that goes on nevertheless, as asyncio.wait_for may, finds no endpoint.)
ConnectionLost(e) ==
    /\ e \in closing
    /\ closing' = closing \ {e}
    /\ IF e = "client"
       THEN /\ fresh' = [s \in Senders |-> 0]
            /\ resolving' = [s \in Senders |-> 0]
            /\ UNCHANGED inbox
       ELSE /\ inbox' = [p \in Peers |-> IF FamilyOf[p] = e THEN 0 ELSE inbox[p]]
            /\ UNCHANGED <<fresh, resolving>>
    /\ UNCHANGED <<pc, open, locked, connections, quiet>>

\* datagram_received(): a datagram beyond the limit is dropped.
ClientDatagram(s) ==
    /\ "client" \in open
    /\ Pending("client") < MaxPending
    /\ fresh' = [fresh EXCEPT ![s] = @ + 1]
    /\ UNCHANGED <<pc, open, closing, locked, connections, resolving, inbox, quiet>>

PeerDatagram(p) ==
    /\ FamilyOf[p] \in open
    /\ Pending(FamilyOf[p]) < MaxPending
    /\ inbox' = [inbox EXCEPT ![p] = @ + 1]
    /\ UNCHANGED <<pc, open, closing, locked, connections, fresh, resolving, quiet>>

-----------------------------------------------------------------------------
(* The table *)

\* _prune_mappings: what is left of it without the expired entries.
Live == {p \in Mapped : age[p] <= Ttl}

\* The peers that may be left of S when p has just been used: at most
\* max_mappings, those used last.  Of entries used at one moment the ones
\* entered first go, and p is not among them.
Prunings(S, p) ==
    {K \in SUBSET S :
        /\ p \in K
        /\ Cardinality(K) = Min({Cardinality(S), MaxMappings})
        /\ \A q \in K \ {p}, r \in S \ K : age[q] <= age[r]}

\* A datagram of s is sent to p: the table has an entry for it, used now.
Sent(s, p) ==
    /\ \E K \in Prunings(Live \cup {p}, p) :
          /\ mapping' = [q \in Peers |-> IF q = p THEN s
                                        ELSE IF q \in K THEN mapping[q] ELSE None]
          /\ age' = [q \in Peers |-> IF q \in K \ {p} THEN age[q] ELSE 0]
    /\ quiet' = [quiet EXCEPT ![p] = 0]

\* A resolved address is used if there is an endpoint of its family.
SendOrDrop(s, p) ==
    IF FamilyOf[p] \in open THEN Sent(s, p)
    ELSE UNCHANGED <<connections, quiet>>

-----------------------------------------------------------------------------
(* on_client_datagram *)

\* _client_allowed: the first sender that matches is the only one from then on.
Allowed(s) == s \in Expected /\ locked \in {None, s}

Rejected(s) ==
    /\ fresh[s] > 0
    /\ ~Allowed(s)
    /\ fresh' = [fresh EXCEPT ![s] = @ - 1]
    /\ UNCHANGED <<pc, open, closing, locked, connections, resolving, inbox, quiet>>

\* Up to the await of resolve_address, which does not suspend for a literal
\* address.  The table is pruned before the datagram is looked at.
Begins(s) ==
    /\ fresh[s] > 0
    /\ Allowed(s)
    /\ locked' = s
    /\ fresh' = [fresh EXCEPT ![s] = @ - 1]
    /\ UNCHANGED <<pc, open, closing, inbox>>

Malformed(s) ==
    /\ Begins(s)
    /\ Keep(Live)
    /\ UNCHANGED <<resolving, quiet>>

NamesHost(s) ==
    /\ Begins(s)
    /\ Keep(Live)
    /\ resolving' = [resolving EXCEPT ![s] = @ + 1]
    /\ UNCHANGED quiet

NamesAddress(s, p) ==
    /\ Begins(s)
    /\ IF FamilyOf[p] \in open THEN Sent(s, p)
       ELSE Keep(Live) /\ UNCHANGED quiet
    /\ UNCHANGED resolving

\* The resolution is over, with an address or without one.
Resolved(s, p) ==
    /\ resolving[s] > 0
    /\ resolving' = [resolving EXCEPT ![s] = @ - 1]
    /\ SendOrDrop(s, p)
    /\ UNCHANGED <<pc, open, closing, locked, fresh, inbox>>

Unresolved(s) ==
    /\ resolving[s] > 0
    /\ resolving' = [resolving EXCEPT ![s] = @ - 1]
    /\ UNCHANGED <<pc, open, closing, locked, connections, fresh, inbox, quiet>>

-----------------------------------------------------------------------------
(* on_server_datagram *)

\* Faulty variant: a reply does not renew the entry.
Reply_NotRenewed(p) ==
    /\ inbox[p] > 0
    /\ inbox' = [inbox EXCEPT ![p] = @ - 1]
    /\ Keep(Live)
    /\ quiet' = [quiet EXCEPT ![p] = IF p \in Live THEN 0 ELSE @]
    /\ UNCHANGED <<pc, open, closing, locked, fresh, resolving>>

\* Faulty variant: expired entries are not removed before the table is used.
Reply_Unpruned(p) ==
    /\ inbox[p] > 0
    /\ inbox' = [inbox EXCEPT ![p] = @ - 1]
    /\ age' = [age EXCEPT ![p] = 0]
    /\ quiet' = [quiet EXCEPT ![p] = IF p \in Mapped THEN 0 ELSE @]
    /\ UNCHANGED <<pc, open, closing, locked, mapping, fresh, resolving>>

\* Only a peer with an entry in the table is passed on to the client.
Reply(p) ==
    /\ inbox[p] > 0
    /\ inbox' = [inbox EXCEPT ![p] = @ - 1]
    /\ mapping' = [q \in Peers |-> IF q \in Live THEN mapping[q] ELSE None]
    /\ age' = [q \in Peers |-> IF q \in Live \ {p} THEN age[q] ELSE 0]
    /\ quiet' = [quiet EXCEPT ![p] = IF p \in Live THEN 0 ELSE @]
    /\ UNCHANGED <<pc, open, closing, locked, fresh, resolving>>

Tick ==
    /\ age' = [p \in Peers |-> IF p \in Mapped THEN Later(age[p]) ELSE 0]
    /\ quiet' = [p \in Peers |-> Later(quiet[p])]
    /\ UNCHANGED <<pc, open, closing, locked, mapping, fresh, resolving, inbox>>

-----------------------------------------------------------------------------
(* Specification *)

\* What the event loop runs without waiting for anybody outside.
LoopStep ==
    \/ \E e \in Endpoints : ConnectionLost(e)
    \/ \E s \in Senders :
          \/ Rejected(s) \/ Malformed(s) \/ NamesHost(s)
          \/ \E p \in Peers : NamesAddress(s, p)
    \/ \E p \in Peers : Reply(p)

\* A resolution is bounded by connection_timeout.
ResolutionEnds ==
    \E s \in Senders : Unresolved(s) \/ \E p \in Peers : Resolved(s, p)

Next ==
    \/ Created \/ CreateFails \/ AssociationEnds
    \/ LoopStep \/ ResolutionEnds \/ Tick
    \/ \E s \in Senders : ClientDatagram(s)
    \/ \E p \in Peers : PeerDatagram(p)

Spec == Init /\ [][Next]_vars

\* The event loop runs.  Nothing is expected of the client and of its peers.
FairSpec ==
    /\ Spec
    /\ \A e \in Endpoints : WF_vars(ConnectionLost(e))

-----------------------------------------------------------------------------
(* Properties *)

\* The variables have their types, and no limit is exceeded: of the table, and
\* of the tasks of each endpoint.
TypeOK ==
    /\ pc \in {"creating", "serving", "ended"}
    /\ open \subseteq Endpoints /\ closing \subseteq Endpoints
    /\ locked \in Senders \cup {None}
    /\ mapping \in [Peers -> Senders \cup {None}]
    /\ age \in [Peers -> 0..(Ttl + 1)] /\ quiet \in [Peers -> 0..(Ttl + 1)]
    /\ Cardinality(Mapped) <= MaxMappings
    /\ fresh \in [Senders -> 0..MaxPending]
    /\ resolving \in [Senders -> 0..MaxPending]
    /\ inbox \in [Peers -> 0..MaxPending]
    /\ \A e \in Endpoints : Pending(e) <= MaxPending

\* The association belongs to one client: every reply goes to the sender it was
\* locked to, although datagrams of others are waiting.
OneClient == \A p \in Mapped : mapping[p] = locked /\ locked \in Expected

\* A peer gets an answer through only when the client and the peer have
\* exchanged a datagram within the TTL, whatever the table went through since.
RepliesSolicited ==
    [][\A p \in Peers : Reply(p) /\ quiet'[p] = 0 => quiet[p] <= Ttl]_vars

\* A peer that is among the max_mappings ones used last, within the TTL, is
\* answered for: nothing pushes its entry out of the table.
RecentPeersMapped ==
    pc # "ended" =>
      \A p \in Peers :
        /\ quiet[p] <= Ttl
        /\ Cardinality({q \in Peers : quiet[q] <= quiet[p]}) <= MaxMappings
        => p \in Mapped

\* The table is the one client's, holds on to the peers in use, and is within
\* its limits, as are the tasks.
AssociationSound == TypeOK /\ OneClient /\ RecentPeersMapped

\* When the association ends, whatever is still being created or resolved, its
\* sockets, its table and its tasks go, and none comes back.
Released ==
    /\ open = {} /\ closing = {} /\ Mapped = {}
    /\ \A e \in Endpoints : Pending(e) = 0

AssociationReleased == pc = "ended" ~> []Released
=============================================================================
