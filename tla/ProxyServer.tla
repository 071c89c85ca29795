----------------------------- MODULE ProxyServer -----------------------------
(***************************************************************************)
(* AsyncProxyServer (lib/proxy_server.py): admission of clients, the task  *)
(* of each client from client_connected to its last await, and stop().     *)
(* The tasks run the CONNECT path of AsyncSocks5Handler (and the wait of   *)
(* its UDP ASSOCIATE) or the CONNECT and absolute-URL paths of             *)
(* AsyncHTTPProxyHandler, up to the teardown of their two connections.     *)
(*                                                                         *)
(* Everything runs on one event loop, so one action is what a coroutine    *)
(* does from one await to the next, and pc[c] names the await client c is  *)
(* suspended in.  task.cancel() marks the task; CancelledError is raised   *)
(* at that await when the task is resumed.  An await of a connection that  *)
(* is already lost does not suspend in the code; here it is a step like    *)
(* any other, in which stop() may cancel.                                  *)
(***************************************************************************)
EXTENDS Naturals, FiniteSets

LOCAL INSTANCE TLC

CONSTANTS
    Clients,              \* connections that clients may open
    MaxClients,           \* max_client_connections
    Handler,              \* handler_class: "socks" or "http"
    Errors,               \* how a connection may fail: "reset" is a
                          \* ConnectionError, "os" any other OSError (ETIMEDOUT)
    PeersStall,           \* a peer may stop reading with data queued for it
    WaitForSwallows       \* asyncio.wait_for returns a result that is ready
                          \* instead of raising CancelledError (Python < 3.12)

ASSUME ProxyAssumption ==
    /\ IsFiniteSet(Clients)
    /\ MaxClients \in Nat \ {0}
    /\ Handler \in {"socks", "http"}
    /\ Errors \subseteq {"reset", "os"}
    /\ PeersStall \in BOOLEAN
    /\ WaitForSwallows \in BOOLEAN

VARIABLES
    server,       \* _server: "new", "open", "closed"
    tasks,        \* _client_tasks
    connections,  \* traffic_stats.num_connections
    pc,           \* the await each client's task is in
    outcome,      \* how the handler is leaving: "ok", "error", "cancelled"
    cancel,       \* cancel() was called and CancelledError not raised yet
    link,         \* per client, the two transports: "up" is the upstream's
    waiter,       \* per client, what wait_closed() of each transport gives
    stopper,      \* where stop() is
    awaited       \* the tasks stop() waits for

taskVars == <<tasks, connections>>
connVars == <<link, waiter>>
stopVars == <<stopper, awaited>>
vars == <<server, tasks, connections, pc, outcome, cancel, link, waiter,
          stopper, awaited>>

Sides == {"up", "down"}

\* Awaits of the handler's own coroutine, and of client_connected around it.
InHandler == {"handshake", "connecting", "reply", "udp", "relay", "forward",
              "reap", "collect", "closeUp", "closeDown", "closeAgain",
              "drain", "closeSelf"}
Handling == InHandler \cup {"leaving"}
PCs == Handling \cup {"none", "ready", "rejecting", "done"}

LinkStates == {"none", "open", "flushing", "closing", "lost"}
WaiterStates == {"pending", "ok", "cancelled", "reset", "os"}

TypeOK ==
    /\ server \in {"new", "open", "closed"}
    /\ tasks \subseteq Clients
    /\ connections \in 0..MaxClients
    /\ pc \in [Clients -> PCs]
    /\ outcome \in [Clients -> {"ok", "error", "cancelled"}]
    /\ cancel \in [Clients -> BOOLEAN]
    /\ link \in [Clients -> [Sides -> LinkStates]]
    /\ waiter \in [Clients -> [Sides -> WaiterStates]]
    /\ stopper \in {"idle", "waiting", "gathering", "done"}
    /\ awaited \subseteq Clients

Init ==
    /\ server = "new"
    /\ tasks = {}
    /\ connections = 0
    /\ pc = [c \in Clients |-> "none"]
    /\ outcome = [c \in Clients |-> "ok"]
    /\ cancel = [c \in Clients |-> FALSE]
    /\ link = [c \in Clients |-> [s \in Sides |-> "none"]]
    /\ waiter = [c \in Clients |-> [s \in Sides |-> "pending"]]
    /\ stopper = "idle"
    /\ awaited = {}

-----------------------------------------------------------------------------
(* Transports and tasks of asyncio *)

\* Unsent bytes may be queued once data has been relayed.
MayQueue(c) == IF link[c].up = "none" THEN {FALSE} ELSE BOOLEAN

\* writer.close(), unless writer.is_closing(): connection_lost follows when
\* what is queued has been sent.
Close(c, s, queued) ==
    link' = IF link[c][s] # "open" THEN link
            ELSE [link EXCEPT ![c][s] =
                     IF queued THEN "flushing" ELSE "closing"]

\* The transport whose wait_closed() an await stands for.
AwaitedSide(at) == IF at \in {"closeUp", "closeAgain"} THEN "up" ELSE "down"
Closings == {"rejecting", "closeUp", "closeDown", "closeAgain", "closeSelf",
             "leaving"}

\* task.cancel() for every task of S: a task suspended in wait_closed()
\* cancels the transport's close future along with it.
CancelTasks(S) ==
    LET live == {c \in S : pc[c] # "done"}
        hit(c, s) == /\ c \in live
                     /\ pc[c] \in Closings
                     /\ s = AwaitedSide(pc[c])
                     /\ waiter[c][s] = "pending"
    IN  /\ cancel' = [c \in Clients |-> cancel[c] \/ c \in live]
        /\ waiter' = [c \in Clients |-> [s \in Sides |->
                        IF hit(c, s) THEN "cancelled" ELSE waiter[c][s]]]

\* Task c goes on to another await; a cancellation raised or swallowed on the
\* way is used up.
Goto(c, at) ==
    /\ pc' = [pc EXCEPT ![c] = at]
    /\ cancel' = [cancel EXCEPT ![c] = FALSE]

\* How the handler is leaving: only the HTTP handler treats the cases apart.
Leaves(c, how) ==
    outcome' = [outcome EXCEPT ![c] = IF Handler = "http" THEN how ELSE @]

\* An await inside asyncio.wait_for: returns although cancelled when its
\* result is ready, on the Pythons that do so.
Returns(c) == ~cancel[c] \/ WaitForSwallows

\* Data queued for the peer has been sent.
Flush(c, s) ==
    /\ link[c][s] = "flushing"
    /\ link' = [link EXCEPT ![c][s] = "closing"]
    /\ UNCHANGED <<server, taskVars, pc, outcome, cancel, waiter, stopVars>>

Lost(c, s, how) ==
    /\ link' = [link EXCEPT ![c][s] = "lost"]
    /\ waiter' = [waiter EXCEPT ![c][s] = IF @ = "pending" THEN how ELSE @]
    /\ UNCHANGED <<server, taskVars, pc, outcome, cancel, stopVars>>

\* connection_lost(None) of a closed transport.
ConnectionLost(c, s) ==
    /\ link[c][s] = "closing"
    /\ Lost(c, s, "ok")

\* connection_lost(exc): the connection fails.
NetworkError(c, s) ==
    /\ link[c][s] \in {"open", "flushing"}
    /\ \E e \in Errors : Lost(c, s, e)

-----------------------------------------------------------------------------
(* The end of a client's task *)

\* Faulty variant: a cancelled handler skips the statistics.
LeaveHandler_CancelledCounted(c) ==
    /\ Goto(c, "leaving")
    /\ connections' = IF cancel[c] THEN connections ELSE connections - 1
    /\ \E queued \in MayQueue(c) : Close(c, "down", queued)
    /\ UNCHANGED <<server, tasks, waiter, stopVars>>

\* handler.handle() is over: client_connected's finally clause runs up to its
\* wait_closed().
LeaveHandler(c) ==
    /\ Goto(c, "leaving")
    /\ connections' = IF connections > 0 THEN connections - 1 ELSE 0
    /\ \E queued \in MayQueue(c) : Close(c, "down", queued)
    /\ UNCHANGED <<server, tasks, waiter, stopVars>>

\* AsyncSocks5Handler.handle closes an open client connection and waits for
\* it; AsyncHTTPProxyHandler.handle leaves that to client_connected.
EndHandle(c) ==
    IF Handler = "socks" /\ link[c].down = "open"
    THEN /\ Goto(c, "closeSelf")
         /\ \E queued \in MayQueue(c) : Close(c, "down", queued)
         /\ UNCHANGED <<server, taskVars, waiter, stopVars>>
    ELSE LeaveHandler(c)

\* Close the upstream and wait for it at the given await.
CloseUpstream(c, at) ==
    /\ Goto(c, at)
    /\ \E queued \in MayQueue(c) : Close(c, "up", queued)
    /\ UNCHANGED <<server, taskVars, waiter, stopVars>>

\* From one await to another, with no effect on what is shared.
Continue(c, at) ==
    /\ Goto(c, at)
    /\ UNCHANGED <<server, taskVars, connVars, stopVars>>

-----------------------------------------------------------------------------
(* A client's task *)

Accept(c) ==
    /\ server = "open"
    /\ pc[c] = "none"
    /\ pc' = [pc EXCEPT ![c] = "ready"]
    /\ link' = [link EXCEPT ![c].down = "open"]
    /\ UNCHANGED <<server, taskVars, outcome, cancel, waiter, stopVars>>

\* The task starts: the limit is checked and the slot taken before any await.
ClientConnected(c) ==
    /\ pc[c] = "ready"
    /\ IF Cardinality(tasks) >= MaxClients
       THEN /\ Goto(c, "rejecting")
            /\ Close(c, "down", FALSE)
            /\ UNCHANGED taskVars
       ELSE /\ Goto(c, "handshake")
            /\ tasks' = tasks \cup {c}
            /\ connections' = connections + 1
            /\ UNCHANGED link
    /\ UNCHANGED <<server, outcome, waiter, stopVars>>

RejectedClosed(c) ==
    /\ pc[c] = "rejecting"
    /\ waiter[c].down # "pending"
    /\ Continue(c, "done")
    /\ UNCHANGED outcome

\* The request names a destination to connect to.
HandshakeDone(c) ==
    /\ pc[c] = "handshake"
    /\ Returns(c)
    /\ Continue(c, "connecting")
    /\ UNCHANGED outcome

\* SOCKS UDP ASSOCIATE: the task waits for the client to close.
UdpAssociated(c) ==
    /\ Handler = "socks"
    /\ pc[c] = "handshake"
    /\ Returns(c)
    /\ Continue(c, "udp")
    /\ UNCHANGED outcome

UdpEnds(c) ==
    /\ pc[c] = "udp"
    /\ ~cancel[c]
    /\ Leaves(c, "ok")
    /\ EndHandle(c)

\* A bad request, a timeout, or a client that is gone.
HandshakeFails(c) ==
    /\ pc[c] = "handshake"
    /\ ~cancel[c]
    /\ Leaves(c, "error")
    /\ \/ EndHandle(c)
       \/ Handler = "http" /\ Continue(c, "drain")

Connected(c) ==
    /\ pc[c] = "connecting"
    /\ Returns(c)
    /\ \E at \in IF Handler = "socks" THEN {"relay"} ELSE {"reply", "forward"} :
          Goto(c, at)
    /\ link' = [link EXCEPT ![c].up = "open"]
    /\ UNCHANGED <<server, taskVars, outcome, waiter, stopVars>>

ConnectFails(c) ==
    /\ pc[c] = "connecting"
    /\ ~cancel[c]
    /\ Leaves(c, "error")
    /\ IF Handler = "socks" THEN EndHandle(c) ELSE Continue(c, "drain")

\* HTTP CONNECT: the 200 is drained to the client, or the client is gone.
ReplySent(c) ==
    /\ pc[c] = "reply"
    /\ ~cancel[c]
    /\ \/ Continue(c, "relay") /\ UNCHANGED outcome
       \/ CloseUpstream(c, "closeAgain") /\ Leaves(c, "error")

\* tcp_forward: both directions ended, or one failed and the other is told to.
RelayEnds(c) ==
    /\ pc[c] = "relay"
    /\ ~cancel[c]
    /\ \E how \in {"ok", "error"} : Leaves(c, how)
    /\ Continue(c, "reap")

Reaped(c) ==
    /\ pc[c] = "reap"
    /\ ~cancel[c]
    /\ Continue(c, "collect")
    /\ UNCHANGED outcome

\* The finally clause has gathered the relay tasks: close the upstream first.
Collected(c) ==
    /\ pc[c] = "collect"
    /\ ~cancel[c]
    /\ CloseUpstream(c, "closeUp")
    /\ UNCHANGED outcome

\* wait_closed() is over: the connection is lost, or the wait was cancelled.
Closed(c) == waiter[c][AwaitedSide(pc[c])] # "pending" \/ cancel[c]

UpClosed(c) ==
    /\ pc[c] = "closeUp"
    /\ Closed(c)
    /\ Goto(c, "closeDown")
    /\ \E queued \in MayQueue(c) : Close(c, "down", queued)
    /\ UNCHANGED <<server, taskVars, outcome, waiter, stopVars>>

\* tcp_forward is over; do_CONNECT closes the upstream once more.
DownClosed(c) ==
    /\ pc[c] = "closeDown"
    /\ Closed(c)
    /\ IF Handler = "socks" THEN EndHandle(c) ELSE CloseUpstream(c, "closeAgain")
    /\ UNCHANGED outcome

\* do_verb: the response has been relayed, or a direction failed.
ForwardEnds(c) ==
    /\ pc[c] = "forward"
    /\ ~cancel[c]
    /\ \E how \in {"ok", "error"} : Leaves(c, how)
    /\ CloseUpstream(c, "closeAgain")

\* The finally clause of do_CONNECT and do_verb is over.
UpClosedAgain(c) ==
    /\ pc[c] = "closeAgain"
    /\ Closed(c)
    /\ \/ outcome[c] # "ok" /\ LeaveHandler(c)
       \/ outcome[c] # "cancelled" /\ Continue(c, "drain")
    /\ UNCHANGED outcome

Drained(c) ==
    /\ pc[c] = "drain"
    /\ ~cancel[c]
    /\ LeaveHandler(c)
    /\ UNCHANGED outcome

SelfClosed(c) ==
    /\ pc[c] = "closeSelf"
    /\ Closed(c)
    /\ LeaveHandler(c)
    /\ UNCHANGED outcome

\* Faulty variant: the upstream is closed on errors only, not on cancellation.
Cancelled_UpstreamLeft(c) ==
    /\ cancel[c]
    /\ pc[c] \in InHandler \ Closings
    /\ Leaves(c, "cancelled")
    /\ IF pc[c] \in {"relay", "reap"} THEN Continue(c, "collect")
       ELSE EndHandle(c)

\* Faulty variant: the relay survives its cancellation.
Cancelled_RelaySurvives(c) ==
    /\ cancel[c]
    /\ pc[c] \in InHandler \ Closings
    /\ Leaves(c, "cancelled")
    /\ CASE pc[c] \in {"handshake", "connecting", "udp", "drain"} -> EndHandle(c)
         [] pc[c] \in {"reply", "forward"} -> CloseUpstream(c, "closeAgain")
         [] pc[c] \in {"relay", "reap"} -> Continue(c, "relay")
         [] pc[c] = "collect" -> CloseUpstream(c, "closeUp")

\* CancelledError is raised at the await the task is suspended in.
Cancelled(c) ==
    /\ cancel[c]
    /\ pc[c] \in InHandler \ Closings
    /\ Leaves(c, "cancelled")
    /\ CASE pc[c] \in {"handshake", "connecting", "udp", "drain"} -> EndHandle(c)
         [] pc[c] \in {"reply", "forward"} -> CloseUpstream(c, "closeAgain")
         [] pc[c] \in {"relay", "reap"} -> Continue(c, "collect")
         [] pc[c] = "collect" ->
               IF Handler = "socks" THEN EndHandle(c)
               ELSE CloseUpstream(c, "closeAgain")

\* client_connected is over.  An OSError that is no ConnectionError leaves
\* its finally clause before the slot is given back.
Left(c) ==
    /\ pc[c] = "leaving"
    /\ Closed(c)
    /\ Goto(c, "done")
    /\ tasks' = IF waiter[c].down # "os" \/ cancel[c]
                THEN tasks \ {c} ELSE tasks
    /\ UNCHANGED <<server, connections, outcome, connVars, stopVars>>

-----------------------------------------------------------------------------
(* The server *)

Start ==
    /\ server = "new"
    /\ server' = "open"
    /\ UNCHANGED <<taskVars, pc, outcome, cancel, connVars, stopVars>>

\* The listener is closed and every task that has a slot is cancelled; with
\* none, stop() returns at once.
Stop ==
    /\ server = "open"
    /\ server' = "closed"
    /\ CancelTasks(tasks)
    /\ awaited' = tasks
    /\ stopper' = IF tasks = {} THEN "done" ELSE "waiting"
    /\ UNCHANGED <<taskVars, pc, outcome, link>>

\* Nothing but its peers, or a timeout of seconds, moves task c.
Settled(c) ==
    /\ ~cancel[c]
    /\ pc[c] \notin {"reap", "collect"}
    /\ pc[c] \in Closings => /\ link[c][AwaitedSide(pc[c])] = "flushing"
                             /\ ~Closed(c)

\* Three seconds are over, in which the event loop has run whatever could run:
\* what is still pending is cancelled once more and then waited for without a
\* limit.
StopTimeout ==
    /\ stopper = "waiting"
    /\ \A c \in awaited : pc[c] # "done" => Settled(c)
    /\ \E c \in awaited : pc[c] # "done"
    /\ CancelTasks(awaited)
    /\ stopper' = "gathering"
    /\ UNCHANGED <<server, taskVars, pc, outcome, link, awaited>>

StopReturns ==
    /\ stopper \in {"waiting", "gathering"}
    /\ \A c \in awaited : pc[c] = "done"
    /\ stopper' = "done"
    /\ UNCHANGED <<server, taskVars, pc, outcome, cancel, connVars, awaited>>

-----------------------------------------------------------------------------
(* Specification *)

\* What the event loop runs without waiting for anybody outside.
LoopStep(c) ==
    \/ ClientConnected(c) \/ RejectedClosed(c)
    \/ Reaped(c) \/ Collected(c) \/ UpClosed(c) \/ DownClosed(c)
    \/ UpClosedAgain(c) \/ SelfClosed(c) \/ Cancelled(c) \/ Left(c)
    \/ \E s \in Sides : ConnectionLost(c, s)

\* What the code bounds with a timeout of its own.
TimedStep(c) ==
    \/ HandshakeDone(c) \/ UdpAssociated(c) \/ HandshakeFails(c)
    \/ Connected(c) \/ ConnectFails(c)

\* What depends on the peers and on the network.
PeerStep(c) ==
    \/ Accept(c) \/ UdpEnds(c) \/ ReplySent(c) \/ RelayEnds(c)
    \/ ForwardEnds(c) \/ Drained(c)
    \/ \E s \in Sides : Flush(c, s) \/ NetworkError(c, s)

ServerStep == StopTimeout \/ StopReturns

Next ==
    \/ Start \/ Stop \/ ServerStep
    \/ \E c \in Clients : LoopStep(c) \/ TimedStep(c) \/ PeerStep(c)

Spec == Init /\ [][Next]_vars

\* The event loop keeps running and its timers fire.  A peer that does not
\* stall reads what was queued for it; nothing else is expected of peers.
FairSpec ==
    /\ Spec
    /\ WF_vars(StopTimeout) /\ WF_vars(StopReturns)
    /\ \A c \in Clients :
          /\ WF_vars(LoopStep(c))
          /\ WF_vars(TimedStep(c))
          /\ ~PeersStall => WF_vars(Drained(c))
          /\ ~PeersStall => \A s \in Sides : WF_vars(Flush(c, s))

-----------------------------------------------------------------------------
(* Properties *)

Handlers == {c \in Clients : pc[c] \in Handling}

\* A slot of _client_tasks belongs to a handler that is still at work: none is
\* kept for a client whose task has ended.
FinishedClientsHoldNoSlot == tasks \subseteq Handlers

\* No more than max_client_connections handlers are at work, although the
\* check, the slot and the statistics are updated at different points.
LimitRespected == Cardinality(Handlers) <= MaxClients

\* The connection count shown to the user is the number of clients inside
\* handle(), however they leave it: normally, by an error or by stop().
CountMatchesHandlers ==
    connections = Cardinality({c \in Clients : pc[c] \in InHandler})

\* The slots, the limit and the count agree on which handlers are at work.
SlotsSound == FinishedClientsHoldNoSlot /\ LimitRespected /\ CountMatchesHandlers

\* A client is turned away only while max_client_connections others really
\* are being served.
RejectedOnlyWhenFull ==
    [][\A c \in Clients :
          pc[c] = "ready" /\ pc'[c] = "rejecting"
          => Cardinality(Handlers) = MaxClients]_vars

\* When a client's task has ended both its connections have been closed,
\* wherever in the teardown the task was cancelled.
BothEndsClosed ==
    \A c \in Clients : pc[c] = "done" => \A s \in Sides : link[c][s] # "open"

\* After stop() has returned no handler is at work: all were cancelled.
StopLeavesNoHandler == stopper = "done" => Handlers = {}

\* stop() returns.
StopCompletes == stopper = "waiting" ~> stopper = "done"

-----------------------------------------------------------------------------
\* Clients are interchangeable; used only where no liveness is checked.
ClientSymmetry == Permutations(Clients)
=============================================================================
