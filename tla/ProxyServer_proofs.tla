-------------------------- MODULE ProxyServer_proofs --------------------------
(***************************************************************************)
(* Theorems about ProxyServer for every set of clients, limit, handler and *)
(* kind of failure.                                                        *)
(***************************************************************************)
EXTENDS ProxyServer, FiniteSetTheorems, TLAPS

\* TypeOK without the bound on connections, which needs the rest.
Types ==
    /\ server \in {"new", "open", "closed"}
    /\ tasks \subseteq Clients
    /\ pc \in [Clients -> PCs]
    /\ outcome \in [Clients -> {"ok", "error", "cancelled"}]
    /\ cancel \in [Clients -> BOOLEAN]
    /\ link \in [Clients -> [Sides -> LinkStates]]
    /\ waiter \in [Clients -> [Sides -> WaiterStates]]
    /\ stopper \in {"idle", "waiting", "gathering", "done"}
    /\ awaited \subseteq Clients

\* One element more, one less.
LEMMA AddOne ==
  ASSUME NEW S, IsFiniteSet(S), NEW x
  PROVE  /\ Cardinality(S \cup {x}) \in Nat
         /\ Cardinality(S \cup {x}) <= Cardinality(S) + 1
         /\ x \notin S => Cardinality(S \cup {x}) = Cardinality(S) + 1
<1> DEFINE n == Cardinality(S)
           m == Cardinality(S \cup {x})
<1>1. n \in Nat /\ m = IF x \in S THEN n ELSE n + 1
  BY FS_AddElement, FS_CardinalityType
<1> HIDE DEF n, m
<1>2. m \in Nat /\ m <= n + 1 /\ (x \notin S => m = n + 1)
  BY <1>1
<1>3. QED  BY <1>2 DEF n, m

LEMMA RemoveOne ==
  ASSUME NEW S, IsFiniteSet(S), NEW x
  PROVE  /\ Cardinality(S \ {x}) \in Nat
         /\ Cardinality(S \ {x}) <= Cardinality(S)
         /\ x \in S => /\ Cardinality(S \ {x}) = Cardinality(S) - 1
                       /\ Cardinality(S) > 0
<1> DEFINE n == Cardinality(S)
           m == Cardinality(S \ {x})
<1>1. n \in Nat /\ m \in Nat /\ m = IF x \in S THEN n - 1 ELSE n
  BY FS_RemoveElement, FS_CardinalityType
<1> HIDE DEF n, m
<1>2. m \in Nat /\ m <= n /\ (x \in S => m = n - 1 /\ n > 0)
  BY <1>1
<1>3. QED  BY <1>2 DEF n, m

LEMMA InitTypes == Init => Types
  BY DEF Init, Types, PCs, Sides, LinkStates, WaiterStates

\* What every step of a task is made of keeps the types.
LEMMA GotoTypes ==
  ASSUME Types, NEW c \in Clients, NEW at \in PCs, Goto(c, at)
  PROVE  /\ pc' \in [Clients -> PCs]
         /\ cancel' \in [Clients -> BOOLEAN]
  BY DEF Types, Goto

LEMMA CloseTypes ==
  ASSUME Types, NEW c \in Clients, NEW s \in Sides, NEW queued,
         Close(c, s, queued)
  PROVE  link' \in [Clients -> [Sides -> LinkStates]]
  BY DEF Types, Close, LinkStates

LEMMA LeaveHandlerTypes ==
  ASSUME Types, NEW c \in Clients, LeaveHandler(c),
         outcome' \in [Clients -> {"ok", "error", "cancelled"}]
  PROVE  Types'
<1>1. "leaving" \in PCs /\ "down" \in Sides
  BY DEF PCs, Handling, Sides
<1> QED  BY <1>1, GotoTypes, CloseTypes DEF LeaveHandler, Types, stopVars

LEMMA EndHandleTypes ==
  ASSUME Types, NEW c \in Clients, EndHandle(c),
         outcome' \in [Clients -> {"ok", "error", "cancelled"}]
  PROVE  Types'
<1>1. "closeSelf" \in PCs /\ "down" \in Sides
  BY DEF PCs, Handling, InHandler, Sides
<1> QED
  BY <1>1, GotoTypes, CloseTypes, LeaveHandlerTypes
     DEF EndHandle, Types, stopVars, taskVars

LEMMA CloseUpstreamTypes ==
  ASSUME Types, NEW c \in Clients, NEW at \in PCs, CloseUpstream(c, at),
         outcome' \in [Clients -> {"ok", "error", "cancelled"}]
  PROVE  Types'
<1>1. "up" \in Sides
  BY DEF Sides
<1> QED  BY <1>1, GotoTypes, CloseTypes DEF CloseUpstream, Types, stopVars, taskVars

LEMMA ContinueTypes ==
  ASSUME Types, NEW c \in Clients, NEW at \in PCs, Continue(c, at),
         outcome' \in [Clients -> {"ok", "error", "cancelled"}]
  PROVE  Types'
  BY GotoTypes DEF Continue, Types, stopVars, taskVars, connVars

LEMMA LeavesTypes ==
  ASSUME Types, NEW c \in Clients, NEW how \in {"ok", "error", "cancelled"},
         Leaves(c, how)
  PROVE  outcome' \in [Clients -> {"ok", "error", "cancelled"}]
  BY DEF Types, Leaves

LEMMA StepTypes == Types /\ [Next]_vars => Types'
<1> SUFFICES ASSUME Types, [Next]_vars PROVE Types'
  OBVIOUS
<1>0. ASSUME NEW c \in Clients, UNCHANGED outcome
      PROVE  outcome' \in [Clients -> {"ok", "error", "cancelled"}]
  BY <1>0 DEF Types
<1>1. ASSUME NEW c \in Clients, LoopStep(c) PROVE Types'
  <2> USE DEF PCs, Handling, InHandler, Sides
  <2>1. CASE ClientConnected(c)
    <3>1. /\ pc' \in [Clients -> PCs] /\ cancel' \in [Clients -> BOOLEAN]
          /\ link' \in [Clients -> [Sides -> LinkStates]]
      BY <2>1, GotoTypes, CloseTypes DEF ClientConnected, Types
    <3>2. QED  BY <2>1, <3>1 DEF ClientConnected, Types, taskVars, stopVars
  <2>2. CASE RejectedClosed(c)
    BY <2>2, <1>0, ContinueTypes DEF RejectedClosed
  <2>3. CASE Reaped(c)
    BY <2>3, <1>0, ContinueTypes DEF Reaped
  <2>4. CASE Collected(c)
    BY <2>4, <1>0, CloseUpstreamTypes DEF Collected
  <2>5. CASE UpClosed(c)
    <3>1. /\ pc' \in [Clients -> PCs] /\ cancel' \in [Clients -> BOOLEAN]
          /\ link' \in [Clients -> [Sides -> LinkStates]]
      BY <2>5, GotoTypes, CloseTypes DEF UpClosed
    <3>2. QED  BY <2>5, <3>1 DEF UpClosed, Types, taskVars, stopVars
  <2>6. CASE DownClosed(c)
    BY <2>6, <1>0, EndHandleTypes, CloseUpstreamTypes DEF DownClosed
  <2>7. CASE UpClosedAgain(c)
    BY <2>7, <1>0, LeaveHandlerTypes, ContinueTypes DEF UpClosedAgain
  <2>8. CASE SelfClosed(c)
    BY <2>8, <1>0, LeaveHandlerTypes DEF SelfClosed
  <2>9. CASE Cancelled(c)
    <3>1. outcome' \in [Clients -> {"ok", "error", "cancelled"}]
      BY <2>9, LeavesTypes DEF Cancelled
    <3>2. \/ EndHandle(c) \/ CloseUpstream(c, "closeAgain") \/ Continue(c, "collect")
      BY <2>9 DEF Cancelled, Closings
    <3>3. QED
      BY <3>1, <3>2, EndHandleTypes, CloseUpstreamTypes, ContinueTypes
  <2>10. CASE Left(c)
    <3>1. pc' \in [Clients -> PCs] /\ cancel' \in [Clients -> BOOLEAN]
      BY <2>10, GotoTypes DEF Left
    <3>2. QED  BY <2>10, <3>1 DEF Left, Types, connVars, stopVars
  <2>11. CASE \E s \in Sides : ConnectionLost(c, s)
    BY <2>11 DEF ConnectionLost, Lost, Types, LinkStates, WaiterStates, taskVars, stopVars
  <2>12. QED
    BY <1>1, <2>1, <2>2, <2>3, <2>4, <2>5, <2>6, <2>7, <2>8, <2>9, <2>10, <2>11
       DEF LoopStep
<1>2. ASSUME NEW c \in Clients, TimedStep(c) PROVE Types'
  <2> USE DEF PCs, Handling, InHandler, Sides
  <2>1. CASE HandshakeDone(c)   BY <2>1, <1>0, ContinueTypes DEF HandshakeDone
  <2>2. CASE UdpAssociated(c)   BY <2>2, <1>0, ContinueTypes DEF UdpAssociated
  <2>3. CASE HandshakeFails(c)
    BY <2>3, LeavesTypes, EndHandleTypes, ContinueTypes DEF HandshakeFails
  <2>4. CASE Connected(c)
    <3>1. pc' \in [Clients -> PCs] /\ cancel' \in [Clients -> BOOLEAN]
      BY <2>4, GotoTypes DEF Connected
    <3>2. QED  BY <2>4, <3>1 DEF Connected, Types, LinkStates, taskVars, stopVars
  <2>5. CASE ConnectFails(c)
    BY <2>5, LeavesTypes, EndHandleTypes, ContinueTypes DEF ConnectFails
  <2>6. QED  BY <1>2, <2>1, <2>2, <2>3, <2>4, <2>5 DEF TimedStep
<1>3. ASSUME NEW c \in Clients, PeerStep(c) PROVE Types'
  <2> USE DEF PCs, Handling, InHandler, Sides
  <2>1. CASE Accept(c)
    BY <2>1 DEF Accept, Types, LinkStates, taskVars, stopVars
  <2>2. CASE UdpEnds(c)      BY <2>2, LeavesTypes, EndHandleTypes DEF UdpEnds
  <2>3. CASE ReplySent(c)
    BY <2>3, <1>0, LeavesTypes, ContinueTypes, CloseUpstreamTypes DEF ReplySent
  <2>4. CASE RelayEnds(c)    BY <2>4, LeavesTypes, ContinueTypes DEF RelayEnds
  <2>5. CASE ForwardEnds(c)  BY <2>5, LeavesTypes, CloseUpstreamTypes DEF ForwardEnds
  <2>6. CASE Drained(c)      BY <2>6, <1>0, LeaveHandlerTypes DEF Drained
  <2>7. CASE \E s \in Sides : Flush(c, s)
    BY <2>7 DEF Flush, Types, LinkStates, taskVars, stopVars
  <2>8. CASE \E s \in Sides : NetworkError(c, s)
    BY <2>8, ProxyAssumption
       DEF NetworkError, Lost, Types, LinkStates, WaiterStates, taskVars, stopVars
  <2>9. QED
    BY <1>3, <2>1, <2>2, <2>3, <2>4, <2>5, <2>6, <2>7, <2>8 DEF PeerStep
<1>4. ASSUME NEW S, CancelTasks(S)
      PROVE  /\ cancel' \in [Clients -> BOOLEAN]
             /\ waiter' \in [Clients -> [Sides -> WaiterStates]]
  BY <1>4 DEF CancelTasks, Types, WaiterStates
<1>5. CASE Start        BY <1>5 DEF Start, Types, taskVars, connVars, stopVars
<1>6. CASE Stop         BY <1>6, <1>4 DEF Stop, Types, taskVars
<1>7. CASE StopTimeout  BY <1>7, <1>4 DEF StopTimeout, Types, taskVars
<1>8. CASE StopReturns  BY <1>8 DEF StopReturns, Types, taskVars, connVars
<1>9. CASE UNCHANGED vars  BY <1>9 DEF vars, Types
<1>10. QED
  BY <1>1, <1>2, <1>3, <1>5, <1>6, <1>7, <1>8, <1>9 DEF Next, ServerStep

(***************************************************************************)
(* What a step does to the slots, the count and the tasks' positions: the  *)
(* only things the admission properties depend on.                         *)
(***************************************************************************)
Moves(c, at) == pc' = [pc EXCEPT ![c] = at]

SlotShape(c) ==
    \/ UNCHANGED <<pc, tasks, connections>>
    \/ /\ pc[c] \notin Handling
       /\ \E at \in PCs \ Handling : Moves(c, at)
       /\ UNCHANGED taskVars
    \/ /\ pc[c] = "ready" /\ Cardinality(tasks) < MaxClients
       /\ Moves(c, "handshake")
       /\ tasks' = tasks \cup {c}
       /\ connections' = connections + 1
    \/ /\ pc[c] \in InHandler
       /\ \E at \in InHandler : Moves(c, at)
       /\ UNCHANGED taskVars
    \/ /\ pc[c] \in InHandler
       /\ Moves(c, "leaving")
       /\ connections' = IF connections > 0 THEN connections - 1 ELSE 0
       /\ UNCHANGED tasks
    \/ /\ pc[c] = "leaving"
       /\ Moves(c, "done")
       /\ tasks' = tasks \ {c} \/ (waiter[c].down = "os" /\ UNCHANGED tasks)
       /\ UNCHANGED connections

LEMMA StepShape ==
  ASSUME Types, [Next]_vars
  PROVE  UNCHANGED <<pc, tasks, connections>> \/ \E c \in Clients : SlotShape(c)
<1> USE DEF Moves, SlotShape, PCs, Handling, InHandler, taskVars
<1>0. MaxClients \in Nat
  BY ProxyAssumption
<1>1. ASSUME NEW c \in Clients, pc[c] \in InHandler, LeaveHandler(c)
      PROVE  SlotShape(c)
  BY <1>1 DEF LeaveHandler, Goto
<1>2. ASSUME NEW c \in Clients, pc[c] \in InHandler, EndHandle(c)
      PROVE  SlotShape(c)
  BY <1>1, <1>2 DEF EndHandle, Goto
<1>3. ASSUME NEW c \in Clients, pc[c] \in InHandler, NEW at \in InHandler,
             CloseUpstream(c, at) \/ Continue(c, at)
      PROVE  SlotShape(c)
  BY <1>3 DEF CloseUpstream, Continue, Goto
<1>4. ASSUME NEW c \in Clients, LoopStep(c) PROVE SlotShape(c)
  <2>1. CASE ClientConnected(c)
    <3>1. Cardinality(tasks) \in Nat
      BY ProxyAssumption, FS_Subset, FS_CardinalityType DEF Types
    <3>2. CASE Cardinality(tasks) >= MaxClients
      BY <2>1, <3>2 DEF ClientConnected, Goto
    <3>3. CASE ~(Cardinality(tasks) >= MaxClients)
      <4>1. Cardinality(tasks) < MaxClients
        BY <3>1, <3>3, <1>0, SMT
      <4>2. QED  BY <2>1, <3>3, <4>1 DEF ClientConnected, Goto
    <3>4. QED  BY <3>2, <3>3
  <2>2. CASE RejectedClosed(c)  BY <2>2 DEF RejectedClosed, Continue, Goto
  <2>3. CASE Reaped(c)          BY <2>3, <1>3 DEF Reaped
  <2>4. CASE Collected(c)       BY <2>4, <1>3 DEF Collected
  <2>5. CASE UpClosed(c)        BY <2>5 DEF UpClosed, Goto
  <2>6. CASE DownClosed(c)      BY <2>6, <1>2, <1>3 DEF DownClosed
  <2>7. CASE UpClosedAgain(c)   BY <2>7, <1>1, <1>3 DEF UpClosedAgain
  <2>8. CASE SelfClosed(c)      BY <2>8, <1>1 DEF SelfClosed
  <2>9. CASE Cancelled(c)
    <3>1. /\ pc[c] \in InHandler
          /\ EndHandle(c) \/ CloseUpstream(c, "closeAgain") \/ Continue(c, "collect")
      BY <2>9 DEF Cancelled, Closings
    <3>2. QED  BY <3>1, <1>2, <1>3
  <2>10. CASE Left(c)           BY <2>10 DEF Left, Goto
  <2>11. CASE \E s \in Sides : ConnectionLost(c, s)
    BY <2>11 DEF ConnectionLost, Lost
  <2>12. QED
    BY <1>4, <2>1, <2>2, <2>3, <2>4, <2>5, <2>6, <2>7, <2>8, <2>9, <2>10, <2>11
       DEF LoopStep
<1>5. ASSUME NEW c \in Clients, TimedStep(c) PROVE SlotShape(c)
  <2>1. CASE HandshakeDone(c)   BY <2>1, <1>3 DEF HandshakeDone
  <2>2. CASE UdpAssociated(c)   BY <2>2, <1>3 DEF UdpAssociated
  <2>3. CASE HandshakeFails(c)  BY <2>3, <1>2, <1>3 DEF HandshakeFails
  <2>4. CASE Connected(c)       BY <2>4 DEF Connected, Goto
  <2>5. CASE ConnectFails(c)    BY <2>5, <1>2, <1>3 DEF ConnectFails
  <2>6. QED  BY <1>5, <2>1, <2>2, <2>3, <2>4, <2>5 DEF TimedStep
<1>6. ASSUME NEW c \in Clients, PeerStep(c) PROVE SlotShape(c)
  <2>1. CASE Accept(c)       BY <2>1 DEF Accept
  <2>2. CASE UdpEnds(c)      BY <2>2, <1>2 DEF UdpEnds
  <2>3. CASE ReplySent(c)    BY <2>3, <1>3 DEF ReplySent
  <2>4. CASE RelayEnds(c)    BY <2>4, <1>3 DEF RelayEnds
  <2>5. CASE ForwardEnds(c)  BY <2>5, <1>3 DEF ForwardEnds
  <2>6. CASE Drained(c)      BY <2>6, <1>1 DEF Drained
  <2>7. CASE \E s \in Sides : Flush(c, s)         BY <2>7 DEF Flush
  <2>8. CASE \E s \in Sides : NetworkError(c, s)  BY <2>8 DEF NetworkError, Lost
  <2>9. QED
    BY <1>6, <2>1, <2>2, <2>3, <2>4, <2>5, <2>6, <2>7, <2>8 DEF PeerStep
<1>7. CASE Start \/ Stop \/ ServerStep
  BY <1>7 DEF Start, Stop, ServerStep, StopTimeout, StopReturns
<1>8. CASE UNCHANGED vars
  BY <1>8 DEF vars
<1>9. QED
  BY <1>4, <1>5, <1>6, <1>7, <1>8 DEF Next

-----------------------------------------------------------------------------
(* Slots, limit and count *)

InHandle == {c \in Clients : pc[c] \in InHandler}

SlotInv ==
    /\ Handlers \subseteq tasks
    /\ Cardinality(tasks) <= MaxClients
    /\ connections = Cardinality(InHandle)

AdmissionInv == Types /\ SlotInv

LEMMA InitAdmission == Init => AdmissionInv
<1> SUFFICES ASSUME Init PROVE AdmissionInv
  OBVIOUS
<1>1. InHandle = {} /\ Handlers = {} /\ tasks = {}
  BY DEF Init, InHandle, Handlers, InHandler, Handling
<1>2. MaxClients \in Nat
  BY ProxyAssumption
<1>3. QED
  BY <1>1, <1>2, InitTypes, FS_EmptySet DEF AdmissionInv, SlotInv, Init

LEMMA StepAdmission == AdmissionInv /\ [Next]_vars => AdmissionInv'
<1> SUFFICES ASSUME AdmissionInv, [Next]_vars PROVE AdmissionInv'
  OBVIOUS
<1>1. Types /\ Types' /\ SlotInv
  BY StepTypes DEF AdmissionInv
<1>2. /\ IsFiniteSet(tasks) /\ Cardinality(tasks) \in Nat
      /\ IsFiniteSet(InHandle) /\ Cardinality(InHandle) \in Nat
      /\ MaxClients \in Nat
  BY <1>1, ProxyAssumption, FS_Subset, FS_CardinalityType DEF Types, InHandle
<1>3. CASE UNCHANGED <<pc, tasks, connections>>
  BY <1>1, <1>3 DEF AdmissionInv, SlotInv, Handlers, InHandle
<1>4. ASSUME NEW c \in Clients, SlotShape(c) PROVE SlotInv'
  <2> USE <1>1, <1>2 DEF Types, SlotInv, Handlers, InHandle, Moves, taskVars,
                         Handling, PCs
  <2>1. CASE /\ pc[c] \notin Handling
             /\ \E at \in PCs \ Handling : Moves(c, at)
             /\ UNCHANGED taskVars
    <3>1. InHandle' = InHandle /\ Handlers' = Handlers
      BY <2>1
    <3>2. QED  BY <2>1, <3>1
  <2>2. CASE /\ pc[c] = "ready" /\ Cardinality(tasks) < MaxClients
             /\ Moves(c, "handshake")
             /\ tasks' = tasks \cup {c}
             /\ connections' = connections + 1
    <3>1. /\ InHandle' = InHandle \cup {c} /\ c \notin InHandle
          /\ Handlers' = Handlers \cup {c}
      BY <2>2 DEF InHandler
    <3>2. Cardinality(InHandle') = Cardinality(InHandle) + 1
      BY <3>1, AddOne
    <3>3. Cardinality(tasks') <= MaxClients
      <4>1. /\ Cardinality(tasks') \in Nat
            /\ Cardinality(tasks') <= Cardinality(tasks) + 1
        BY <2>2, AddOne
      <4>2. QED  BY <2>2, <4>1, SMT
    <3>4. QED  BY <2>2, <3>1, <3>2, <3>3
  <2>3. CASE /\ pc[c] \in InHandler
             /\ \E at \in InHandler : Moves(c, at)
             /\ UNCHANGED taskVars
    <3>1. InHandle' = InHandle /\ Handlers' = Handlers
      BY <2>3
    <3>2. QED  BY <2>3, <3>1
  <2>4. CASE /\ pc[c] \in InHandler
             /\ Moves(c, "leaving")
             /\ connections' = IF connections > 0 THEN connections - 1 ELSE 0
             /\ UNCHANGED tasks
    <3>1. InHandle' = InHandle \ {c} /\ c \in InHandle /\ Handlers' = Handlers
      BY <2>4 DEF InHandler
    <3>2. /\ Cardinality(InHandle') = Cardinality(InHandle) - 1
          /\ Cardinality(InHandle) > 0
      BY <3>1, RemoveOne
    <3>3. QED  BY <2>4, <3>1, <3>2
  <2>5. CASE /\ pc[c] = "leaving"
             /\ Moves(c, "done")
             /\ tasks' = tasks \ {c} \/ (waiter[c].down = "os" /\ UNCHANGED tasks)
             /\ UNCHANGED connections
    <3>1. InHandle' = InHandle /\ Handlers' = Handlers \ {c}
      BY <2>5 DEF InHandler
    <3>2. Cardinality(tasks') <= MaxClients
      <4>1. CASE tasks' = tasks
        BY <4>1
      <4>2. CASE tasks' = tasks \ {c}
        <5>1. /\ Cardinality(tasks') \in Nat
              /\ Cardinality(tasks') <= Cardinality(tasks)
          BY <4>2, RemoveOne
        <5>2. QED  BY <5>1, SMT
      <4>3. QED  BY <2>5, <4>1, <4>2
    <3>3. Handlers' \subseteq tasks'
      BY <2>5, <3>1
    <3>4. QED  BY <2>5, <3>1, <3>2, <3>3
  <2>6. CASE UNCHANGED <<pc, tasks, connections>>
    BY <2>6
  <2>7. QED
    BY <1>4, <2>1, <2>2, <2>3, <2>4, <2>5, <2>6 DEF SlotShape
<1>5. QED
  BY <1>1, <1>3, <1>4, StepShape DEF AdmissionInv

LEMMA Admission == Spec => []AdmissionInv
  BY InitAdmission, StepAdmission, PTL DEF Spec

LEMMA AdmissionBounds ==
  ASSUME AdmissionInv
  PROVE  /\ TypeOK
         /\ LimitRespected
         /\ CountMatchesHandlers
<1>1. /\ IsFiniteSet(tasks) /\ Cardinality(tasks) \in Nat
      /\ Cardinality(tasks) <= MaxClients /\ MaxClients \in Nat
  BY ProxyAssumption, FS_Subset, FS_CardinalityType DEF AdmissionInv, Types, SlotInv
<1>2. /\ Cardinality(Handlers) \in Nat
      /\ Cardinality(Handlers) <= Cardinality(tasks)
  BY <1>1, FS_Subset, FS_CardinalityType DEF AdmissionInv, SlotInv
<1>3. LimitRespected
  BY <1>1, <1>2, SMT DEF LimitRespected
<1>4. IsFiniteSet(tasks) /\ InHandle \subseteq tasks
  BY <1>1 DEF AdmissionInv, SlotInv, Handlers, InHandle, Handling
<1>5. /\ Cardinality(InHandle) \in Nat
      /\ Cardinality(InHandle) <= Cardinality(tasks)
  BY <1>4, FS_Subset, FS_CardinalityType
<1>6. connections \in 0..MaxClients
  BY <1>1, <1>5, SMT DEF AdmissionInv, SlotInv
<1>7. TypeOK
  BY <1>6 DEF TypeOK, AdmissionInv, Types
<1>8. CountMatchesHandlers
  BY DEF CountMatchesHandlers, AdmissionInv, SlotInv, InHandle
<1>9. QED  BY <1>3, <1>7, <1>8

\* Every variable keeps its type; the shown connection count never exceeds
\* max_client_connections.
THEOREM ProxyTypeCorrect == Spec => []TypeOK
  BY Admission, AdmissionBounds, PTL

\* At most max_client_connections handlers are at work at any time.
THEOREM LimitHolds == Spec => []LimitRespected
  BY Admission, AdmissionBounds, PTL

\* The connection count is the number of clients inside handle().
THEOREM CountHolds == Spec => []CountMatchesHandlers
  BY Admission, AdmissionBounds, PTL

-----------------------------------------------------------------------------
(***************************************************************************)
(* Slots are given back, when connections fail with a ConnectionError only *)
(***************************************************************************)
ReleaseInv ==
    /\ AdmissionInv
    /\ \A c \in Clients, s \in Sides : waiter[c][s] # "os"
    /\ tasks \subseteq Handlers

LEMMA StepWaiter ==
  ASSUME Types, "os" \notin Errors, [Next]_vars,
         \A c \in Clients, s \in Sides : waiter[c][s] # "os"
  PROVE  \A c \in Clients, s \in Sides : waiter'[c][s] # "os"
<1> USE DEF Types
<1>1. ASSUME NEW c \in Clients, NEW s \in Sides,
             ConnectionLost(c, s) \/ NetworkError(c, s)
      PROVE  \A d \in Clients, t \in Sides : waiter'[d][t] # "os"
  <2>1. PICK how \in {"ok"} \cup Errors : Lost(c, s, how)
    BY <1>1 DEF ConnectionLost, NetworkError
  <2>2. how # "os"
    BY <2>1
  <2>3. TAKE d \in Clients, t \in Sides
  <2>4. waiter'[d][t] \in {waiter[d][t], how}
    BY <2>1 DEF Lost
  <2>5. QED  BY <2>2, <2>4
<1>2. ASSUME NEW S, CancelTasks(S)
      PROVE  \A d \in Clients, t \in Sides : waiter'[d][t] # "os"
  BY <1>2 DEF CancelTasks
<1>3. ASSUME NEW c \in Clients,
             LeaveHandler(c) \/ EndHandle(c)
             \/ (\E at \in PCs : CloseUpstream(c, at) \/ Continue(c, at))
      PROVE  UNCHANGED waiter
  BY <1>3 DEF LeaveHandler, EndHandle, CloseUpstream, Continue, connVars
<1>4. ASSUME NEW c \in Clients, LoopStep(c) \/ TimedStep(c) \/ PeerStep(c)
      PROVE  \/ UNCHANGED waiter
             \/ \E s \in Sides : ConnectionLost(c, s) \/ NetworkError(c, s)
  <2> USE DEF PCs, Handling, InHandler
  <2>1. CASE LoopStep(c)
    <3>1. CASE Cancelled(c)
      BY <3>1, <1>3 DEF Cancelled, Closings
    <3>2. CASE LoopStep(c) /\ ~Cancelled(c)
      BY <3>2, <1>3 DEF LoopStep, ClientConnected, RejectedClosed, Reaped,
         Collected, UpClosed, DownClosed, UpClosedAgain, SelfClosed, Left, connVars
    <3>3. QED  BY <2>1, <3>1, <3>2
  <2>2. CASE TimedStep(c)
    BY <2>2, <1>3 DEF TimedStep, HandshakeDone, UdpAssociated, HandshakeFails,
       Connected, ConnectFails
  <2>3. CASE PeerStep(c)
    BY <2>3, <1>3 DEF PeerStep, Accept, UdpEnds, ReplySent, RelayEnds,
       ForwardEnds, Drained, Flush
  <2>4. QED  BY <1>4, <2>1, <2>2, <2>3
<1>5. QED
  BY <1>1, <1>2, <1>4
     DEF Next, Start, Stop, ServerStep, StopTimeout, StopReturns, connVars, vars

LEMMA InitRelease == Init => ReleaseInv
<1> SUFFICES ASSUME Init PROVE ReleaseInv
  OBVIOUS
<1>1. QED  BY InitAdmission DEF ReleaseInv, Init

LEMMA StepRelease ==
  ASSUME "os" \notin Errors
  PROVE  ReleaseInv /\ [Next]_vars => ReleaseInv'
<1> SUFFICES ASSUME ReleaseInv, [Next]_vars PROVE ReleaseInv'
  OBVIOUS
<1>1. AdmissionInv' /\ \A c \in Clients, s \in Sides : waiter'[c][s] # "os"
  BY StepAdmission, StepWaiter DEF ReleaseInv, AdmissionInv
<1>2. Types /\ "down" \in Sides /\ tasks \subseteq Handlers
  BY DEF ReleaseInv, AdmissionInv, Sides
<1>3. CASE UNCHANGED <<pc, tasks, connections>>
  BY <1>1, <1>2, <1>3 DEF ReleaseInv, Handlers
<1>4. ASSUME NEW c \in Clients, SlotShape(c) PROVE tasks' \subseteq Handlers'
  BY <1>2, <1>4 DEF ReleaseInv, SlotShape, Moves, Types, Handlers, taskVars,
     Handling, InHandler, PCs
<1>5. QED
  BY <1>1, <1>2, <1>3, <1>4, StepShape DEF ReleaseInv

\* While clients' connections fail with a ConnectionError only, a slot of
\* _client_tasks never outlives its handler.
THEOREM SlotsReleased ==
  ASSUME "os" \notin Errors
  PROVE  Spec => []FinishedClientsHoldNoSlot
<1>1. ReleaseInv => FinishedClientsHoldNoSlot
  BY DEF ReleaseInv, FinishedClientsHoldNoSlot
<1>2. ReleaseInv /\ [Next]_vars => ReleaseInv'
  BY StepRelease
<1>3. QED  BY <1>1, <1>2, InitRelease, PTL DEF Spec

\* Then the slots, the limit and the count agree on the handlers at work.
THEOREM SlotsAreSound ==
  ASSUME "os" \notin Errors
  PROVE  Spec => []SlotsSound
<1>1. FinishedClientsHoldNoSlot /\ LimitRespected /\ CountMatchesHandlers => SlotsSound
  BY DEF SlotsSound
<1>2. QED  BY <1>1, SlotsReleased, LimitHolds, CountHolds, PTL

\* ... and a client is rejected only while that many others are being served.
THEOREM RejectionsJustified ==
  ASSUME "os" \notin Errors
  PROVE  Spec => RejectedOnlyWhenFull
<1> DEFINE Justified ==
      \A c \in Clients : pc[c] = "ready" /\ pc'[c] = "rejecting"
                         => Cardinality(Handlers) = MaxClients
<1>1. ReleaseInv /\ [Next]_vars => Justified
  <2> SUFFICES ASSUME ReleaseInv, [Next]_vars, NEW c \in Clients,
                      pc[c] = "ready", pc'[c] = "rejecting"
               PROVE  Cardinality(Handlers) = MaxClients
    OBVIOUS
  <2>1. Types /\ tasks = Handlers /\ Cardinality(tasks) <= MaxClients
    BY DEF ReleaseInv, AdmissionInv, SlotInv
  <2>2. Cardinality(tasks) >= MaxClients
    <3> USE <2>1 DEF Types, PCs, Handling, InHandler
    <3>1. ASSUME NEW d \in Clients, NEW at, Goto(d, at), at # "rejecting"
          PROVE  FALSE
      BY <3>1 DEF Goto
    <3>2. ASSUME NEW d \in Clients,
                 LeaveHandler(d) \/ EndHandle(d) \/ CloseUpstream(d, "closeAgain")
                 \/ CloseUpstream(d, "closeUp")
                 \/ \E at \in {"connecting", "udp", "drain", "relay", "reap",
                               "collect", "done"} : Continue(d, at)
          PROVE  FALSE
      BY <3>1, <3>2 DEF LeaveHandler, EndHandle, CloseUpstream, Continue
    <3>3. ASSUME NEW d \in Clients, LoopStep(d) PROVE Cardinality(tasks) >= MaxClients
      <4>1. CASE ClientConnected(d)
        BY <3>1, <4>1 DEF ClientConnected
      <4>2. CASE Cancelled(d)
        BY <3>2, <4>2 DEF Cancelled, Closings
      <4>3. CASE LoopStep(d) /\ ~ClientConnected(d) /\ ~Cancelled(d)
        BY <3>1, <3>2, <4>3 DEF LoopStep, RejectedClosed, Reaped, Collected,
           UpClosed, DownClosed, UpClosedAgain, SelfClosed, Left, ConnectionLost, Lost
      <4>4. QED  BY <3>3, <4>1, <4>2, <4>3
    <3>4. ASSUME NEW d \in Clients, TimedStep(d) PROVE FALSE
      BY <3>1, <3>2, <3>4 DEF TimedStep, HandshakeDone, UdpAssociated,
         HandshakeFails, Connected, ConnectFails
    <3>5. ASSUME NEW d \in Clients, PeerStep(d) PROVE FALSE
      BY <3>2, <3>5 DEF PeerStep, Accept, UdpEnds, ReplySent, RelayEnds,
         ForwardEnds, Drained, Flush, NetworkError, Lost
    <3>6. QED
      BY <3>3, <3>4, <3>5
         DEF Next, Start, Stop, ServerStep, StopTimeout, StopReturns, vars
  <2>3. Cardinality(tasks) \in Nat /\ MaxClients \in Nat
    BY <2>1, ProxyAssumption, FS_Subset, FS_CardinalityType DEF Types
  <2>4. QED  BY <2>1, <2>2, <2>3, SMT
<1>2. ReleaseInv /\ [Next]_vars => ReleaseInv'
  BY StepRelease
<1>3. Init => ReleaseInv
  BY InitRelease
<1>4. Spec => [][Justified]_vars
  BY <1>1, <1>2, <1>3, PTL DEF Spec
<1>5. QED  BY <1>4 DEF RejectedOnlyWhenFull

-----------------------------------------------------------------------------
(***************************************************************************)
(* The HTTP handler closes both connections, wherever it is cancelled: an  *)
(* open upstream belongs to a task in one of the awaits that a finally     *)
(* clause guards, an open client connection to a task that is not leaving. *)
(***************************************************************************)
Guarded == {"reply", "forward", "relay", "reap", "collect"}
Over == {"none", "rejecting", "leaving", "done"}

EndsInv ==
    /\ Types
    /\ \A c \in Clients : /\ link[c].up = "open" => pc[c] \in Guarded
                          /\ link[c].down = "open" => pc[c] \notin Over

LEMMA InitEnds == Init => EndsInv
<1> SUFFICES ASSUME Init PROVE EndsInv
  OBVIOUS
<1>1. QED  BY InitTypes DEF EndsInv, Init, Sides

\* writer.close() leaves the writer closed and touches no other.
LEMMA CloseEffect ==
  ASSUME Types, NEW c \in Clients, NEW s \in Sides, NEW queued,
         Close(c, s, queued)
  PROVE  /\ link'[c][s] # "open"
         /\ \A d \in Clients, t \in Sides :
               link'[d][t] = "open" => link[d][t] = "open"
  BY DEF Types, Close, Sides

LEMMA StepEnds ==
  ASSUME Handler = "http"
  PROVE  EndsInv /\ [Next]_vars => EndsInv'
<1> SUFFICES ASSUME EndsInv, [Next]_vars PROVE EndsInv'
  OBVIOUS
<1> USE DEF Guarded, Over
<1>0. Types /\ Types' /\ "up" \in Sides /\ "down" \in Sides
  BY StepTypes DEF EndsInv, Sides
<1>1. ASSUME NEW c \in Clients, LeaveHandler(c), pc[c] \notin Guarded PROVE EndsInv'
  BY <1>0, <1>1, CloseEffect DEF LeaveHandler, EndsInv, Goto, Types
<1>2. ASSUME NEW c \in Clients, EndHandle(c), pc[c] \notin Guarded PROVE EndsInv'
  BY <1>1, <1>2 DEF EndHandle
<1>3. ASSUME NEW c \in Clients, NEW at \in {"closeUp", "closeAgain"},
             CloseUpstream(c, at), pc[c] \notin Over
      PROVE  EndsInv'
  BY <1>0, <1>3, CloseEffect DEF CloseUpstream, EndsInv, Goto, Types
<1>4. ASSUME NEW c \in Clients, NEW at, Continue(c, at), at \notin Over,
             pc[c] \notin Over, pc[c] \in Guarded => at \in Guarded
      PROVE  EndsInv'
  BY <1>0, <1>4 DEF Continue, EndsInv, Goto, Types, connVars
<1>5. ASSUME NEW c \in Clients, LoopStep(c) PROVE EndsInv'
  <2>1. CASE ClientConnected(c)
    <3>1. CASE Goto(c, "rejecting") /\ Close(c, "down", FALSE)
      <4>1. /\ link'[c].down # "open"
            /\ \A d \in Clients, t \in Sides :
                  link'[d][t] = "open" => link[d][t] = "open"
        BY <1>0, <3>1, CloseEffect
      <4>2. pc' = [pc EXCEPT ![c] = "rejecting"]  BY <3>1 DEF Goto
      <4>3. pc[c] = "ready"  BY <2>1 DEF ClientConnected
      <4>4. QED  BY <1>0, <4>1, <4>2, <4>3 DEF EndsInv, Types
    <3>2. CASE Goto(c, "handshake") /\ UNCHANGED link
      <4>1. pc[c] = "ready"  BY <2>1 DEF ClientConnected
      <4>2. QED  BY <1>0, <3>2, <4>1 DEF Goto, EndsInv, Types
    <3>3. QED  BY <2>1, <3>1, <3>2 DEF ClientConnected
  <2>2. CASE RejectedClosed(c)
    BY <1>0, <2>2 DEF RejectedClosed, Continue, EndsInv, Goto, Types, connVars
  <2>3. CASE Reaped(c)         BY <2>3, <1>4 DEF Reaped
  <2>4. CASE Collected(c)      BY <2>4, <1>3 DEF Collected
  <2>5. CASE UpClosed(c)
    BY <1>0, <2>5, CloseEffect DEF UpClosed, EndsInv, Goto, Types
  <2>6. CASE DownClosed(c)     BY <2>6, <1>3 DEF DownClosed
  <2>7. CASE UpClosedAgain(c)  BY <2>7, <1>1, <1>4 DEF UpClosedAgain
  <2>8. CASE SelfClosed(c)     BY <2>8, <1>1 DEF SelfClosed
  <2>9. CASE Cancelled(c)
    <3>1. CASE pc[c] \in {"handshake", "connecting", "udp", "drain"}
      BY <2>9, <3>1, <1>2 DEF Cancelled
    <3>2. CASE pc[c] \in {"reply", "forward", "collect"}
      BY <2>9, <3>2, <1>3 DEF Cancelled
    <3>3. CASE pc[c] \in {"relay", "reap"}
      BY <2>9, <3>3, <1>4 DEF Cancelled
    <3>4. QED  BY <2>9, <3>1, <3>2, <3>3 DEF Cancelled, InHandler, Closings
  <2>10. CASE Left(c)
    BY <1>0, <2>10 DEF Left, EndsInv, Goto, Types, connVars
  <2>11. CASE \E s \in Sides : ConnectionLost(c, s)
    BY <1>0, <2>11 DEF ConnectionLost, Lost, EndsInv, Types
  <2>12. QED
    BY <1>5, <2>1, <2>2, <2>3, <2>4, <2>5, <2>6, <2>7, <2>8, <2>9, <2>10, <2>11
       DEF LoopStep
<1>6. ASSUME NEW c \in Clients, TimedStep(c) PROVE EndsInv'
  <2>1. CASE HandshakeDone(c)   BY <2>1, <1>4 DEF HandshakeDone
  <2>2. CASE UdpAssociated(c)   BY <2>2 DEF UdpAssociated
  <2>3. CASE HandshakeFails(c)  BY <2>3, <1>2, <1>4 DEF HandshakeFails
  <2>4. CASE Connected(c)
    <3>1. PICK at \in {"relay", "reply", "forward"} : Goto(c, at)
      BY <2>4 DEF Connected
    <3>2. /\ link' = [link EXCEPT ![c].up = "open"] /\ pc[c] = "connecting"
          /\ pc' = [pc EXCEPT ![c] = at] /\ at \in Guarded /\ at \notin Over
      BY <2>4, <3>1 DEF Connected, Goto
    <3>3. ASSUME NEW d \in Clients, d # c PROVE link'[d] = link[d] /\ pc'[d] = pc[d]
      BY <1>0, <3>2, <3>3 DEF Types
    <3>4. pc'[c] = at
      BY <1>0, <3>2 DEF Types
    <3>5. QED  BY <1>0, <3>2, <3>3, <3>4 DEF EndsInv
  <2>5. CASE ConnectFails(c)    BY <2>5, <1>4 DEF ConnectFails
  <2>6. QED  BY <1>6, <2>1, <2>2, <2>3, <2>4, <2>5 DEF TimedStep
<1>7. ASSUME NEW c \in Clients, PeerStep(c) PROVE EndsInv'
  <2>1. CASE Accept(c)       BY <1>0, <2>1 DEF Accept, EndsInv, Types
  <2>2. CASE UdpEnds(c)      BY <2>2, <1>2 DEF UdpEnds
  <2>3. CASE ReplySent(c)    BY <2>3, <1>3, <1>4 DEF ReplySent
  <2>4. CASE RelayEnds(c)    BY <2>4, <1>4 DEF RelayEnds
  <2>5. CASE ForwardEnds(c)  BY <2>5, <1>3 DEF ForwardEnds
  <2>6. CASE Drained(c)      BY <2>6, <1>1 DEF Drained
  <2>7. CASE \E s \in Sides : Flush(c, s)
    BY <1>0, <2>7 DEF Flush, EndsInv, Types
  <2>8. CASE \E s \in Sides : NetworkError(c, s)
    BY <1>0, <2>8 DEF NetworkError, Lost, EndsInv, Types
  <2>9. QED
    BY <1>7, <2>1, <2>2, <2>3, <2>4, <2>5, <2>6, <2>7, <2>8 DEF PeerStep
<1>8. CASE Start \/ Stop \/ ServerStep \/ UNCHANGED vars
  BY <1>0, <1>8
     DEF EndsInv, Start, Stop, ServerStep, StopTimeout, StopReturns, connVars, vars
<1>9. QED
  BY <1>5, <1>6, <1>7, <1>8 DEF Next

\* A task of the HTTP handler that has ended has closed both its connections.
THEOREM HttpClosesBothEnds ==
  ASSUME Handler = "http"
  PROVE  Spec => []BothEndsClosed
<1>1. EndsInv => BothEndsClosed
  BY DEF EndsInv, BothEndsClosed, Guarded, Over, Sides
<1>2. EndsInv /\ [Next]_vars => EndsInv'
  BY StepEnds
<1>3. QED  BY <1>1, <1>2, InitEnds, PTL DEF Spec
=============================================================================
