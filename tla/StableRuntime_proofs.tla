------------------------ MODULE StableRuntime_proofs ------------------------
(***************************************************************************)
(* Machine-checked proofs about StableRuntime: RuntimeInv is inductive, so *)
(* the manager never has two live runtimes and never forgets a listening   *)
(* socket, for any number of controllers, selectors, selections, sessions  *)
(* and restarts; the module implements RuntimeLease; a changed selection   *)
(* is not lost, the delay fits the failures, and what start() and stop()   *)
(* return is true.                                                         *)
(***************************************************************************)
EXTENDS StableRuntime, WellFoundedInduction, TLAPS

\* The smaller of two naturals is a natural.
LEMMA MinOfTwo ==
    ASSUME NEW a \in Nat, NEW b \in Nat
    PROVE  Min({a, b}) \in Nat
<1>1. \E x \in {a, b} : \A y \in {a, b} : x <= y
  BY SMT
<1>2. QED
  BY <1>1 DEF Min

USE DEF None

(***************************************************************************)
(* What a step of a runtime thread may do to the shared state: it moves    *)
(* its own program counter, from and to a point of a launched thread.      *)
(***************************************************************************)
LEMMA SessionStepShape ==
    ASSUME TypeOK, NEW s \in Sessions, SessionStep(s)
    PROVE  /\ Alive(s)
           /\ \E p \in SessionPoints \ {"none"} : pc' = [pc EXCEPT ![s] = p]
           /\ UNCHANGED <<thread, selection, lock, audio, nsess, flaky, callVars>>
<1> USE DEF Alive, TypeOK, SessionTypeOK, SessionPoints, LoopPoints, BuildPoints, TaskPoints,
            ClosePoints, GoSession, sesVars, mgrVars
<1>1. ASSUME Supervise(s) PROVE
        /\ pc[s] \notin {"none", "dead"}
        /\ \E p \in SessionPoints \ {"none"} : pc' = [pc EXCEPT ![s] = p]
        /\ UNCHANGED <<thread, selection, lock, audio, nsess, flaky, callVars>>
  <2>1. CASE ThreadBoot(s)         BY <2>1 DEF ThreadBoot
  <2>2. CASE InstallEvents(s)      BY <2>2 DEF InstallEvents
  <2>3. CASE ReadLatch(s)          BY <2>3 DEF ReadLatch
  <2>4. CASE LoopTop(s)            BY <2>4 DEF LoopTop
  <2>5. CASE HandleStartFailure(s) BY <2>5 DEF HandleStartFailure
  <2>6. CASE Decide(s)             BY <2>6 DEF Decide
  <2>7. CASE EndBackoff(s)         BY <2>7 DEF EndBackoff
  <2>8. CASE EndPause(s)           BY <2>8 DEF EndPause
  <2>9. CASE SuperviseExit(s)      BY <2>9 DEF SuperviseExit
  <2>10. CASE ThreadExit(s)        BY <2>10 DEF ThreadExit
  <2>11. QED
    BY <1>1, <2>1, <2>2, <2>3, <2>4, <2>5, <2>6, <2>7, <2>8, <2>9, <2>10
       DEF Supervise
<1>2. ASSUME StartGeneration(s) PROVE
        /\ pc[s] \notin {"none", "dead"}
        /\ \E p \in SessionPoints \ {"none"} : pc' = [pc EXCEPT ![s] = p]
        /\ UNCHANGED <<thread, selection, lock, audio, nsess, flaky, callVars>>
  <2>1. CASE RefreshInterfaces(s)  BY <2>1 DEF RefreshInterfaces
  <2>2. CASE SelectOutbound(s)     BY <2>2 DEF SelectOutbound
  <2>3. CASE BindSOCKS(s)          BY <2>3 DEF BindSOCKS, BindPort
  <2>4. CASE BindHTTP(s)           BY <2>4 DEF BindHTTP, BindPort
  <2>5. CASE BindWPAD(s)           BY <2>5 DEF BindWPAD, BindPort
  <2>6. CASE VerifyListeners(s)    BY <2>6 DEF VerifyListeners
  <2>7. QED
    BY <1>2, <2>1, <2>2, <2>3, <2>4, <2>5, <2>6 DEF StartGeneration
<1>3. ASSUME WaitForChange(s) PROVE
        /\ pc[s] \notin {"none", "dead"}
        /\ \E p \in SessionPoints \ {"none"} : pc' = [pc EXCEPT ![s] = p]
        /\ UNCHANGED <<thread, selection, lock, audio, nsess, flaky, callVars>>
  <2>1. CASE SeeStop(s)    BY <2>1 DEF SeeStop
  <2>2. CASE SeeChange(s)  BY <2>2 DEF SeeChange
  <2>3. QED
    BY <1>3, <2>1, <2>2 DEF WaitForChange
<1>4. ASSUME StopGeneration(s) PROVE
        /\ pc[s] \notin {"none", "dead"}
        /\ \E p \in SessionPoints \ {"none"} : pc' = [pc EXCEPT ![s] = p]
        /\ UNCHANGED <<thread, selection, lock, audio, nsess, flaky, callVars>>
  <2>1. CASE CloseSOCKS(s)  BY <2>1 DEF CloseSOCKS, CloseListener
  <2>2. CASE CloseHTTP(s)   BY <2>2 DEF CloseHTTP, CloseListener
  <2>3. CASE CloseWPAD(s)   BY <2>3 DEF CloseWPAD, AfterClose
  <2>4. QED
    BY <1>4, <2>1, <2>2, <2>3 DEF StopGeneration
<1>5. QED
  BY <1>1, <1>2, <1>3, <1>4 DEF SessionStep

(***************************************************************************)
(* What a call does to the sessions: only start() touches one, and then it *)
(* launches the next.                                                      *)
(***************************************************************************)
CallStep(c) ==
    \/ \E sel \in Selections : StartEnter(c, sel)
    \/ StopCall(c) \/ StartStep(c) \/ StopStep(c)
    \/ RecoverCall(c) \/ (\E sel \in Selections : SetOutbound(c, sel))
    \/ RecoverStep(c)

\* The steps that are neither a call's nor a runtime thread's.
OtherStep ==
    \/ \E s \in Sessions : EnsureKeepalive(s)
    \/ \E s, e \in Sessions, k \in {"stop", "recover"} : Deliver(s, k, e)
    \/ WorkerUnwinds
    \/ EnvironmentSettles

LEMMA NextCases ==
    ASSUME Next
    PROVE  \/ \E c \in Callers : CallStep(c)
           \/ \E s \in Sessions : SessionStep(s)
           \/ OtherStep
BY DEF Next, CallStep, OtherStep, Callers

(***************************************************************************)
(* Type correctness.                                                       *)
(***************************************************************************)
\* Groups of variables a step leaves alone keep their types.
LEMMA SameManagerType ==
    ASSUME ManagerTypeOK, UNCHANGED mgrVars  PROVE ManagerTypeOK'
BY DEF ManagerTypeOK, mgrVars

LEMMA SameSessionType ==
    ASSUME SessionTypeOK, UNCHANGED sesVars  PROVE SessionTypeOK'
BY DEF SessionTypeOK, sesVars

LEMMA SameCallType ==
    ASSUME CallTypeOK, UNCHANGED callVars  PROVE CallTypeOK'
BY DEF CallTypeOK, callVars

LEMMA StartType ==
    ASSUME TypeOK, NumberingInv, StartHoldsLock, NEW c \in Callers, StartStep(c)
    PROVE  TypeOK'
<1> USE DEF CallPoints, StartPoints, StopPoints, GoCaller, Return
<1>1. CASE StartState(c)
  <2>1. ManagerTypeOK'  BY <1>1 DEF StartState, TypeOK, ManagerTypeOK, States
  <2>2. CallTypeOK'     BY <1>1 DEF StartState, TypeOK, CallTypeOK
  <2>3. QED             BY <1>1, <2>1, <2>2, SameSessionType DEF StartState, TypeOK
<1>2. CASE StartKeepalive(c)
  <2>1. ManagerTypeOK'  BY <1>2 DEF StartKeepalive, TypeOK, ManagerTypeOK
  <2>2. CallTypeOK'     BY <1>2 DEF StartKeepalive, TypeOK, CallTypeOK
  <2>3. QED             BY <1>2, <2>1, <2>2, SameSessionType DEF StartKeepalive, TypeOK
<1>3. CASE StartThread(c)
  <2>1. nsess + 1 \in Sessions
    BY <1>3, RuntimeAssumption
       DEF StartThread, StartHoldsLock, Sessions, TypeOK, SessionTypeOK
  <2>2. ManagerTypeOK'  BY <1>3, <2>1 DEF StartThread, TypeOK, ManagerTypeOK
  <2>3. CallTypeOK'     BY <1>3 DEF StartThread, TypeOK, CallTypeOK
  <2>4. SessionTypeOK'
    BY <1>3, <2>1, RuntimeAssumption
       DEF StartThread, TypeOK, SessionTypeOK, SessionPoints, Sessions
  <2>5. QED             BY <2>2, <2>3, <2>4 DEF TypeOK
<1>4. CASE StartReturns(c)
  <2>1. CallTypeOK'     BY <1>4 DEF StartReturns, TypeOK, CallTypeOK
  <2>2. QED
    BY <1>4, <2>1, SameManagerType, SameSessionType DEF StartReturns, TypeOK
<1>5. CASE StartTimesOut(c)
  <2>1. CallTypeOK'     BY <1>5 DEF StartTimesOut, TypeOK, CallTypeOK
  <2>2. QED
    BY <1>5, <2>1, SameManagerType, SameSessionType DEF StartTimesOut, TypeOK
<1>6. QED
  BY <1>1, <1>2, <1>3, <1>4, <1>5 DEF StartStep

LEMMA StopType ==
    ASSUME TypeOK, NEW c \in Callers, StopStep(c)
    PROVE  TypeOK'
<1> USE DEF CallPoints, StartPoints, StopPoints, GoCaller, Return
<1>1. CASE StopLatch(c)
  <2>1. ManagerTypeOK'  BY <1>1 DEF StopLatch, TypeOK, ManagerTypeOK
  <2>2. CallTypeOK'     BY <1>1 DEF StopLatch, TypeOK, CallTypeOK
  <2>3. QED             BY <1>1, <2>1, <2>2, SameSessionType DEF StopLatch, TypeOK
<1>2. CASE StopPost(c)
  <2>1. posted' \subseteq Callbacks
    BY <1>2 DEF StopPost, TypeOK, ManagerTypeOK, SessionTypeOK, Callbacks
  <2>2. SessionTypeOK'  BY <1>2, <2>1 DEF StopPost, TypeOK, SessionTypeOK
  <2>3. CallTypeOK'     BY <1>2 DEF StopPost, TypeOK, CallTypeOK
  <2>4. QED             BY <1>2, <2>2, <2>3, SameManagerType DEF StopPost, TypeOK
<1>3. CASE StopCapture(c)
  <2>1. CallTypeOK'
    BY <1>3 DEF StopCapture, TypeOK, CallTypeOK, ManagerTypeOK
  <2>2. QED
    BY <1>3, <2>1, SameManagerType, SameSessionType DEF StopCapture, TypeOK
<1>4. CASE StopJoin(c)
  <2>1. CallTypeOK'     BY <1>4 DEF StopJoin, TypeOK, CallTypeOK
  <2>2. QED
    BY <1>4, <2>1, SameManagerType, SameSessionType DEF StopJoin, TypeOK
<1>5. CASE StopKeepalive(c)
  <2>1. ManagerTypeOK'  BY <1>5 DEF StopKeepalive, TypeOK, ManagerTypeOK
  <2>2. CallTypeOK'     BY <1>5 DEF StopKeepalive, TypeOK, CallTypeOK
  <2>3. QED
    BY <1>5, <2>1, <2>2, SameSessionType DEF StopKeepalive, TypeOK
<1>6. CASE StopCheck(c)
  <2>1. ManagerTypeOK'  BY <1>6 DEF StopCheck, TypeOK, ManagerTypeOK, States
  <2>2. CallTypeOK'     BY <1>6 DEF StopCheck, TypeOK, CallTypeOK
  <2>3. QED             BY <1>6, <2>1, <2>2, SameSessionType DEF StopCheck, TypeOK
<1>7. CASE StopRelease(c)
  <2>1. ManagerTypeOK'  BY <1>7 DEF StopRelease, TypeOK, ManagerTypeOK
  <2>2. CallTypeOK'     BY <1>7 DEF StopRelease, TypeOK, CallTypeOK
  <2>3. QED             BY <1>7, <2>1, <2>2, SameSessionType DEF StopRelease, TypeOK
<1>8. QED
  BY <1>1, <1>2, <1>3, <1>4, <1>5, <1>6, <1>7 DEF StopStep

LEMMA CallType ==
    ASSUME TypeOK, NumberingInv, StartHoldsLock, NEW c \in Callers, CallStep(c)
    PROVE  TypeOK'
<1> USE DEF CallPoints, StartPoints, StopPoints, GoCaller, Return
<1>1. ASSUME NEW sel \in Selections, StartEnter(c, sel) PROVE TypeOK'
  <2>1. ManagerTypeOK'
    <3>1. CASE Running
      BY <1>1, <3>1, SameManagerType DEF StartEnter, TypeOK
    <3>2. CASE ~Running
      BY <1>1, <3>2 DEF StartEnter, TypeOK, ManagerTypeOK
    <3>3. QED BY <3>1, <3>2
  <2>2. CallTypeOK'     BY <1>1 DEF StartEnter, TypeOK, CallTypeOK
  <2>3. QED             BY <1>1, <2>1, <2>2, SameSessionType DEF StartEnter, TypeOK
<1>2. ASSUME NEW sel \in Selections, SetOutbound(c, sel) PROVE TypeOK'
  <2>1. ManagerTypeOK'  BY <1>2 DEF SetOutbound, TypeOK, ManagerTypeOK
  <2>2. CallTypeOK'     BY <1>2 DEF SetOutbound, TypeOK, CallTypeOK
  <2>3. QED             BY <1>2, <2>1, <2>2, SameSessionType DEF SetOutbound, TypeOK
<1>3. CASE StopCall(c)
  <2>1. CallTypeOK'     BY <1>3 DEF StopCall, TypeOK, CallTypeOK
  <2>2. QED
    BY <1>3, <2>1, SameManagerType, SameSessionType DEF StopCall, TypeOK
<1>4. CASE RecoverCall(c)
  <2>1. CallTypeOK'     BY <1>4 DEF RecoverCall, TypeOK, CallTypeOK
  <2>2. QED
    BY <1>4, <2>1, SameManagerType, SameSessionType DEF RecoverCall, TypeOK
<1>5. CASE RecoverCheck(c)
  <2>1. CallTypeOK'     BY <1>5 DEF RecoverCheck, TypeOK, CallTypeOK
  <2>2. QED
    BY <1>5, <2>1, SameManagerType, SameSessionType DEF RecoverCheck, TypeOK
<1>6. CASE RecoverPost(c)
  <2>1. posted' \subseteq Callbacks
    BY <1>6 DEF RecoverPost, TypeOK, ManagerTypeOK, SessionTypeOK, Callbacks
  <2>2. SessionTypeOK'  BY <1>6, <2>1 DEF RecoverPost, TypeOK, SessionTypeOK
  <2>3. CallTypeOK'     BY <1>6 DEF RecoverPost, TypeOK, CallTypeOK
  <2>4. QED             BY <1>6, <2>2, <2>3, SameManagerType DEF RecoverPost, TypeOK
<1>7. QED
  BY <1>1, <1>2, <1>3, <1>4, <1>5, <1>6, StartType, StopType
     DEF CallStep, RecoverStep

LEMMA SuperviseType ==
    ASSUME TypeOK, CountInv, NEW s \in Sessions, Supervise(s)
    PROVE  TypeOK'
<1> USE DEF SessionPoints, LoopPoints, BuildPoints, TaskPoints, ClosePoints,
            GoSession
<1>1. CASE ThreadBoot(s)
  <2>1. ManagerTypeOK'  BY <1>1 DEF ThreadBoot, TypeOK, ManagerTypeOK
  <2>2. SessionTypeOK'  BY <1>1 DEF ThreadBoot, TypeOK, SessionTypeOK
  <2>3. QED             BY <1>1, <2>1, <2>2, SameCallType DEF ThreadBoot, TypeOK
<1>2. CASE InstallEvents(s)
  <2>1. ManagerTypeOK'  BY <1>2 DEF InstallEvents, TypeOK, ManagerTypeOK
  <2>2. SessionTypeOK'  BY <1>2 DEF InstallEvents, TypeOK, SessionTypeOK
  <2>3. QED             BY <1>2, <2>1, <2>2, SameCallType DEF InstallEvents, TypeOK
<1>3. CASE ReadLatch(s)
  <2>1. SessionTypeOK'  BY <1>3 DEF ReadLatch, TypeOK, SessionTypeOK
  <2>2. QED
    BY <1>3, <2>1, SameManagerType, SameCallType DEF ReadLatch, TypeOK
<1>4. CASE LoopTop(s)
  <2>1. SessionTypeOK'  BY <1>4 DEF LoopTop, TypeOK, SessionTypeOK
  <2>2. QED
    BY <1>4, <2>1, SameManagerType, SameCallType DEF LoopTop, TypeOK
<1>5. CASE HandleStartFailure(s)
  <2>1. ManagerTypeOK'
    BY <1>5 DEF HandleStartFailure, CountFailure, TypeOK, ManagerTypeOK, States
  <2>2. consec[s] + 1 \in 0..MaxRestarts
    BY <1>5, RuntimeAssumption
       DEF HandleStartFailure, CountInv, TypeOK, SessionTypeOK
  <2>3. SessionTypeOK'
    BY <1>5, <2>2 DEF HandleStartFailure, CountFailure, TypeOK, SessionTypeOK
  <2>4. QED
    BY <1>5, <2>1, <2>3, SameCallType DEF HandleStartFailure, TypeOK
<1>6. CASE Decide(s)
  <2>1. ManagerTypeOK'  BY <1>6 DEF Decide, TypeOK, ManagerTypeOK, States
  <2>2. SessionTypeOK'
    BY <1>6, RuntimeAssumption DEF Decide, TypeOK, SessionTypeOK
  <2>3. QED             BY <1>6, <2>1, <2>2, SameCallType DEF Decide, TypeOK
<1>7. CASE EndBackoff(s)
  <2>1. delay[s] * Backoff \in Nat
    BY RuntimeAssumption DEF TypeOK, SessionTypeOK
  <2>2. Min({delay[s] * Backoff, MaxDelay}) \in Nat
    BY <2>1, MinOfTwo, RuntimeAssumption
  <2>3. recEv' \in [Sessions -> BOOLEAN]
    BY <1>7 DEF EndBackoff, WaitOrStop, TypeOK, SessionTypeOK
  <2>4. SessionTypeOK'
    BY <1>7, <2>2, <2>3 DEF EndBackoff, TypeOK, SessionTypeOK
  <2>5. QED
    BY <1>7, <2>4, SameManagerType, SameCallType DEF EndBackoff, TypeOK
<1>8. CASE EndPause(s)
  <2>1. recEv' \in [Sessions -> BOOLEAN]
    BY <1>8 DEF EndPause, WaitOrStop, TypeOK, SessionTypeOK
  <2>2. 0 \in 0..MaxRestarts /\ InitialDelay \in Nat
    BY RuntimeAssumption
  <2>3. SessionTypeOK'
    BY <1>8, <2>1, <2>2 DEF EndPause, TypeOK, SessionTypeOK
  <2>4. QED
    BY <1>8, <2>3, SameManagerType, SameCallType DEF EndPause, TypeOK
<1>9. CASE SuperviseExit(s)
  <2>1. ManagerTypeOK'
    BY <1>9 DEF SuperviseExit, TypeOK, ManagerTypeOK, States
  <2>2. SessionTypeOK'  BY <1>9 DEF SuperviseExit, TypeOK, SessionTypeOK
  <2>3. QED             BY <1>9, <2>1, <2>2, SameCallType DEF SuperviseExit, TypeOK
<1>10. CASE ThreadExit(s)
  <2>1. ManagerTypeOK'  BY <1>10 DEF ThreadExit, TypeOK, ManagerTypeOK
  <2>2. SessionTypeOK'
    BY <1>10, RuntimeAssumption DEF ThreadExit, TypeOK, SessionTypeOK
  <2>3. QED             BY <1>10, <2>1, <2>2, SameCallType DEF ThreadExit, TypeOK
<1>11. QED
  BY <1>1, <1>2, <1>3, <1>4, <1>5, <1>6, <1>7, <1>8, <1>9, <1>10 DEF Supervise

LEMMA GenerationType ==
    ASSUME TypeOK, CountInv, NEW s \in Sessions,
           StartGeneration(s) \/ WaitForChange(s) \/ StopGeneration(s)
    PROVE  TypeOK'
<1> USE DEF SessionPoints, LoopPoints, BuildPoints, TaskPoints, ClosePoints,
            GoSession
<1>1. CASE RefreshInterfaces(s)
  <2>1. ManagerTypeOK'
    BY <1>1 DEF RefreshInterfaces, TypeOK, ManagerTypeOK, States
  <2>2. SessionTypeOK'  BY <1>1 DEF RefreshInterfaces, TypeOK, SessionTypeOK
  <2>3. QED
    BY <1>1, <2>1, <2>2, SameCallType DEF RefreshInterfaces, TypeOK
<1>2. CASE SelectOutbound(s)
  <2>1. SessionTypeOK'
    BY <1>2 DEF SelectOutbound, TypeOK, SessionTypeOK, ManagerTypeOK
  <2>2. QED
    BY <1>2, <2>1, SameManagerType, SameCallType DEF SelectOutbound, TypeOK
<1>3. ASSUME NEW p \in Ports, NEW from, NEW to \in SessionPoints,
             BindPort(s, p, from, to)
      PROVE  TypeOK'
  <2>1. SessionTypeOK'  BY <1>3 DEF BindPort, TypeOK, SessionTypeOK
  <2>2. QED
    BY <1>3, <2>1, SameManagerType, SameCallType DEF BindPort, TypeOK
<1>4. CASE BindSOCKS(s) \/ BindHTTP(s) \/ BindWPAD(s)
  BY <1>3, <1>4 DEF BindSOCKS, BindHTTP, BindWPAD, Ports
<1>5. CASE VerifyListeners(s)
  <2>1. ManagerTypeOK'
    <3>1. /\ UNCHANGED <<thread, loop, events, latch, startErr, selection, lock, audio>>
          /\ status' = "Running" \/ UNCHANGED status
          /\ started' = (started \/ first[s]) \/ UNCHANGED started
      BY <1>5 DEF VerifyListeners
    <3>2. status' \in States /\ started' \in BOOLEAN
      BY <3>1 DEF TypeOK, ManagerTypeOK, States
    <3>3. QED  BY <3>1, <3>2 DEF TypeOK, ManagerTypeOK
  <2>2. SessionTypeOK'  BY <1>5 DEF VerifyListeners, TypeOK, SessionTypeOK
  <2>3. QED
    BY <1>5, <2>1, <2>2, SameCallType DEF VerifyListeners, TypeOK
<1>6. CASE SeeStop(s)
  <2>1. SessionTypeOK'  BY <1>6 DEF SeeStop, TypeOK, SessionTypeOK
  <2>2. QED
    BY <1>6, <2>1, SameManagerType, SameCallType DEF SeeStop, TypeOK
<1>7. CASE SeeChange(s)
  <2>1. ManagerTypeOK'
    BY <1>7 DEF SeeChange, CountFailure, TypeOK, ManagerTypeOK, States
  <2>2. consec[s] + 1 \in 0..MaxRestarts
    BY <1>7, RuntimeAssumption DEF SeeChange, CountInv, TypeOK, SessionTypeOK
  <2>3. SessionTypeOK'
    BY <1>7, <2>2 DEF SeeChange, CountFailure, TypeOK, SessionTypeOK
  <2>4. QED
    BY <1>7, <2>1, <2>3, SameCallType DEF SeeChange, TypeOK
<1>8. ASSUME NEW p \in Ports, NEW from, NEW to \in SessionPoints,
             CloseListener(s, p, from, to)
      PROVE  TypeOK'
  <2>1. SessionTypeOK'  BY <1>8 DEF CloseListener, TypeOK, SessionTypeOK
  <2>2. QED
    BY <1>8, <2>1, SameManagerType, SameCallType DEF CloseListener, TypeOK
<1>9. CASE CloseSOCKS(s) \/ CloseHTTP(s)
  BY <1>8, <1>9 DEF CloseSOCKS, CloseHTTP, Ports
<1>10. CASE CloseWPAD(s)
  <2>1. AfterClose(s) \in SessionPoints
    BY DEF AfterClose
  <2>2. SessionTypeOK'
    BY <1>10, <2>1 DEF CloseWPAD, TypeOK, SessionTypeOK, Ports
  <2>3. QED
    BY <1>10, <2>2, SameManagerType, SameCallType DEF CloseWPAD, TypeOK
<1>11. QED
  BY <1>1, <1>2, <1>4, <1>5, <1>6, <1>7, <1>9, <1>10
     DEF StartGeneration, WaitForChange, StopGeneration

LEMMA OtherType ==
    ASSUME TypeOK, OtherStep
    PROVE  TypeOK'
<1>1. ASSUME NEW s \in Sessions, EnsureKeepalive(s) PROVE TypeOK'
  <2>1. ManagerTypeOK'  BY <1>1 DEF EnsureKeepalive, TypeOK, ManagerTypeOK
  <2>2. QED
    BY <1>1, <2>1, SameSessionType, SameCallType DEF EnsureKeepalive, TypeOK
<1>2. ASSUME NEW s \in Sessions, NEW e \in Sessions,
             NEW k \in {"stop", "recover"}, Deliver(s, k, e)
      PROVE TypeOK'
  <2>1. SessionTypeOK'  BY <1>2 DEF Deliver, TypeOK, SessionTypeOK
  <2>2. QED
    BY <1>2, <2>1, SameManagerType, SameCallType DEF Deliver, TypeOK
<1>3. CASE WorkerUnwinds
  <2>1. SessionTypeOK'  BY <1>3 DEF WorkerUnwinds, TypeOK, SessionTypeOK
  <2>2. QED
    BY <1>3, <2>1, SameManagerType, SameCallType DEF WorkerUnwinds, TypeOK
<1>4. CASE EnvironmentSettles
  <2>1. SessionTypeOK'  BY <1>4 DEF EnvironmentSettles, TypeOK, SessionTypeOK
  <2>2. QED
    BY <1>4, <2>1, SameManagerType, SameCallType DEF EnvironmentSettles, TypeOK
<1>5. QED
  BY <1>1, <1>2, <1>3, <1>4 DEF OtherStep

(***************************************************************************)
(* Numbering, lock and ownership.                                          *)
(***************************************************************************)
LEMMA CallKeepsOwnership ==
    ASSUME TypeOK, NumberingInv, StartHoldsLock, OwnerInv,
           NEW c \in Callers, CallStep(c)
    PROVE  NumberingInv' /\ StartHoldsLock' /\ OwnerInv'
<1> USE DEF TypeOK, NumberingInv, StartHoldsLock, OwnerInv, ManagerTypeOK,
            SessionTypeOK, CallTypeOK, StartPoints, GoCaller, Return, Running,
            Alive, mgrVars, sesVars
<1>1. ASSUME NEW sel \in Selections, StartEnter(c, sel)
      PROVE  NumberingInv' /\ StartHoldsLock' /\ OwnerInv'
  BY <1>1, CallersAssumption DEF StartEnter
<1>2. CASE StartThread(c)
  <2>1. nsess + 1 \in Sessions
    BY <1>2, RuntimeAssumption DEF StartThread, Sessions
  <2>2. lock = c /\ ~Running
    BY <1>2 DEF StartThread
  <2>3. /\ nsess' = nsess + 1 /\ thread' = nsess + 1
        /\ pc' = [pc EXCEPT ![nsess + 1] = "new"]
        /\ cpc' = [cpc EXCEPT ![c] = "stWait"]
        /\ cth' = cth
    BY <1>2 DEF StartThread
  <2>4. \A d \in Callers : cpc'[d] \notin StartPoints
    BY <2>2, <2>3, CallersAssumption
  <2>5. \A s \in Sessions : ~Alive(s)
    BY <2>2 DEF Sessions
  <2>6. NumberingInv'
    <3>1. \A s \in Sessions : pc'[s] = "none" <=> s > nsess + 1
      <4>1. TAKE s \in Sessions
      <4>2. CASE s = nsess + 1  BY <2>1, <2>3, <4>2 DEF Sessions
      <4>3. CASE s # nsess + 1  BY <2>1, <2>3, <4>3 DEF Sessions
      <4>4. QED                 BY <4>2, <4>3
    <3>2. \A d \in Callers : cth'[d] <= nsess + 1
      BY <2>1, <2>3 DEF Sessions
    <3>3. thread' <= nsess + 1
      BY <2>1, <2>3 DEF Sessions
    <3>4. QED
      BY <2>3, <3>1, <3>2, <3>3
  <2>7. OwnerInv'
    <3>1. \A s \in Sessions : Alive(s)' => thread' = s
      BY <2>1, <2>3, <2>5
    <3>2. \A d \in Callers : cpc'[d] = "sRelease" /\ cth'[d] # None
                              => cth[d] <= nsess /\ cth[d] \in Sessions
      BY <2>3
    <3>3. \A d \in Callers : cpc'[d] = "sRelease" /\ cth'[d] # None
                              => ~Alive(cth[d])'
      BY <2>1, <2>3, <3>2 DEF Sessions
    <3>4. QED BY <3>1, <3>3
  <2>8. QED
    BY <2>4, <2>6, <2>7
<1>3. CASE StartState(c)      BY <1>3 DEF StartState
<1>4. CASE StartKeepalive(c)  BY <1>4 DEF StartKeepalive
<1>5. CASE StartReturns(c)    BY <1>5 DEF StartReturns
<1>6. CASE StartTimesOut(c)   BY <1>6 DEF StartTimesOut
<1>7. CASE StopCall(c)        BY <1>7 DEF StopCall
<1>8. CASE StopLatch(c)       BY <1>8 DEF StopLatch
<1>9. CASE StopPost(c)        BY <1>9 DEF StopPost
<1>10. CASE StopCapture(c)    BY <1>10 DEF StopCapture
<1>11. CASE StopJoin(c)       BY <1>11 DEF StopJoin
<1>12. CASE StopKeepalive(c)  BY <1>12 DEF StopKeepalive
<1>13. CASE StopCheck(c)      BY <1>13 DEF StopCheck
<1>14. CASE StopRelease(c)
  BY <1>14, CallersAssumption DEF StopRelease
<1>15. CASE RecoverCall(c)    BY <1>15 DEF RecoverCall
<1>16. ASSUME NEW sel \in Selections, SetOutbound(c, sel)
       PROVE  NumberingInv' /\ StartHoldsLock' /\ OwnerInv'
  BY <1>16 DEF SetOutbound
<1>17. CASE RecoverCheck(c)   BY <1>17 DEF RecoverCheck
<1>18. CASE RecoverPost(c)    BY <1>18 DEF RecoverPost
<1>19. QED
  BY <1>1, <1>2, <1>3, <1>4, <1>5, <1>6, <1>7, <1>8, <1>9, <1>10, <1>11, <1>12,
     <1>13, <1>14, <1>15, <1>16, <1>17, <1>18
     DEF CallStep, StartStep, StopStep, RecoverStep

LEMMA SessionKeepsOwnership ==
    ASSUME TypeOK, NumberingInv, StartHoldsLock, OwnerInv,
           NEW s \in Sessions, SessionStep(s)
    PROVE  NumberingInv' /\ StartHoldsLock' /\ OwnerInv'
<1>1. PICK p \in SessionPoints \ {"none"} : pc' = [pc EXCEPT ![s] = p]
  BY SessionStepShape
<1>2. Alive(s) /\ UNCHANGED <<thread, lock, nsess, cpc, cth>>
  BY SessionStepShape DEF callVars
<1>3. QED
  BY <1>1, <1>2
     DEF TypeOK, NumberingInv, StartHoldsLock, OwnerInv, ManagerTypeOK,
         SessionTypeOK, CallTypeOK, Running, Alive

LEMMA OtherShape ==
    ASSUME OtherStep
    PROVE  UNCHANGED <<thread, lock, nsess, pc, consec, cause, held, cpc, cth>>
BY DEF OtherStep, EnsureKeepalive, Deliver, WorkerUnwinds, EnvironmentSettles,
       mgrVars, sesVars, callVars

LEMMA OtherKeepsOwnership ==
    ASSUME NumberingInv, StartHoldsLock, OwnerInv, OtherStep
    PROVE  NumberingInv' /\ StartHoldsLock' /\ OwnerInv'
BY OtherShape DEF NumberingInv, StartHoldsLock, OwnerInv, Running, Alive

(***************************************************************************)
(* Failure count and listening sockets, along the points of a session.     *)
(***************************************************************************)
LEMMA CallKeepsSockets ==
    ASSUME TypeOK, NumberingInv, StartHoldsLock, CountInv, HeldInv,
           NEW c \in Callers, CallStep(c)
    PROVE  CountInv' /\ HeldInv'
<1> USE DEF CountInv, HeldInv, mgrVars, sesVars
<1>1. CASE StartThread(c)
  <2>1. nsess + 1 \in Sessions /\ pc[nsess + 1] = "none"
    BY <1>1, RuntimeAssumption
       DEF StartThread, StartHoldsLock, NumberingInv, Sessions, TypeOK,
           SessionTypeOK, StartPoints, GoCaller
  <2>2. consec[nsess + 1] < MaxRestarts /\ held[nsess + 1] = {}
    BY <2>1 DEF ClosePoints, BuildPoints, TaskPoints
  <2>3. pc' = [pc EXCEPT ![nsess + 1] = "new"] /\ UNCHANGED <<consec, cause, held>>
    BY <1>1 DEF StartThread
  <2>4. QED
    BY <2>1, <2>2, <2>3
       DEF TypeOK, SessionTypeOK, ClosePoints, BuildPoints, TaskPoints
<1>2. CASE ~StartThread(c)
  <2>1. UNCHANGED <<pc, consec, cause, held>>
    BY <1>2 DEF CallStep, StartStep, StopStep, RecoverStep, StartEnter, StopCall,
       StartState, StartKeepalive, StartReturns, StartTimesOut, StopLatch,
       StopPost, StopCapture, StopJoin, StopKeepalive, StopCheck, StopRelease,
       RecoverCall, SetOutbound, RecoverCheck, RecoverPost
  <2>2. QED
    BY <2>1
<1>3. QED
  BY <1>1, <1>2

LEMMA SessionKeepsSockets ==
    ASSUME TypeOK, CountInv, HeldInv, NEW s \in Sessions, SessionStep(s)
    PROVE  CountInv' /\ HeldInv'
<1> USE RuntimeAssumption
    DEF TypeOK, SessionTypeOK, CountInv, HeldInv, SessionPoints, LoopPoints,
        BuildPoints, TaskPoints, ClosePoints, GoSession, Ports
<1>1. CASE ThreadBoot(s)         BY <1>1 DEF ThreadBoot
<1>2. CASE InstallEvents(s)      BY <1>2 DEF InstallEvents
<1>3. CASE ReadLatch(s)          BY <1>3 DEF ReadLatch
<1>4. CASE LoopTop(s)            BY <1>4 DEF LoopTop
<1>5. CASE HandleStartFailure(s) BY <1>5 DEF HandleStartFailure, CountFailure
<1>6. CASE Decide(s)             BY <1>6 DEF Decide
<1>7. CASE EndBackoff(s)         BY <1>7 DEF EndBackoff
<1>8. CASE EndPause(s)           BY <1>8 DEF EndPause
<1>9. CASE SuperviseExit(s)      BY <1>9 DEF SuperviseExit
<1>10. CASE ThreadExit(s)        BY <1>10 DEF ThreadExit
<1>11. CASE RefreshInterfaces(s) BY <1>11 DEF RefreshInterfaces
<1>12. CASE SelectOutbound(s)    BY <1>12 DEF SelectOutbound
<1>13. CASE BindSOCKS(s)         BY <1>13 DEF BindSOCKS, BindPort
<1>14. CASE BindHTTP(s)          BY <1>14 DEF BindHTTP, BindPort
<1>15. CASE BindWPAD(s)          BY <1>15 DEF BindWPAD, BindPort
<1>16. CASE VerifyListeners(s)   BY <1>16 DEF VerifyListeners
<1>17. CASE SeeStop(s)           BY <1>17 DEF SeeStop
<1>18. CASE SeeChange(s)         BY <1>18 DEF SeeChange, CountFailure
<1>19. CASE CloseSOCKS(s)        BY <1>19 DEF CloseSOCKS, CloseListener
<1>20. CASE CloseHTTP(s)         BY <1>20 DEF CloseHTTP, CloseListener
<1>21. CASE CloseWPAD(s)
  <2>1. /\ AfterClose(s) \in {"exit", "handle", "decide"}
        /\ AfterClose(s) = "handle" => cause[s] = "startFailed"
    BY DEF AfterClose
  <2>2. QED
    BY <1>21, <2>1 DEF CloseWPAD
<1>22. QED
  BY <1>1, <1>2, <1>3, <1>4, <1>5, <1>6, <1>7, <1>8, <1>9, <1>10, <1>11, <1>12,
     <1>13, <1>14, <1>15, <1>16, <1>17, <1>18, <1>19, <1>20, <1>21
     DEF SessionStep, Supervise, StartGeneration, WaitForChange, StopGeneration

LEMMA OtherKeepsSockets ==
    ASSUME CountInv, HeldInv, OtherStep
    PROVE  CountInv' /\ HeldInv'
BY OtherShape DEF CountInv, HeldInv

(***************************************************************************)
(* The inductive invariant and what follows from it.                       *)
(***************************************************************************)
LEMMA InitInv == Init => RuntimeInv
<1> SUFFICES ASSUME Init PROVE RuntimeInv
  OBVIOUS
<1> USE RuntimeAssumption DEF Init
<1>1. ManagerTypeOK  BY DEF ManagerTypeOK, States
<1>2. SessionTypeOK  BY DEF SessionTypeOK, SessionPoints
<1>3. CallTypeOK     BY DEF CallTypeOK, CallPoints
<1>4. NumberingInv   BY DEF NumberingInv, Sessions
<1>5. StartHoldsLock BY DEF StartHoldsLock, StartPoints
<1>6. OwnerInv       BY DEF OwnerInv, Alive
<1>7. CountInv       BY DEF CountInv
<1>8. HeldInv        BY DEF HeldInv, TaskPoints, BuildPoints, ClosePoints
<1>9. QED
  BY <1>1, <1>2, <1>3, <1>4, <1>5, <1>6, <1>7, <1>8 DEF RuntimeInv, TypeOK

LEMMA NextInv == RuntimeInv /\ [Next]_vars => RuntimeInv'
<1> SUFFICES ASSUME RuntimeInv, [Next]_vars PROVE RuntimeInv'
  OBVIOUS
<1> USE DEF RuntimeInv
<1>1. ASSUME NEW c \in Callers, CallStep(c) PROVE RuntimeInv'
  BY <1>1, CallType, CallKeepsOwnership, CallKeepsSockets
<1>2. ASSUME NEW s \in Sessions, SessionStep(s) PROVE RuntimeInv'
  <2>1. TypeOK'
    BY <1>2, SuperviseType, GenerationType DEF SessionStep
  <2>2. QED
    BY <1>2, <2>1, SessionKeepsOwnership, SessionKeepsSockets
<1>3. CASE OtherStep
  BY <1>3, OtherType, OtherKeepsOwnership, OtherKeepsSockets
<1>4. CASE UNCHANGED vars
  <2>1. TypeOK'
    BY <1>4, SameManagerType, SameSessionType, SameCallType DEF TypeOK, vars
  <2>2. QED
    BY <1>4, <2>1
       DEF vars, mgrVars, sesVars, callVars, NumberingInv, StartHoldsLock,
           OwnerInv, CountInv, HeldInv, Running, Alive
<1>5. QED
  BY <1>1, <1>2, <1>3, <1>4, NextCases

\* RuntimeInv holds in every state StableServerManager and its threads reach.
THEOREM RuntimeInvariant == Spec => []RuntimeInv
<1>1. QED
  BY InitInv, NextInv, PTL DEF Spec

\* Every variable keeps its type; in particular the failure count never
\* exceeds max_consecutive_restarts.
THEOREM TypeCorrect == Spec => []TypeOK
<1>1. RuntimeInv => TypeOK
  BY DEF RuntimeInv
<1>2. QED
  BY RuntimeInvariant, <1>1, PTL

\* However start() and stop() calls overlap, at most one runtime thread is
\* alive: a second generation never races for the ports of a first.
THEOREM OneRuntime == Spec => []AtMostOneRuntime
<1>1. RuntimeInv => AtMostOneRuntime
  BY DEF RuntimeInv, OwnerInv, AtMostOneRuntime
<1>2. QED
  BY RuntimeInvariant, <1>1, PTL

\* A generation that is up owns its three sockets, and a session that is not
\* building, running or closing one owns none.
THEOREM NoListenerForgotten == Spec => []ListenersMatchGeneration
<1>1. RuntimeInv => ListenersMatchGeneration
  BY DEF RuntimeInv, HeldInv, ListenersMatchGeneration
<1>2. QED
  BY RuntimeInvariant, <1>1, PTL

(***************************************************************************)
(* StableRuntime implements RuntimeLease.                                  *)
(***************************************************************************)
LiveSet    == {s \in Sessions : Alive(s)}
PastSet    == {s \in Sessions : pc[s] = "dead"}
ServingSet == {s \in Sessions : pc[s] = "run"}

LEMMA InitLease == Init => Lease!LeaseInit
BY DEF Init, Lease!LeaseInit, Alive

\* A step that leaves alone who is alive, dead and serving, and the sockets,
\* is a stutter of the lease.
LEMMA LeaseStutter ==
    ASSUME UNCHANGED <<LiveSet, PastSet, ServingSet, held>>
    PROVE  UNCHANGED Lease!leaseVars
BY DEF LiveSet, PastSet, ServingSet, Lease!leaseVars

LEMMA CallImplements ==
    ASSUME RuntimeInv, NEW c \in Callers, CallStep(c)
    PROVE  [Lease!LeaseNext]_(Lease!leaseVars)
<1>1. CASE StartThread(c)
  <2>1. nsess + 1 \in Sessions /\ pc[nsess + 1] = "none"
    BY <1>1, RuntimeAssumption
       DEF StartThread, RuntimeInv, StartHoldsLock, NumberingInv, Sessions,
           TypeOK, SessionTypeOK, StartPoints, GoCaller
  <2>2. \A s \in Sessions : ~Alive(s)
    BY <1>1 DEF StartThread, RuntimeInv, StartHoldsLock, OwnerInv, Running,
       StartPoints, GoCaller, Sessions
  <2>3. pc' = [pc EXCEPT ![nsess + 1] = "new"] /\ UNCHANGED held
    BY <1>1 DEF StartThread
  <2>4. pc \in [Sessions -> SessionPoints]
    BY DEF RuntimeInv, TypeOK, SessionTypeOK
  <2>5. LiveSet = {} /\ LiveSet' = {nsess + 1}
    BY <2>1, <2>2, <2>3, <2>4 DEF LiveSet, Alive
  <2>6. UNCHANGED <<PastSet, ServingSet>> /\ nsess + 1 \notin PastSet
    BY <2>1, <2>3, <2>4 DEF PastSet, ServingSet
  <2>7. Lease!Launch(nsess + 1)
    BY <2>3, <2>5, <2>6 DEF Lease!Launch, LiveSet, PastSet, ServingSet
  <2>8. QED
    BY <2>1, <2>7 DEF Lease!LeaseNext
<1>2. CASE ~StartThread(c)
  <2>1. UNCHANGED <<pc, held>>
    BY <1>2 DEF CallStep, StartStep, StopStep, RecoverStep, StartEnter, StopCall,
       StartState, StartKeepalive, StartReturns, StartTimesOut, StopLatch,
       StopPost, StopCapture, StopJoin, StopKeepalive, StopCheck, StopRelease,
       RecoverCall, SetOutbound, RecoverCheck, RecoverPost, mgrVars, sesVars
  <2>2. QED
    BY <2>1, LeaseStutter DEF LiveSet, PastSet, ServingSet, Alive
<1>3. QED
  BY <1>1, <1>2

\* A step of s that moves it between two points where it is alive and not
\* serving, and leaves the sockets alone.
LEMMA QuietStep ==
    ASSUME RuntimeInv, NEW s \in Sessions, NEW p,
           pc[s] \notin {"none", "dead", "run"}, p \notin {"none", "dead", "run"},
           pc' = [pc EXCEPT ![s] = p], UNCHANGED held
    PROVE  UNCHANGED Lease!leaseVars
<1>1. pc \in [Sessions -> SessionPoints]
  BY DEF RuntimeInv, TypeOK, SessionTypeOK
<1>2. UNCHANGED <<LiveSet, PastSet, ServingSet>>
  BY <1>1 DEF LiveSet, PastSet, ServingSet, Alive
<1>3. QED
  BY <1>2, LeaseStutter

\* A step of s that closes port p, if it is open.
LEMMA CloseStep ==
    ASSUME RuntimeInv, NEW s \in Sessions, NEW p \in Ports, NEW q,
           pc[s] \notin {"none", "dead", "run"}, q \notin {"none", "dead", "run"},
           pc' = [pc EXCEPT ![s] = q], held' = [held EXCEPT ![s] = @ \ {p}]
    PROVE  [Lease!LeaseNext]_(Lease!leaseVars)
<1>1. /\ pc \in [Sessions -> SessionPoints]
      /\ held \in [Sessions -> SUBSET Ports]
  BY DEF RuntimeInv, TypeOK, SessionTypeOK
<1>2. UNCHANGED <<LiveSet, PastSet, ServingSet>>
  BY <1>1 DEF LiveSet, PastSet, ServingSet, Alive
<1>3. CASE p \in held[s]
  <2>1. s \in LiveSet /\ s \notin ServingSet
    BY DEF LiveSet, ServingSet, Alive
  <2>2. Lease!Release(s, p)
    BY <1>2, <1>3, <2>1 DEF Lease!Release, LiveSet, PastSet, ServingSet
  <2>3. QED
    BY <2>2 DEF Lease!LeaseNext
<1>4. CASE p \notin held[s]
  <2>1. UNCHANGED held
    BY <1>1, <1>4
  <2>2. QED
    BY <1>2, <2>1, LeaseStutter
<1>5. QED
  BY <1>3, <1>4

\* A step of s that binds port p.
LEMMA BindStep ==
    ASSUME RuntimeInv, NEW s \in Sessions, NEW p \in Ports, NEW from, NEW to,
           from \notin {"none", "dead", "run"}, to \notin {"none", "dead", "run"},
           BindPort(s, p, from, to)
    PROVE  [Lease!LeaseNext]_(Lease!leaseVars)
<1>1. CASE ~PortBusy(p) /\ pc' = [pc EXCEPT ![s] = to]
           /\ held' = [held EXCEPT ![s] = @ \cup {p}]
  <2>1. pc \in [Sessions -> SessionPoints] /\ pc[s] = from
    BY DEF RuntimeInv, TypeOK, SessionTypeOK, BindPort
  <2>2. UNCHANGED <<LiveSet, PastSet, ServingSet>>
    BY <1>1, <2>1 DEF LiveSet, PastSet, ServingSet, Alive
  <2>3. s \in LiveSet /\ s \notin ServingSet
    BY <2>1 DEF LiveSet, ServingSet, Alive
  <2>4. Lease!Acquire(s, p)
    BY <1>1, <2>2, <2>3
       DEF Lease!Acquire, PortBusy, LiveSet, PastSet, ServingSet
  <2>5. QED
    BY <2>4 DEF Lease!LeaseNext
<1>2. CASE pc' = [pc EXCEPT ![s] = "closeSOCKS"] /\ UNCHANGED held
  BY <1>2, QuietStep DEF BindPort
<1>3. QED
  BY <1>1, <1>2 DEF BindPort

\* A step of s that stops serving.
LEMMA WithdrawStep ==
    ASSUME RuntimeInv, NEW s \in Sessions, GoSession(s, "run", "closeSOCKS"),
           UNCHANGED held
    PROVE  [Lease!LeaseNext]_(Lease!leaseVars)
<1>1. pc \in [Sessions -> SessionPoints]
  BY DEF RuntimeInv, TypeOK, SessionTypeOK
<1>2. s \in ServingSet /\ UNCHANGED <<LiveSet, PastSet>>
  BY <1>1 DEF LiveSet, PastSet, ServingSet, Alive, GoSession
<1>3. \A t \in Sessions : pc[t] = "run" => t = s
  BY DEF RuntimeInv, OwnerInv, Alive, GoSession
<1>4. ServingSet' = {}
  BY <1>1, <1>3 DEF ServingSet, GoSession
<1>5. Lease!Withdraw(s)
  BY <1>2, <1>4 DEF Lease!Withdraw, LiveSet, PastSet, ServingSet
<1>6. QED
  BY <1>5 DEF Lease!LeaseNext

LEMMA ServeStep ==
    ASSUME RuntimeInv, NEW s \in Sessions, VerifyListeners(s)
    PROVE  [Lease!LeaseNext]_(Lease!leaseVars)
<1>1. pc \in [Sessions -> SessionPoints] /\ pc[s] = "verify" /\ UNCHANGED held
  BY DEF RuntimeInv, TypeOK, SessionTypeOK, VerifyListeners
<1>2. CASE pc' = [pc EXCEPT ![s] = "run"]
  <2>1. s \in LiveSet /\ held[s] = Ports /\ UNCHANGED <<LiveSet, PastSet>>
    BY <1>1, <1>2
       DEF LiveSet, PastSet, Alive, RuntimeInv, HeldInv, TaskPoints
  <2>2. \A t \in Sessions : pc[t] # "run"
    BY <1>1 DEF RuntimeInv, OwnerInv, Alive
  <2>3. ServingSet' = {s}
    BY <1>1, <1>2, <2>2 DEF ServingSet
  <2>4. Lease!Serve(s)
    BY <1>1, <2>1, <2>3 DEF Lease!Serve, LiveSet, PastSet, ServingSet
  <2>5. QED
    BY <2>4 DEF Lease!LeaseNext
<1>3. CASE pc' = [pc EXCEPT ![s] = "closeSOCKS"]
  BY <1>1, <1>3, QuietStep
<1>4. QED
  BY <1>2, <1>3 DEF VerifyListeners

LEMMA EndStep ==
    ASSUME RuntimeInv, NEW s \in Sessions, ThreadExit(s)
    PROVE  [Lease!LeaseNext]_(Lease!leaseVars)
<1>1. /\ pc \in [Sessions -> SessionPoints] /\ pc[s] = "finally"
      /\ pc' = [pc EXCEPT ![s] = "dead"] /\ UNCHANGED held
  BY DEF RuntimeInv, TypeOK, SessionTypeOK, ThreadExit, GoSession
<1>2. held[s] = {}
  BY <1>1 DEF RuntimeInv, HeldInv, BuildPoints, TaskPoints, ClosePoints
<1>3. \A t \in Sessions : Alive(t) => t = s
  BY <1>1 DEF RuntimeInv, OwnerInv, Alive
<1>4. LiveSet' = {} /\ s \in LiveSet
  BY <1>1, <1>3 DEF LiveSet, Alive
<1>5. PastSet' = PastSet \cup {s} /\ UNCHANGED ServingSet /\ s \notin ServingSet
  BY <1>1 DEF PastSet, ServingSet
<1>6. Lease!End(s)
  BY <1>1, <1>2, <1>4, <1>5 DEF Lease!End, LiveSet, PastSet, ServingSet
<1>7. QED
  BY <1>6 DEF Lease!LeaseNext

LEMMA SessionImplements ==
    ASSUME RuntimeInv, NEW s \in Sessions, SessionStep(s)
    PROVE  [Lease!LeaseNext]_(Lease!leaseVars)
<1>1. CASE ThreadBoot(s)
  BY <1>1, QuietStep DEF ThreadBoot, GoSession
<1>2. CASE InstallEvents(s)
  BY <1>2, QuietStep DEF InstallEvents, GoSession
<1>3. CASE ReadLatch(s)
  BY <1>3, QuietStep DEF ReadLatch, GoSession
<1>4. CASE LoopTop(s)
  <2>1. UNCHANGED held
    BY <1>4 DEF LoopTop
  <2>2. CASE stopEv[s]   BY <1>4, <2>1, <2>2, QuietStep DEF LoopTop
  <2>3. CASE ~stopEv[s]  BY <1>4, <2>1, <2>3, QuietStep DEF LoopTop
  <2>4. QED              BY <2>2, <2>3
<1>5. CASE HandleStartFailure(s)
  <2>1. UNCHANGED held
    BY <1>5 DEF HandleStartFailure
  <2>2. CASE first[s]   BY <1>5, <2>1, <2>2, QuietStep DEF HandleStartFailure
  <2>3. CASE ~first[s]  BY <1>5, <2>1, <2>3, QuietStep DEF HandleStartFailure
  <2>4. QED             BY <2>2, <2>3
<1>6. CASE Decide(s)
  <2>1. UNCHANGED held /\ pc[s] = "decide"
    BY <1>6 DEF Decide
  <2>2. PICK p \in {"exit", "paused", "backoff"} : pc' = [pc EXCEPT ![s] = p]
    BY <1>6 DEF Decide
  <2>3. QED
    BY <2>1, <2>2, QuietStep
<1>7. CASE EndBackoff(s)
  BY <1>7, QuietStep DEF EndBackoff, GoSession
<1>8. CASE EndPause(s)
  BY <1>8, QuietStep DEF EndPause, GoSession
<1>9. CASE SuperviseExit(s)
  BY <1>9, QuietStep DEF SuperviseExit, GoSession
<1>10. CASE ThreadExit(s)
  BY <1>10, EndStep
<1>11. CASE RefreshInterfaces(s)
  BY <1>11, QuietStep DEF RefreshInterfaces, GoSession
<1>12. CASE SelectOutbound(s)
  <2>1. UNCHANGED held /\ pc[s] = "select"
    BY <1>12 DEF SelectOutbound
  <2>2. PICK p \in {"bindSOCKS", "handle"} : pc' = [pc EXCEPT ![s] = p]
    BY <1>12 DEF SelectOutbound
  <2>3. QED
    BY <2>1, <2>2, QuietStep
<1>13. CASE BindSOCKS(s)
  BY <1>13, BindStep DEF BindSOCKS, Ports
<1>14. CASE BindHTTP(s)
  BY <1>14, BindStep DEF BindHTTP, Ports
<1>15. CASE BindWPAD(s)
  BY <1>15, BindStep DEF BindWPAD, Ports
<1>16. CASE VerifyListeners(s)
  BY <1>16, ServeStep
<1>17. CASE SeeStop(s)
  BY <1>17, WithdrawStep DEF SeeStop
<1>18. CASE SeeChange(s)
  BY <1>18, WithdrawStep DEF SeeChange
<1>19. CASE CloseSOCKS(s)
  BY <1>19, CloseStep DEF CloseSOCKS, CloseListener, GoSession, Ports
<1>20. CASE CloseHTTP(s)
  BY <1>20, CloseStep DEF CloseHTTP, CloseListener, GoSession, Ports
<1>21. CASE CloseWPAD(s)
  <2>1. AfterClose(s) \in {"exit", "handle", "decide"}
    BY DEF AfterClose
  <2>2. /\ pc[s] = "closeWPAD" /\ pc' = [pc EXCEPT ![s] = AfterClose(s)]
        /\ held' = [held EXCEPT ![s] = @ \ {"WPAD"}]
    BY <1>21 DEF CloseWPAD, GoSession
  <2>3. QED
    BY <2>1, <2>2, CloseStep DEF Ports
<1>22. QED
  BY <1>1, <1>2, <1>3, <1>4, <1>5, <1>6, <1>7, <1>8, <1>9, <1>10, <1>11, <1>12,
     <1>13, <1>14, <1>15, <1>16, <1>17, <1>18, <1>19, <1>20, <1>21
     DEF SessionStep, Supervise, StartGeneration, WaitForChange, StopGeneration

\* Every behaviour of the manager and its runtime threads is a behaviour of
\* RuntimeLease: one holder at a time, sockets acquired and released by the
\* holder alone, service only with all three, and nothing left at the end.
THEOREM RefinesLease == Spec => ImplementsLease
<1>1. Init => Lease!LeaseInit
  BY InitLease
<1>2. RuntimeInv /\ [Next]_vars => [Lease!LeaseNext]_(Lease!leaseVars)
  <2> SUFFICES ASSUME RuntimeInv, [Next]_vars
               PROVE  [Lease!LeaseNext]_(Lease!leaseVars)
    OBVIOUS
  <2>1. ASSUME NEW c \in Callers, CallStep(c)
        PROVE  [Lease!LeaseNext]_(Lease!leaseVars)
    BY <2>1, CallImplements
  <2>2. ASSUME NEW s \in Sessions, SessionStep(s)
        PROVE  [Lease!LeaseNext]_(Lease!leaseVars)
    BY <2>2, SessionImplements
  <2>3. CASE OtherStep
    BY <2>3, OtherShape, LeaseStutter DEF LiveSet, PastSet, ServingSet, Alive
  <2>4. CASE UNCHANGED vars
    BY <2>4, LeaseStutter
       DEF vars, sesVars, LiveSet, PastSet, ServingSet, Alive
  <2>5. QED
    BY <2>1, <2>2, <2>3, <2>4, NextCases
<1>3. QED
  BY <1>1, <1>2, RuntimeInvariant, PTL
     DEF Spec, ImplementsLease, Lease!LeaseSpec

(***************************************************************************)
(* What is asked of a runtime thread reaches it: its loop and its events   *)
(* are the ones the manager's attributes name while the loop runs.         *)
(***************************************************************************)
EventsInv ==
    \A s \in Sessions :
      /\ pc[s] = "boot" => loop = s
      /\ pc[s] \in LoopPoints => loop = s /\ events = s

\* Steps of calls that leave the runtime's side alone.
LEMMA CallLeavesEvents ==
    ASSUME NEW c \in Callers, CallStep(c)
    PROVE  UNCHANGED <<loop, events, recEv, genSel>>
BY DEF CallStep, StartStep, StopStep, RecoverStep, StartEnter, StopCall,
       StartState, StartKeepalive, StartThread, StartReturns, StartTimesOut, StopLatch,
       StopPost, StopCapture, StopJoin, StopKeepalive, StopCheck, StopRelease,
       RecoverCall, SetOutbound, RecoverCheck, RecoverPost, mgrVars, sesVars

LEMMA CallMovesPc ==
    ASSUME RuntimeInv, NEW c \in Callers, CallStep(c)
    PROVE  \/ UNCHANGED pc
           \/ /\ nsess + 1 \in Sessions /\ pc' = [pc EXCEPT ![nsess + 1] = "new"]
              /\ \A s \in Sessions : ~Alive(s)
<1>1. CASE StartThread(c)
  <2>1. nsess < MaxSessions /\ ~Running
    BY <1>1 DEF StartThread, RuntimeInv, StartHoldsLock, StartPoints, GoCaller
  <2>2. nsess + 1 \in Sessions
    BY <2>1, RuntimeAssumption DEF Sessions, RuntimeInv, TypeOK, SessionTypeOK
  <2>3. \A s \in Sessions : ~Alive(s)
    BY <2>1 DEF RuntimeInv, OwnerInv, Running, Sessions
  <2>4. QED  BY <1>1, <2>2, <2>3 DEF StartThread
<1>2. CASE ~StartThread(c)
  <2>1. UNCHANGED pc
    BY <1>2 DEF CallStep, StartStep, StopStep, RecoverStep, StartEnter, StopCall,
       StartState, StartKeepalive, StartReturns, StartTimesOut, StopLatch,
       StopPost, StopCapture, StopJoin, StopKeepalive, StopCheck, StopRelease,
       RecoverCall, SetOutbound, RecoverCheck, RecoverPost, sesVars
  <2>2. QED  BY <2>1
<1>3. QED  BY <1>1, <1>2

LEMMA NewIsNotLoop == "new" \notin LoopPoints /\ "boot" \notin LoopPoints /\ "finally" \notin LoopPoints
                      /\ "dead" \notin LoopPoints /\ "none" \notin LoopPoints
  BY DEF LoopPoints, BuildPoints, TaskPoints, ClosePoints

LEMMA SessionEvents ==
    ASSUME TypeOK, NEW s \in Sessions, SessionStep(s)
    PROVE  \/ ThreadBoot(s) \/ InstallEvents(s) \/ ThreadExit(s)
           \/ /\ UNCHANGED <<loop, events>> /\ pc[s] \in LoopPoints
              /\ pc'[s] # "boot"
<1> USE DEF LoopPoints, BuildPoints, TaskPoints, ClosePoints, GoSession, mgrVars, TypeOK, SessionTypeOK
<1>1. CASE Supervise(s)
  BY <1>1 DEF Supervise, ReadLatch, LoopTop, HandleStartFailure, Decide,
     EndBackoff, EndPause, SuperviseExit
<1>2. CASE StartGeneration(s)
  BY <1>2 DEF StartGeneration, RefreshInterfaces, SelectOutbound, BindSOCKS, BindHTTP, BindWPAD,
     BindPort, VerifyListeners
<1>3. CASE WaitForChange(s) \/ StopGeneration(s)
  BY <1>3 DEF WaitForChange, SeeStop, SeeChange, StopGeneration, CloseSOCKS, CloseHTTP, CloseWPAD,
     CloseListener, AfterClose
<1>4. QED  BY <1>1, <1>2, <1>3 DEF SessionStep

LEMMA StepEvents == RuntimeInv /\ EventsInv /\ [Next]_vars => EventsInv'
<1> SUFFICES ASSUME RuntimeInv, EventsInv, [Next]_vars PROVE EventsInv'
  OBVIOUS
<1>0. pc \in [Sessions -> SessionPoints]
  BY DEF RuntimeInv, TypeOK, SessionTypeOK
<1>1. ASSUME NEW c \in Callers, CallStep(c) PROVE EventsInv'
  <2>1. UNCHANGED <<loop, events>>
    BY <1>1, CallLeavesEvents
  <2>2. CASE UNCHANGED pc
    BY <2>1, <2>2 DEF EventsInv
  <2>3. CASE nsess + 1 \in Sessions /\ pc' = [pc EXCEPT ![nsess + 1] = "new"]
    BY <1>0, <2>1, <2>3, NewIsNotLoop DEF EventsInv
  <2>4. QED  BY <1>1, <2>2, <2>3, CallMovesPc
<1>2. ASSUME NEW s \in Sessions, SessionStep(s) PROVE EventsInv'
  <2>1. TypeOK /\ Alive(s) /\ \E p \in SessionPoints \ {"none"} : pc' = [pc EXCEPT ![s] = p]
    BY <1>2, SessionStepShape DEF RuntimeInv
  <2>2. \A t \in Sessions : t # s => pc'[t] = pc[t] /\ ~Alive(t)
    BY <1>0, <2>1 DEF RuntimeInv, OwnerInv
  <2>3. \A t \in Sessions : t # s => pc'[t] \notin LoopPoints \cup {"boot"}
    BY <2>2, NewIsNotLoop DEF Alive, LoopPoints, BuildPoints, TaskPoints, ClosePoints
  <2>4. CASE ThreadBoot(s)
    BY <1>0, <2>3, <2>4, NewIsNotLoop DEF ThreadBoot, EventsInv, GoSession
  <2>5. CASE InstallEvents(s)
    BY <1>0, <2>3, <2>5, NewIsNotLoop DEF InstallEvents, EventsInv, GoSession
  <2>6. CASE ThreadExit(s)
    BY <1>0, <2>3, <2>6, NewIsNotLoop DEF ThreadExit, EventsInv, GoSession
  <2>7. CASE UNCHANGED <<loop, events>> /\ pc[s] \in LoopPoints /\ pc'[s] # "boot"
    BY <2>3, <2>7 DEF EventsInv
  <2>8. QED  BY <1>2, <2>1, <2>4, <2>5, <2>6, <2>7, SessionEvents
<1>3. CASE OtherStep
  BY <1>3 DEF OtherStep, EnsureKeepalive, Deliver, WorkerUnwinds, EnvironmentSettles,
     mgrVars, sesVars, EventsInv
<1>4. CASE UNCHANGED vars
  BY <1>4 DEF vars, mgrVars, sesVars, EventsInv
<1>5. QED  BY <1>1, <1>2, <1>3, <1>4, NextCases

\* The steps of a thread by what it may call.
ControllerStep(c) ==
    (\E sel \in Selections : StartEnter(c, sel)) \/ StopCall(c) \/ StartStep(c) \/ StopStep(c)
SelectorStep(c) ==
    RecoverCall(c) \/ (\E sel \in Selections : SetOutbound(c, sel)) \/ RecoverStep(c)

\* A caller's step: a change of the selection starts a request, and a request
\* goes on to the events of the session that is up.
LEMMA CallSelection ==
    ASSUME RuntimeInv, EventsInv, SelectionChangeNotLost, NEW c \in Callers,
           (c \in Controllers /\ ControllerStep(c)) \/ (c \in Selectors /\ SelectorStep(c))
    PROVE  SelectionChangeNotLost'
<1>0. CallStep(c)
  BY DEF CallStep, ControllerStep, SelectorStep
<1> SUFFICES ASSUME NEW s \in Sessions, pc'[s] \in BuildPoints, genSel'[s] # selection'
             PROVE  \/ recEv'[s]
                    \/ [loop |-> s, kind |-> "recover", ev |-> s] \in posted'
                    \/ \E d \in Selectors : cpc'[d] \in {"rCheck", "rPost"}
  BY DEF SelectionChangeNotLost
<1>1. UNCHANGED <<loop, events, recEv, genSel>>
  BY <1>0, CallLeavesEvents
<1>2. pc[s] \in BuildPoints
  BY <1>0, CallMovesPc DEF BuildPoints, TaskPoints, RuntimeInv, TypeOK, SessionTypeOK
<1>3. Alive(s) /\ pc[s] \in LoopPoints /\ loop = s /\ events = s /\ thread = s
  BY <1>2 DEF EventsInv, LoopPoints, BuildPoints, TaskPoints, Alive, RuntimeInv, OwnerInv
<1>4. Running /\ s # None
  BY <1>3 DEF Running, Sessions
<1>5. cpc \in [Callers -> CallPoints]
  BY DEF RuntimeInv, TypeOK, CallTypeOK
<1>6. ASSUME NEW sel \in Selections, SetOutbound(c, sel), c \in Selectors
      PROVE  \/ recEv'[s]
             \/ [loop |-> s, kind |-> "recover", ev |-> s] \in posted'
             \/ \E d \in Selectors : cpc'[d] \in {"rCheck", "rPost"}
  <2>1. CASE sel # selection
    <3>1. cpc' = [cpc EXCEPT ![c] = "rCheck"]
      BY <1>4, <1>6, <2>1 DEF SetOutbound
    <3>2. cpc'[c] = "rCheck"
      BY <1>5, <3>1
    <3>3. QED  BY <1>6, <3>2
  <2>2. CASE sel = selection
    <3>1. /\ selection' = selection /\ posted' = posted
          /\ cpc[c] = "idle"
          /\ cpc' = [cpc EXCEPT ![c] = "idle"]
      BY <1>6, <2>2 DEF SetOutbound, Return, sesVars
    <3>2. cpc' = cpc
      BY <1>5, <3>1
    <3>3. QED  BY <1>1, <1>2, <3>1, <3>2 DEF SelectionChangeNotLost
  <2>3. QED  BY <2>1, <2>2
<1>7. CASE RecoverPost(c) /\ c \in Selectors
  <2>1. posted' = posted \cup {[loop |-> s, kind |-> "recover", ev |-> s]}
    BY <1>3, <1>4, <1>7 DEF RecoverPost
  <2>2. QED  BY <2>1
<1>8. CASE RecoverCheck(c) /\ c \in Selectors
  <2>1. cpc' = [cpc EXCEPT ![c] = "rPost"]
    BY <1>3, <1>4, <1>8 DEF RecoverCheck
  <2>2. cpc'[c] = "rPost"
    BY <1>5, <2>1
  <2>3. QED  BY <1>8, <2>2
<1>9. CASE RecoverCall(c) /\ c \in Selectors
  <2>1. cpc'[c] = "rCheck"
    BY <1>5, <1>9 DEF RecoverCall, GoCaller
  <2>2. QED  BY <1>9, <2>1
<1>10. ASSUME NEW sel \in Selections, StartEnter(c, sel) PROVE  UNCHANGED <<selection, posted>>
  BY <1>4, <1>10 DEF StartEnter, mgrVars, sesVars
<1>11. CASE ControllerStep(c)
  <2>1. selection' = selection
    BY <1>10, <1>11 DEF ControllerStep, StopCall, StartStep, StopStep, StartState, StartKeepalive, StartThread,
       StartReturns, StartTimesOut, StopLatch, StopPost, StopCapture, StopJoin, StopKeepalive,
       StopCheck, StopRelease, mgrVars
  <2>2. cpc[c] \notin {"rCheck", "rPost"} /\ \E p : cpc' = [cpc EXCEPT ![c] = p]
    BY <1>11 DEF ControllerStep, StartEnter, StopCall, StartStep, StopStep, StartState, StartKeepalive, StartThread,
       StartReturns, StartTimesOut, StopLatch, StopPost, StopCapture, StopJoin, StopKeepalive,
       StopCheck, StopRelease, GoCaller, Return
  <2>3. posted \subseteq posted'
    BY <1>10, <1>11 DEF ControllerStep, StopCall, StartStep, StopStep, StartState, StartKeepalive, StartThread,
       StartReturns, StartTimesOut, StopLatch, StopPost, StopCapture, StopJoin, StopKeepalive,
       StopCheck, StopRelease, sesVars
  <2>4. \A d \in Callers : cpc[d] \in {"rCheck", "rPost"} => cpc'[d] = cpc[d]
    BY <1>5, <2>2
  <2>5. QED  BY <1>1, <1>2, <2>1, <2>3, <2>4 DEF SelectionChangeNotLost, Callers
<1>12. QED
  BY <1>6, <1>7, <1>8, <1>9, <1>11 DEF SelectorStep, RecoverStep

LEMMA SessionSelection ==
    ASSUME RuntimeInv, SelectionChangeNotLost, NEW s \in Sessions, SessionStep(s)
    PROVE  SelectionChangeNotLost'
<1> DEFINE Told(t) == \/ recEv[t]
                      \/ [loop |-> t, kind |-> "recover", ev |-> t] \in posted
                      \/ \E c \in Selectors : cpc[c] \in {"rCheck", "rPost"}
<1>1. \A t \in Sessions : t # s => ~Alive(t)
  BY SessionStepShape DEF RuntimeInv, OwnerInv
<1>2. /\ \E p \in SessionPoints : pc' = [pc EXCEPT ![s] = p]
      /\ UNCHANGED <<selection, cpc>>
  BY SessionStepShape DEF RuntimeInv, callVars
<1>3. \A t \in Sessions : t # s => pc'[t] \notin BuildPoints
  BY <1>1, <1>2 DEF Alive, BuildPoints, TaskPoints, RuntimeInv, TypeOK, SessionTypeOK
<1>4. pc'[s] \in BuildPoints =>
        \/ genSel'[s] = selection
        \/ pc[s] \in BuildPoints /\ UNCHANGED <<genSel, recEv, posted>>
  <2> USE DEF BuildPoints, TaskPoints, GoSession, mgrVars, sesVars, RuntimeInv, TypeOK, SessionTypeOK
  <2>1. CASE Supervise(s)
    BY <2>1 DEF Supervise, ThreadBoot, InstallEvents, ReadLatch, LoopTop, HandleStartFailure, Decide,
       EndBackoff, EndPause, SuperviseExit, ThreadExit
  <2>2. CASE StartGeneration(s)
    BY <2>2 DEF StartGeneration, RefreshInterfaces, SelectOutbound, BindSOCKS, BindHTTP, BindWPAD,
       BindPort, VerifyListeners
  <2>3. CASE WaitForChange(s) \/ StopGeneration(s)
    BY <2>3 DEF WaitForChange, SeeStop, SeeChange, StopGeneration, CloseSOCKS, CloseHTTP, CloseWPAD,
       CloseListener, AfterClose
  <2>4. QED  BY <2>1, <2>2, <2>3 DEF SessionStep
<1>5. ASSUME pc'[s] \in BuildPoints, genSel'[s] # selection' PROVE Told(s)'
  <2>1. pc[s] \in BuildPoints /\ UNCHANGED <<genSel, recEv, posted, cpc, selection>>
    BY <1>2, <1>4, <1>5
  <2>2. Told(s)
    BY <1>5, <2>1 DEF SelectionChangeNotLost
  <2>3. QED  BY <2>1, <2>2
<1>6. QED
  BY <1>3, <1>5 DEF SelectionChangeNotLost

LEMMA OtherSelection ==
    ASSUME RuntimeInv, SelectionChangeNotLost, OtherStep
    PROVE  SelectionChangeNotLost'
<1>1. ASSUME NEW s \in Sessions, NEW e \in Sessions, NEW k \in {"stop", "recover"}, Deliver(s, k, e)
      PROVE  SelectionChangeNotLost'
  <2>1. /\ UNCHANGED <<pc, genSel, selection, cpc>>
        /\ posted' = posted \ {[loop |-> s, kind |-> k, ev |-> e]}
        /\ recEv' = [recEv EXCEPT ![e] = @ \/ k = "recover"]
    BY <1>1 DEF Deliver, mgrVars, callVars
  <2>2. recEv \in [Sessions -> BOOLEAN]
    BY DEF RuntimeInv, TypeOK, SessionTypeOK
  <2>3. ASSUME NEW t \in Sessions, recEv[t] PROVE recEv'[t]
    BY <2>1, <2>2, <2>3
  <2>4. ASSUME NEW t \in Sessions, [loop |-> t, kind |-> "recover", ev |-> t] \in posted
        PROVE  recEv'[t] \/ [loop |-> t, kind |-> "recover", ev |-> t] \in posted'
    <3>1. CASE [loop |-> t, kind |-> "recover", ev |-> t] = [loop |-> s, kind |-> k, ev |-> e]
      <4>1. k = "recover" /\ e = t
        BY <3>1
      <4>2. QED  BY <2>1, <2>2, <4>1
    <3>2. CASE [loop |-> t, kind |-> "recover", ev |-> t] # [loop |-> s, kind |-> k, ev |-> e]
      BY <2>1, <2>4, <3>2
    <3>3. QED  BY <3>1, <3>2
  <2>5. QED  BY <2>1, <2>3, <2>4 DEF SelectionChangeNotLost
<1>2. CASE \/ \E s \in Sessions : EnsureKeepalive(s)
           \/ WorkerUnwinds \/ EnvironmentSettles
  BY <1>2 DEF EnsureKeepalive, WorkerUnwinds, EnvironmentSettles, mgrVars, sesVars, callVars,
     SelectionChangeNotLost
<1>3. QED  BY <1>1, <1>2 DEF OtherStep

LEMMA NextByRole ==
    ASSUME Next
    PROVE  \/ \E c \in Callers : (c \in Controllers /\ ControllerStep(c)) \/ (c \in Selectors /\ SelectorStep(c))
           \/ \E s \in Sessions : SessionStep(s)
           \/ OtherStep
BY DEF Next, ControllerStep, SelectorStep, OtherStep, Callers

LEMMA InitEvents == Init => EventsInv /\ SelectionChangeNotLost
BY DEF Init, EventsInv, SelectionChangeNotLost, LoopPoints, BuildPoints, TaskPoints, ClosePoints

LEMMA StepSelection ==
    RuntimeInv /\ EventsInv /\ SelectionChangeNotLost /\ [Next]_vars => SelectionChangeNotLost'
<1>1. ASSUME UNCHANGED vars, SelectionChangeNotLost PROVE SelectionChangeNotLost'
  BY <1>1 DEF vars, mgrVars, sesVars, callVars, SelectionChangeNotLost
<1>2. QED  BY <1>1, NextByRole, CallSelection, SessionSelection, OtherSelection

\* set_outbound_selection() is never lost, however it meets a generation that is
\* being built, torn down or stopped: for any number of callers and selections.
THEOREM SelectionsTakeEffect == Spec => []SelectionChangeNotLost
<1>1. QED
  BY InitInv, NextInv, InitEvents, StepEvents, StepSelection, PTL DEF Spec

(***************************************************************************)
(* Induction over the naturals, for a set of them.                         *)
(***************************************************************************)
LEMMA SetInduction ==
    ASSUME NEW S \in SUBSET Nat, 0 \in S, \A n \in S : n + 1 \in S
    PROVE  S = Nat
<1>1. SUFFICES ASSUME Nat \ S # {} PROVE FALSE
  OBVIOUS
<1>2. PICK m \in Nat \ S : \A k \in Nat \ S : ~(<<k, m>> \in OpToRel(<, Nat))
  BY <1>1, NatLessThanWellFounded, WFMin
<1>3. m # 0 /\ m - 1 \in Nat /\ m - 1 < m /\ (m - 1) + 1 = m
  OBVIOUS
<1>4. <<m - 1, m>> \in OpToRel(<, Nat)
  BY <1>3 DEF OpToRel
<1>5. m - 1 \in S
  BY <1>2, <1>3, <1>4
<1>6. QED  BY <1>3, <1>5

\* A function of the naturals may be defined by its first value and by the
\* next one that each value has.
Iterates(f, X, a, g) == f \in [Nat -> X] /\ f[0] = a /\ \A n \in Nat : f[n + 1] = g[f[n]]

LEMMA Recursion ==
    ASSUME NEW X, NEW a \in X, NEW g \in [X -> X]
    PROVE  \E f : Iterates(f, X, a, g)
<1> DEFINE Upto(n, h) == h \in [0..n -> X] /\ h[0] = a /\ \A i \in 0..n : i + 1 \in 0..n => h[i + 1] = g[h[i]]
           S == {n \in Nat : \E h : Upto(n, h)}
           Agree(n) == \A m, k \in Nat : \A h, j : n <= m /\ n <= k /\ Upto(m, h) /\ Upto(k, j) => h[n] = j[n]
           Same == {n \in Nat : Agree(n)}
<1>1. S = Nat
  <2>1. Upto(0, [i \in 0..0 |-> a])
    OBVIOUS
  <2>2. ASSUME NEW n \in S PROVE n + 1 \in S
    <3>1. PICK h : Upto(n, h)
      OBVIOUS
    <3> DEFINE j == [i \in 0..(n + 1) |-> IF i = n + 1 THEN g[h[n]] ELSE h[i]]
    <3>2. h[n] \in X /\ g[h[n]] \in X
      BY <3>1
    <3>3. \A i \in 0..(n + 1) : i # n + 1 => i \in 0..n /\ h[i] \in X
      BY <3>1
    <3>4. j \in [0..(n + 1) -> X]
      BY <3>2, <3>3
    <3>5. j[0] = a
      BY <3>1
    <3>6. ASSUME NEW i \in 0..(n + 1), i + 1 \in 0..(n + 1) PROVE j[i + 1] = g[j[i]]
      <4>1. CASE i = n
        BY <4>1
      <4>2. CASE i # n
        <5>1. i \in 0..n /\ i + 1 \in 0..n /\ i + 1 # n + 1 /\ i # n + 1
          BY <3>6, <4>2
        <5>2. j[i] = h[i] /\ j[i + 1] = h[i + 1]
          BY <3>6, <5>1
        <5>3. QED  BY <3>1, <5>1, <5>2
      <4>3. QED  BY <4>1, <4>2
    <3>7. Upto(n + 1, j)
      BY <3>4, <3>5, <3>6
    <3>8. QED  BY <3>7
  <2> HIDE DEF Upto
  <2>3. 0 \in S
    BY <2>1
  <2>4. S \in SUBSET Nat
    OBVIOUS
  <2> HIDE DEF S
  <2>5. QED  BY <2>2, <2>3, <2>4, SetInduction
<1>2. Same = Nat
  <2>1. 0 \in Same
    OBVIOUS
  <2> HIDE DEF Upto
  <2>2. ASSUME NEW n \in Same PROVE n + 1 \in Same
    <3>0. n + 1 \in Nat /\ n \in Nat /\ Agree(n)
      BY <2>2
    <3>1. SUFFICES ASSUME NEW m \in Nat, NEW k \in Nat, NEW h, NEW j, n + 1 <= m, n + 1 <= k, Upto(m, h), Upto(k, j)
                   PROVE  h[n + 1] = j[n + 1]
      BY <3>0
    <3>2. n <= m /\ n <= k /\ n \in 0..m /\ n + 1 \in 0..m /\ n \in 0..k /\ n + 1 \in 0..k
      BY <3>0, <3>1
    <3>3. h[n] = j[n]
      BY <3>0, <3>1, <3>2
    <3>4. h[n + 1] = g[h[n]] /\ j[n + 1] = g[j[n]]
      BY <3>1, <3>2 DEF Upto
    <3>5. QED  BY <3>3, <3>4
  <2>3. Same \in SUBSET Nat
    OBVIOUS
  <2> HIDE DEF Same
  <2>4. QED  BY <2>1, <2>2, <2>3, SetInduction
<1> DEFINE H(n) == CHOOSE h : Upto(n, h)
           f == [n \in Nat |-> H(n)[n]]
<1>3. \A n \in Nat : Upto(n, H(n))
  <2> HIDE DEF Upto
  <2>1. QED  BY <1>1
<1>4. f \in [Nat -> X]
  <2>1. \A n \in Nat : n \in 0..n
    OBVIOUS
  <2>2. \A n \in Nat : H(n)[n] \in X
    <3> HIDE DEF H
    <3>1. QED  BY <1>3, <2>1
  <2> HIDE DEF H
  <2>3. QED  BY <2>2
<1>5. f[0] = a
  <2> HIDE DEF H
  <2>1. QED  BY <1>3
<1>6. ASSUME NEW n \in Nat PROVE f[n + 1] = g[f[n]]
  <2>1. n + 1 \in Nat /\ n <= n /\ n <= n + 1 /\ n \in 0..(n + 1) /\ n + 1 \in 0..(n + 1)
    OBVIOUS
  <2>2. Upto(n, H(n)) /\ Upto(n + 1, H(n + 1))
    BY <1>3, <2>1
  <2>3. H(n)[n] = H(n + 1)[n]
    <3> HIDE DEF Upto, H
    <3>1. Agree(n)
      BY <1>2
    <3>2. QED  BY <2>1, <2>2, <3>1
  <2>4. H(n + 1)[n + 1] = g[H(n + 1)[n]]
    <3> HIDE DEF H
    <3>1. QED  BY <2>1, <2>2
  <2>5. f[n] = H(n)[n] /\ f[n + 1] = H(n + 1)[n + 1]
    <3> HIDE DEF Upto, H
    <3>1. QED  BY <2>1
  <2>6. QED  BY <2>3, <2>4, <2>5
<1>7. QED
  <2> HIDE DEF f
  <2>1. QED  BY <1>4, <1>5, <1>6 DEF Iterates

LEMMA MinIs ==
    ASSUME NEW a \in Nat, NEW b \in Nat
    PROVE  Min({a, b}) = IF a <= b THEN a ELSE b
<1>1. \E x \in {a, b} : \A y \in {a, b} : x <= y
  BY SMT
<1>2. QED
  BY <1>1 DEF Min

LEMMA Larger ==
    ASSUME NEW x \in Nat, NEW y \in Nat, NEW b \in Nat \ {0}, x <= y
    PROVE  x * b \in Nat /\ x * b <= y * b /\ x <= x * b
<1>1. x * b \in Nat /\ y * b \in Nat
  OBVIOUS
<1>2. PICK d \in Nat : y = x + d
  <2>1. y - x \in Nat /\ y = x + (y - x)
    OBVIOUS
  <2>2. QED  BY <2>1
<1>3. y * b = x * b + d * b /\ d * b \in Nat
  BY <1>2
<1>4. PICK k \in Nat : b = k + 1
  <2>1. b - 1 \in Nat /\ b = (b - 1) + 1
    OBVIOUS
  <2>2. QED  BY <2>1
<1>5. x * b = x * k + x /\ x * k \in Nat
  BY <1>4
<1>6. QED  BY <1>1, <1>3, <1>5

LEMMA ScaledStep ==
    /\ ScaledDelay \in [Nat -> Nat]
    /\ ScaledDelay[0] = InitialDelay
    /\ \A n \in Nat : ScaledDelay[n + 1] = Min({ScaledDelay[n] * Backoff, MaxDelay})
<1> DEFINE g == [x \in Nat |-> Min({x * Backoff, MaxDelay})]
           Def(h) == [n \in Nat |-> IF n = 0 THEN InitialDelay ELSE Min({h[n - 1] * Backoff, MaxDelay})]
<1>1. InitialDelay \in Nat /\ Backoff \in Nat /\ MaxDelay \in Nat
  BY RuntimeAssumption
<1>2. g \in [Nat -> Nat]
  <2>1. \A x \in Nat : x * Backoff \in Nat
    BY <1>1
  <2>2. QED  BY <1>1, <2>1, MinOfTwo
<1>3. PICK f \in [Nat -> Nat] : f[0] = InitialDelay /\ \A n \in Nat : f[n + 1] = g[f[n]]
  <2> HIDE DEF g, Def
  <2>1. InitialDelay \in Nat
    BY <1>1
  <2>2. \E f : Iterates(f, Nat, InitialDelay, g)
    BY <1>2, <2>1, Recursion
  <2>3. QED  BY <2>2 DEF Iterates
<1>4. f = Def(f)
  <2>1. ASSUME NEW n \in Nat PROVE f[n] = Def(f)[n]
    <3>1. CASE n = 0
      BY <1>3, <3>1
    <3>2. CASE n # 0
      <4>1. n - 1 \in Nat /\ (n - 1) + 1 = n
        BY <3>2
      <4>2. f[n] = g[f[n - 1]] /\ f[n - 1] \in Nat
        <5> HIDE DEF g
        <5>1. QED  BY <1>3, <4>1
      <4>3. QED  BY <3>2, <4>2
    <3>3. QED  BY <3>1, <3>2
  <2> DEFINE d == Def(f)
  <2>2. d = [n \in Nat |-> d[n]]
    OBVIOUS
  <2>3. f = [n \in Nat |-> f[n]]
    OBVIOUS
  <2>4. \A n \in Nat : f[n] = d[n]
    BY <2>1
  <2> HIDE DEF d
  <2>5. f = d
    BY <2>2, <2>3, <2>4
  <2>6. QED  BY <2>5 DEF d
<1>5. ScaledDelay = Def(ScaledDelay)
  BY <1>4 DEF ScaledDelay
<1> DEFINE s == ScaledDelay
<1>6. s[0] = InitialDelay /\ \A n \in Nat : n # 0 => s[n] = Min({s[n - 1] * Backoff, MaxDelay})
  <2> HIDE DEF s
  <2>1. s = Def(s)
    BY <1>5 DEF s
  <2>2. QED  BY <2>1
<1>7. ASSUME NEW n \in Nat PROVE s[n + 1] = Min({s[n] * Backoff, MaxDelay})
  <2>1. n + 1 \in Nat /\ n + 1 # 0 /\ (n + 1) - 1 = n
    OBVIOUS
  <2> HIDE DEF s
  <2>2. s[n + 1] = Min({s[(n + 1) - 1] * Backoff, MaxDelay})
    BY <1>6, <2>1
  <2>3. QED  BY <2>1, <2>2
<1>8. \A n \in Nat : s[n] \in Nat
  <2> DEFINE S == {n \in Nat : s[n] \in Nat}
  <2> HIDE DEF s
  <2>1. 0 \in S
    BY <1>1, <1>6
  <2>2. ASSUME NEW n \in S PROVE n + 1 \in S
    <3>0. n \in Nat /\ n + 1 \in Nat /\ s[n] \in Nat
      OBVIOUS
    <3>1. s[n] * Backoff \in Nat
      BY <1>1, <3>0
    <3>2. s[n + 1] \in Nat
      BY <1>1, <1>7, <3>0, <3>1, MinOfTwo, Zenon
    <3>3. QED  BY <3>0, <3>2
  <2>3. S \in SUBSET Nat
    OBVIOUS
  <2>4. S = Nat
    <3> HIDE DEF S
    <3>1. QED  BY <2>1, <2>2, <2>3, SetInduction
  <2>5. QED  BY <2>4
<1>9. s = [n \in Nat |-> s[n]]
  <2> HIDE DEF s
  <2>1. s = Def(s)
    BY <1>5 DEF s
  <2> DEFINE d == Def(s)
  <2>2. d = [n \in Nat |-> d[n]]
    OBVIOUS
  <2> HIDE DEF d
  <2>3. s = d
    BY <2>1 DEF d
  <2>4. QED  BY <2>2, <2>3
<1>10. s \in [Nat -> Nat]
  <2> HIDE DEF s
  <2>1. QED  BY <1>8, <1>9
<1>11. QED  BY <1>6, <1>7, <1>10

\* It grows with the failures and never exceeds the maximum.
LEMMA ScaledGrows ==
    /\ \A n \in Nat : ScaledDelay[n] \in Nat /\ InitialDelay <= ScaledDelay[n] /\ ScaledDelay[n] <= MaxDelay
    /\ \A n \in Nat : ScaledDelay[n] <= ScaledDelay[n + 1]
<1>0. /\ InitialDelay \in Nat /\ Backoff \in Nat \ {0} /\ MaxDelay \in Nat /\ InitialDelay <= MaxDelay
  BY RuntimeAssumption
<1> DEFINE s == ScaledDelay
<1>1. s \in [Nat -> Nat] /\ s[0] = InitialDelay /\ \A n \in Nat : s[n + 1] = Min({s[n] * Backoff, MaxDelay})
  BY ScaledStep
<1> HIDE DEF s
<1>2. ASSUME NEW n \in Nat, s[n] <= MaxDelay PROVE s[n] <= s[n + 1] /\ s[n + 1] <= MaxDelay
  <2>1. s[n] \in Nat
    BY <1>1
  <2>2. s[n] <= s[n] * Backoff /\ s[n] * Backoff \in Nat
    BY <1>0, <2>1, Larger
  <2>3. s[n + 1] = IF s[n] * Backoff <= MaxDelay THEN s[n] * Backoff ELSE MaxDelay
    BY <1>0, <1>1, <2>2, MinIs
  <2>4. QED  BY <1>0, <1>2, <2>1, <2>2, <2>3
<1> DEFINE S == {n \in Nat : InitialDelay <= s[n] /\ s[n] <= MaxDelay}
<1>3. 0 \in S
  BY <1>0, <1>1
<1>4. ASSUME NEW n \in S PROVE n + 1 \in S
  <2>1. n \in Nat /\ s[n] \in Nat /\ s[n + 1] \in Nat /\ n + 1 \in Nat
    BY <1>1
  <2>2. s[n] <= s[n + 1] /\ s[n + 1] <= MaxDelay
    BY <1>2
  <2>3. QED  BY <1>0, <2>1, <2>2
<1>5. S \in SUBSET Nat
  OBVIOUS
<1>6. S = Nat
  <2> HIDE DEF S
  <2>1. QED  BY <1>3, <1>4, <1>5, SetInduction
<1>7. \A n \in Nat : s[n] \in Nat /\ InitialDelay <= s[n] /\ s[n] <= MaxDelay
  BY <1>1, <1>6
<1>8. \A n \in Nat : s[n] <= s[n + 1]
  BY <1>2, <1>7
<1>9. QED  BY <1>7, <1>8 DEF s

\* Where the failure that ended a generation is in consecutive, and where the
\* delay is already the one of the next failure.
Counted(s) ==
    \/ pc[s] \in {"decide", "backoff", "paused"}
    \/ pc[s] \in ClosePoints /\ cause[s] = "change"
Delayed(s) ==
    \/ pc[s] \in {"none", "new", "boot", "latch", "top", "refresh", "select", "handle", "dead"} \cup BuildPoints
    \/ pc[s] \in ClosePoints /\ cause[s] = "startFailed"

DelayOf(s) ==
    /\ InitialDelay <= delay[s]
    /\ pc[s] \in ClosePoints => cause[s] # "none"
    /\ Delayed(s) => ScaledDelay[consec[s]] <= delay[s] /\ delay[s] <= ScaledDelay[consec[s] + 1]
    /\ Counted(s) => /\ delay[s] <= ScaledDelay[consec[s]]
                     /\ consec[s] > 0 => ScaledDelay[consec[s] - 1] <= delay[s]
DelayInv == \A s \in Sessions : DelayOf(s)

\* The delay of one more failure, which is where EndBackoff takes it.
LEMMA NextDelay ==
    ASSUME NEW n \in Nat, NEW d \in Nat, InitialDelay <= d, d <= ScaledDelay[n],
           n > 0 => ScaledDelay[n - 1] <= d
    PROVE  /\ Min({d * Backoff, MaxDelay}) \in Nat
           /\ ScaledDelay[n] <= Min({d * Backoff, MaxDelay})
           /\ Min({d * Backoff, MaxDelay}) <= ScaledDelay[n + 1]
           /\ InitialDelay <= Min({d * Backoff, MaxDelay})
<1> DEFINE e == Min({d * Backoff, MaxDelay})
           s == ScaledDelay
<1>0. /\ InitialDelay \in Nat /\ Backoff \in Nat \ {0} /\ MaxDelay \in Nat /\ InitialDelay <= MaxDelay
  BY RuntimeAssumption
<1>1. /\ s \in [Nat -> Nat] /\ s[0] = InitialDelay
      /\ \A m \in Nat : s[m + 1] = Min({s[m] * Backoff, MaxDelay})
  BY ScaledStep
<1>2. \A m \in Nat : s[m] \in Nat /\ InitialDelay <= s[m] /\ s[m] <= MaxDelay
  BY ScaledGrows
<1>3. d <= s[n] /\ (n > 0 => s[n - 1] <= d)
  OBVIOUS
<1> HIDE DEF s
<1>4. \A x, y \in Nat : x <= y => Min({x * Backoff, MaxDelay}) <= Min({y * Backoff, MaxDelay})
  <2> SUFFICES ASSUME NEW x \in Nat, NEW y \in Nat, x <= y
               PROVE  Min({x * Backoff, MaxDelay}) <= Min({y * Backoff, MaxDelay})
    OBVIOUS
  <2> DEFINE p == x * Backoff
             q == y * Backoff
  <2>1. p \in Nat /\ q \in Nat /\ p <= q
    BY <1>0, Larger
  <2> HIDE DEF p, q
  <2>2. Min({p, MaxDelay}) = (IF p <= MaxDelay THEN p ELSE MaxDelay) /\ Min({q, MaxDelay}) = IF q <= MaxDelay THEN q ELSE MaxDelay
    BY <1>0, <2>1, MinIs
  <2>3. Min({p, MaxDelay}) <= Min({q, MaxDelay})
    BY <1>0, <2>1, <2>2
  <2>4. QED  BY <2>3 DEF p, q
<1>5. e \in Nat /\ InitialDelay <= e
  <2> DEFINE p == d * Backoff
  <2>1. p \in Nat /\ d <= p
    BY <1>0, Larger
  <2> HIDE DEF p
  <2>2. Min({p, MaxDelay}) = IF p <= MaxDelay THEN p ELSE MaxDelay
    BY <1>0, <2>1, MinIs
  <2>3. Min({p, MaxDelay}) \in Nat /\ InitialDelay <= Min({p, MaxDelay})
    BY <1>0, <2>1, <2>2
  <2>4. QED  BY <2>3 DEF p
<1>6. e <= s[n + 1]
  BY <1>1, <1>2, <1>3, <1>4
<1>7. s[n] <= e
  <2>1. CASE n = 0
    BY <1>1, <1>5, <2>1
  <2>2. CASE n # 0
    <3>1. n - 1 \in Nat /\ (n - 1) + 1 = n /\ n > 0
      BY <2>2
    <3>2. s[n] = Min({s[n - 1] * Backoff, MaxDelay}) /\ s[n - 1] \in Nat /\ s[n - 1] <= d
      BY <1>1, <1>2, <1>3, <3>1
    <3>3. QED  BY <1>4, <3>2
  <2>3. QED  BY <2>1, <2>2
<1>8. QED  BY <1>5, <1>6, <1>7 DEF s

\* A thread's step is about its own count and delay.
LEMMA SessionOwn ==
    ASSUME TypeOK, NEW s \in Sessions, SessionStep(s), NEW t \in Sessions, t # s
    PROVE  pc'[t] = pc[t] /\ consec'[t] = consec[t] /\ delay'[t] = delay[t] /\ cause'[t] = cause[t]
<1> USE DEF GoSession, mgrVars, sesVars, TypeOK, SessionTypeOK, CountFailure
<1>1. CASE Supervise(s)
  BY <1>1 DEF Supervise, ThreadBoot, InstallEvents, ReadLatch, LoopTop, HandleStartFailure, Decide,
     EndBackoff, EndPause, SuperviseExit, ThreadExit
<1>2. CASE StartGeneration(s)
  BY <1>2 DEF StartGeneration, RefreshInterfaces, SelectOutbound, BindSOCKS, BindHTTP, BindWPAD,
     BindPort, VerifyListeners
<1>3. CASE WaitForChange(s) \/ StopGeneration(s)
  BY <1>3 DEF WaitForChange, SeeStop, SeeChange, StopGeneration, CloseSOCKS, CloseHTTP, CloseWPAD,
     CloseListener, AfterClose
<1>4. QED  BY <1>1, <1>2, <1>3 DEF SessionStep

LEMMA SessionDelay ==
    ASSUME RuntimeInv, NEW s \in Sessions, DelayOf(s), SessionStep(s)
    PROVE  DelayOf(s)'
<1>0. /\ pc \in [Sessions -> SessionPoints] /\ consec \in [Sessions -> 0..MaxRestarts]
      /\ delay \in [Sessions -> Nat] /\ cause \in [Sessions -> {"none", "startFailed", "change", "stop"}]
      /\ consec[s] \in Nat /\ delay[s] \in Nat
  BY RuntimeAssumption DEF RuntimeInv, TypeOK, SessionTypeOK
<1>i. InitialDelay \in Nat /\ ScaledDelay[0] = InitialDelay
  BY RuntimeAssumption, ScaledStep
<1>g. \A n \in Nat : ScaledDelay[n] \in Nat /\ InitialDelay <= ScaledDelay[n] /\ ScaledDelay[n] <= ScaledDelay[n + 1]
  BY ScaledGrows
<1> USE <1>0 DEF DelayOf, Counted, Delayed, GoSession, BuildPoints, TaskPoints, ClosePoints, sesVars
<1>1. CASE Supervise(s)
  <2>1. CASE ThreadBoot(s)      BY <2>1 DEF ThreadBoot
  <2>2. CASE InstallEvents(s)   BY <2>2 DEF InstallEvents
  <2>3. CASE ReadLatch(s)       BY <2>3 DEF ReadLatch
  <2>4. CASE LoopTop(s)         BY <2>4 DEF LoopTop
  <2>5. CASE HandleStartFailure(s)
    BY <2>5, <1>g DEF HandleStartFailure, CountFailure
  <2>6. CASE Decide(s)          BY <2>6, <1>i DEF Decide
  <2>7. CASE EndBackoff(s)
    <3>1. pc[s] = "backoff" /\ pc' = [pc EXCEPT ![s] = "top"] /\ UNCHANGED <<consec, cause>>
          /\ delay' = [delay EXCEPT ![s] = Min({delay[s] * Backoff, MaxDelay})]
      BY <2>7 DEF EndBackoff
    <3>2. /\ delay[s] <= ScaledDelay[consec[s]] /\ (consec[s] > 0 => ScaledDelay[consec[s] - 1] <= delay[s])
          /\ InitialDelay <= delay[s]
      BY <3>1
    <3> DEFINE e == Min({delay[s] * Backoff, MaxDelay})
    <3>3. e \in Nat /\ ScaledDelay[consec[s]] <= e /\ e <= ScaledDelay[consec[s] + 1] /\ InitialDelay <= e
      BY <3>2, NextDelay
    <3>4. pc'[s] = "top" /\ delay'[s] = e /\ consec'[s] = consec[s]
      BY <3>1
    <3> HIDE DEF e
    <3>5. QED  BY <3>3, <3>4
  <2>8. CASE EndPause(s)
    BY <2>8, <1>i, <1>g DEF EndPause
  <2>9. CASE SuperviseExit(s)   BY <2>9 DEF SuperviseExit
  <2>10. CASE ThreadExit(s)     BY <2>10, <1>i, <1>g DEF ThreadExit
  <2>11. QED
    BY <1>1, <2>1, <2>2, <2>3, <2>4, <2>5, <2>6, <2>7, <2>8, <2>9, <2>10 DEF Supervise
<1>2. CASE StartGeneration(s)
  BY <1>2 DEF StartGeneration, RefreshInterfaces, SelectOutbound, BindSOCKS, BindHTTP, BindWPAD,
     BindPort, VerifyListeners
<1>3. CASE WaitForChange(s)
  BY <1>3, <1>g DEF WaitForChange, SeeStop, SeeChange, CountFailure
<1>4. CASE StopGeneration(s)
  BY <1>4 DEF StopGeneration, CloseSOCKS, CloseHTTP, CloseWPAD, CloseListener, AfterClose
<1>5. QED  BY <1>1, <1>2, <1>3, <1>4 DEF SessionStep

LEMMA StepDelay == RuntimeInv /\ DelayInv /\ [Next]_vars => DelayInv'
<1> SUFFICES ASSUME RuntimeInv, DelayInv, [Next]_vars PROVE DelayInv'
  OBVIOUS
<1> USE DEF DelayInv
<1>1. ASSUME NEW s \in Sessions, SessionStep(s) PROVE DelayInv'
  <2>1. DelayOf(s)'
    BY <1>1, SessionDelay
  <2>2. ASSUME NEW t \in Sessions, t # s PROVE DelayOf(t)'
    BY <1>1, <2>2, SessionOwn DEF DelayOf, Counted, Delayed, RuntimeInv
  <2>3. QED  BY <2>1, <2>2
<1>2. ASSUME NEW c \in Callers, CallStep(c) PROVE DelayInv'
  <2>1. UNCHANGED <<consec, delay, cause>>
    BY <1>2 DEF CallStep, StartStep, StopStep, RecoverStep, StartEnter, StopCall,
       StartState, StartKeepalive, StartThread, StartReturns, StartTimesOut, StopLatch,
       StopPost, StopCapture, StopJoin, StopKeepalive, StopCheck, StopRelease,
       RecoverCall, SetOutbound, RecoverCheck, RecoverPost, sesVars
  <2>2. CASE UNCHANGED pc
    BY <2>1, <2>2 DEF DelayOf, Counted, Delayed
  <2>3. CASE nsess + 1 \in Sessions /\ pc' = [pc EXCEPT ![nsess + 1] = "new"]
    <3>1. pc[nsess + 1] = "none" /\ pc \in [Sessions -> SessionPoints]
      BY <2>3 DEF RuntimeInv, NumberingInv, TypeOK, SessionTypeOK, Sessions
    <3>2. \A t \in Sessions : Delayed(t)' <=> Delayed(t)
      BY <2>1, <2>3, <3>1 DEF Delayed, ClosePoints
    <3>3. \A t \in Sessions : Counted(t)' <=> Counted(t)
      BY <2>1, <2>3, <3>1 DEF Counted, ClosePoints
    <3>4. \A t \in Sessions : pc'[t] \in ClosePoints => pc[t] \in ClosePoints
      BY <2>3, <3>1 DEF ClosePoints
    <3>5. QED  BY <2>1, <3>2, <3>3, <3>4 DEF DelayOf
  <2>4. QED  BY <1>2, <2>2, <2>3, CallMovesPc
<1>3. CASE OtherStep \/ UNCHANGED vars
  <2>1. UNCHANGED <<pc, consec, delay, cause>>
    BY <1>3 DEF OtherStep, EnsureKeepalive, Deliver, WorkerUnwinds, EnvironmentSettles, vars, sesVars
  <2>2. QED  BY <2>1 DEF DelayOf, Counted, Delayed
<1>4. QED  BY <1>1, <1>2, <1>3, NextCases

LEMMA InitDelay == Init => DelayInv
<1>1. ScaledDelay[0] = InitialDelay /\ InitialDelay \in Nat /\ InitialDelay <= ScaledDelay[1]
  <2>1. 0 + 1 = 1 /\ 0 \in Nat
    OBVIOUS
  <2>2. ScaledDelay[0] <= ScaledDelay[0 + 1]
    BY <2>1, ScaledGrows
  <2>3. QED  BY <2>1, <2>2, ScaledStep, RuntimeAssumption
<1>2. QED
  BY <1>1 DEF Init, DelayInv, DelayOf, Counted, Delayed, ClosePoints

\* The delay fits the failures behind it, for any back-off factor and limits.
THEOREM BackoffFitsFailures == Spec => []BackoffMatchesFailures
<1>1. ASSUME RuntimeInv, DelayInv PROVE BackoffMatchesFailures
  <2>1. SUFFICES ASSUME NEW s \in Sessions, pc[s] = "backoff"
                 PROVE  /\ consec[s] < MaxRestarts
                        /\ delay[s] <= ScaledDelay[consec[s]]
                        /\ consec[s] > 0 => delay[s] >= ScaledDelay[consec[s] - 1]
    BY DEF BackoffMatchesFailures
  <2>2. consec[s] < MaxRestarts
    BY <1>1, <2>1 DEF RuntimeInv, CountInv, ClosePoints
  <2>3. /\ delay[s] <= ScaledDelay[consec[s]]
        /\ consec[s] > 0 => ScaledDelay[consec[s] - 1] <= delay[s]
    BY <1>1, <2>1 DEF DelayInv, DelayOf, Counted
  <2>4. ASSUME consec[s] > 0 PROVE delay[s] >= ScaledDelay[consec[s] - 1]
    <3>1. consec[s] \in Nat /\ delay[s] \in Nat
      BY <1>1, RuntimeAssumption DEF RuntimeInv, TypeOK, SessionTypeOK
    <3>2. consec[s] - 1 \in Nat
      BY <2>4, <3>1
    <3>3. ScaledDelay[consec[s] - 1] \in Nat
      BY <3>2, ScaledGrows
    <3>4. QED  BY <2>3, <2>4, <3>1, <3>3
  <2>5. QED  BY <2>2, <2>3, <2>4
<1>2. QED
  BY <1>1, InitInv, NextInv, InitDelay, StepDelay, PTL DEF Spec

(***************************************************************************)
(* One thread that calls start() and stop().                               *)
(***************************************************************************)
\* What its call knows, at each point, of the runtime and of the one it left.
TalkInv(c) ==
    /\ cpc[c] # "idle" => ret[c] = "none"
    /\ \A s \in Sessions : Alive(s) => s = nsess
    /\ cpc[c] \in StopPoints \ {"sLatch"} => latch
    /\ cpc[c] \in {"sJoin", "sKeep", "sCheck", "sRelease"} => cth[c] = thread
    /\ cpc[c] = "sRelease" => status = "Stopped" /\ ~Running
    /\ ret[c] = "stopped" => status = "Stopped" /\ thread = None
    /\ cpc[c] \in StartPoints => ~started
    /\ cpc[c] = "stWait" => nsess > 0 /\ (started => startErr \/ ~first[nsess])
    /\ ret[c] = "started" => nsess > 0 /\ ~first[nsess]

\* What a runtime thread's step may do to what start() waits for.
LEMMA SessionTells ==
    ASSUME TypeOK, NEW s \in Sessions, SessionStep(s)
    PROVE  /\ UNCHANGED latch
           /\ \A t \in Sessions : first'[t] => first[t]
           /\ startErr => startErr'
           /\ started' => started \/ startErr' \/ ~first'[s]
<1> USE DEF mgrVars, sesVars, TypeOK, SessionTypeOK, ManagerTypeOK, CountFailure
<1>1. CASE Supervise(s)
  BY <1>1 DEF Supervise, ThreadBoot, InstallEvents, ReadLatch, LoopTop, HandleStartFailure, Decide,
     EndBackoff, EndPause, SuperviseExit, ThreadExit
<1>2. CASE StartGeneration(s)
  BY <1>2 DEF StartGeneration, RefreshInterfaces, SelectOutbound, BindSOCKS, BindHTTP, BindWPAD,
     BindPort, VerifyListeners
<1>3. CASE WaitForChange(s) \/ StopGeneration(s)
  BY <1>3 DEF WaitForChange, SeeStop, SeeChange, StopGeneration, CloseSOCKS, CloseHTTP, CloseWPAD,
     CloseListener, AfterClose
<1>4. QED  BY <1>1, <1>2, <1>3 DEF SessionStep

LEMMA SessionTalk ==
    ASSUME RuntimeInv, NEW c \in Callers, TalkInv(c), NEW s \in Sessions, SessionStep(s)
    PROVE  TalkInv(c)'
<1>1. /\ Alive(s)
      /\ \E p \in SessionPoints \ {"none"} : pc' = [pc EXCEPT ![s] = p]
      /\ UNCHANGED <<thread, nsess, cpc, cth, ret>>
  BY SessionStepShape DEF RuntimeInv, callVars
<1>2. thread = s /\ s = nsess /\ Running /\ thread # None
  BY <1>1 DEF RuntimeInv, OwnerInv, TalkInv, Running, Sessions
<1>3. \A t \in Sessions : Alive(t)' => t = s
  BY <1>1 DEF RuntimeInv, OwnerInv, Alive, TypeOK, SessionTypeOK
<1>4. /\ UNCHANGED latch
      /\ first'[s] => first[s]
      /\ startErr => startErr'
      /\ started' => started \/ startErr' \/ ~first'[s]
  BY SessionTells DEF RuntimeInv
<1>5. cpc[c] \notin StartPoints /\ cpc[c] # "sRelease" /\ ret[c] # "stopped"
  BY <1>2 DEF TalkInv, RuntimeInv, StartHoldsLock
<1>6. QED
  BY <1>1, <1>2, <1>3, <1>4, <1>5 DEF TalkInv

LEMMA QuietTalk ==
    ASSUME NEW c \in Callers, TalkInv(c),
           UNCHANGED <<thread, latch, started, startErr, status, nsess, pc, first>>,
           cpc'[c] = cpc[c], cth'[c] = cth[c], ret'[c] = ret[c]
    PROVE  TalkInv(c)'
  BY DEF TalkInv, Alive, Running

LEMMA OtherTalk ==
    ASSUME NEW c \in Callers, TalkInv(c), OtherStep \/ UNCHANGED vars
    PROVE  TalkInv(c)'
<1>1. UNCHANGED <<thread, latch, started, startErr, status, nsess, pc, first, cpc, cth, ret>>
  BY DEF OtherStep, EnsureKeepalive, Deliver, WorkerUnwinds, EnvironmentSettles, vars, mgrVars,
     sesVars, callVars
<1>2. QED  BY <1>1, QuietTalk

LEMMA SelectorTalk ==
    ASSUME RuntimeInv, NEW c \in Callers, TalkInv(c), NEW d \in Callers, SelectorStep(d)
    PROVE  TalkInv(c)'
<1> USE DEF GoCaller, Return, mgrVars, sesVars
<1>1. UNCHANGED <<thread, latch, started, startErr, status, nsess, pc, first, cth>>
  BY DEF SelectorStep, RecoverStep, RecoverCall, SetOutbound, RecoverCheck, RecoverPost
<1>2. cpc \in [Callers -> CallPoints] /\ ret \in [Callers -> {"none", "started", "stopped", "failed"}]
  BY DEF RuntimeInv, TypeOK, CallTypeOK
<1>3. CASE c # d
  <2>1. cpc'[c] = cpc[c] /\ ret'[c] = ret[c]
    BY <1>2, <1>3 DEF SelectorStep, RecoverStep, RecoverCall, SetOutbound, RecoverCheck, RecoverPost
  <2>2. QED  BY <1>1, <2>1, QuietTalk
<1>4. CASE c = d
  <2>1. cpc'[c] \in {"idle", "rCheck", "rPost"} /\ ret'[c] \in {"none", "failed"}
        /\ (cpc'[c] # "idle" => ret'[c] = "none")
    BY <1>2, <1>4 DEF SelectorStep, RecoverStep, RecoverCall, SetOutbound, RecoverCheck, RecoverPost,
       TalkInv
  <2>2. QED
    BY <1>1, <2>1 DEF TalkInv, StopPoints, StartPoints, Alive
<1>5. QED  BY <1>3, <1>4

LEMMA ControllerTalk ==
    ASSUME RuntimeInv, NEW c \in Callers, TalkInv(c), ControllerStep(c)
    PROVE  TalkInv(c)'
<1>0. /\ cpc \in [Callers -> CallPoints] /\ ret \in [Callers -> {"none", "started", "stopped", "failed"}]
      /\ cth \in [Callers -> Sessions \cup {None}] /\ nsess \in Nat
      /\ started \in BOOLEAN /\ startErr \in BOOLEAN
  BY DEF RuntimeInv, TypeOK, CallTypeOK, ManagerTypeOK, SessionTypeOK
<1> USE <1>0 DEF TalkInv, GoCaller, Return, mgrVars, sesVars, StopPoints, StartPoints, Alive, Running
<1>1. ASSUME NEW sel \in Selections, StartEnter(c, sel) PROVE TalkInv(c)'
  BY <1>1 DEF StartEnter
<1>2. CASE StopCall(c)       BY <1>2 DEF StopCall
<1>3. CASE StartState(c)     BY <1>3 DEF StartState
<1>4. CASE StartKeepalive(c) BY <1>4 DEF StartKeepalive
<1>5. CASE StartThread(c)
  <2>1. /\ nsess + 1 \in Sessions /\ pc' = [pc EXCEPT ![nsess + 1] = "new"] /\ nsess' = nsess + 1
        /\ \A s \in Sessions : ~Alive(s)
        /\ cpc'[c] = "stWait" /\ ret'[c] = "none" /\ ~started /\ started' = started
    <3>1. \A s \in Sessions : ~Alive(s)
      BY <1>5 DEF RuntimeInv, StartHoldsLock, OwnerInv, Sessions, StartThread
    <3>2. nsess + 1 \in Sessions
      BY <1>5, RuntimeAssumption DEF RuntimeInv, StartHoldsLock, Sessions, StartThread
    <3>3. QED  BY <1>5, <3>1, <3>2 DEF StartThread
  <2>2. \A s \in Sessions : pc'[s] \notin {"none", "dead"} => s = nsess'
    BY <2>1 DEF RuntimeInv, TypeOK, SessionTypeOK
  <2>3. nsess' > 0
    BY <2>1
  <2>4. QED  BY <2>1, <2>2, <2>3
<1>6. CASE StartReturns(c)   BY <1>6 DEF StartReturns
<1>7. CASE StartTimesOut(c)  BY <1>7 DEF StartTimesOut
<1>8. CASE StopLatch(c)      BY <1>8 DEF StopLatch
<1>9. CASE StopPost(c)       BY <1>9 DEF StopPost
<1>10. CASE StopCapture(c)   BY <1>10 DEF StopCapture
<1>11. CASE StopJoin(c)      BY <1>11 DEF StopJoin
<1>12. CASE StopKeepalive(c) BY <1>12 DEF StopKeepalive
<1>13. CASE StopCheck(c)     BY <1>13 DEF StopCheck
<1>14. CASE StopRelease(c)   BY <1>14 DEF StopRelease
<1>15. QED
  BY <1>1, <1>2, <1>3, <1>4, <1>5, <1>6, <1>7, <1>8, <1>9, <1>10, <1>11, <1>12, <1>13, <1>14
     DEF ControllerStep, StartStep, StopStep

LEMMA TalkSaysTruth ==
    ASSUME RuntimeInv, NEW c, Controllers = {c}, TalkInv(c)
    PROVE  CallsTruthful
<1>1. JoinedRuntimeToldToStop
  BY DEF JoinedRuntimeToldToStop, TalkInv, StopPoints
<1>2. StopTrueMeansQuiet
  <2>1. ASSUME ret[c] = "stopped", NEW s \in Sessions PROVE ~Alive(s) /\ held[s] = {}
    <3>1. ~Alive(s)
      BY <2>1 DEF TalkInv, RuntimeInv, OwnerInv, Sessions
    <3>2. held[s] = {}
      BY <3>1 DEF Alive, RuntimeInv, HeldInv, BuildPoints, ClosePoints, TaskPoints
    <3>3. QED  BY <3>1, <3>2
  <2>2. QED  BY <2>1 DEF StopTrueMeansQuiet, TalkInv
<1>3. StartReturnMeansUp
  BY DEF StartReturnMeansUp, TalkInv
<1>4. QED  BY <1>1, <1>2, <1>3 DEF CallsTruthful

\* Calls of one thread do not overlap: then what start() and stop() wait for and
\* return is what the runtime thread does and did, whatever recover() and
\* set_outbound_selection() are called meanwhile.
THEOREM CallsTellTheTruth ==
    ASSUME NEW c, Controllers = {c}
    PROVE  Spec => []CallsTruthful
<1>0. c \in Callers /\ \A d \in Controllers : d = c
  BY DEF Callers
<1>1. Init => TalkInv(c)
  BY <1>0 DEF Init, TalkInv, StopPoints, StartPoints, Alive
<1>2. RuntimeInv /\ TalkInv(c) /\ [Next]_vars => TalkInv(c)'
  BY <1>0, NextByRole, ControllerTalk, SelectorTalk, SessionTalk, OtherTalk
<1>3. RuntimeInv /\ TalkInv(c) => CallsTruthful
  BY TalkSaysTruth
<1>4. QED
  BY <1>1, <1>2, <1>3, InitInv, NextInv, PTL DEF Spec
=============================================================================
