------------------------ MODULE Supervision_proofs ------------------------
(***************************************************************************)
(* Theorems about the parts of Supervision, for any bounds: the health     *)
(* monitor of a generation, the keepalive with its supervisors, the view   *)
(* of the Stable Mode, that of the Legacy Mode with its servers, and the   *)
(* log of the interfaces.  The last ones say that the composition keeps    *)
(* what each part promises.                                                *)
(***************************************************************************)
EXTENDS Supervision, FiniteSetTheorems, TLAPS

-----------------------------------------------------------------------------
(* HealthMonitor.  The invariant says at each await how many failed rounds *)
(* in a row the monitor's two counters stand for.                          *)

Counting == {"sleep", "probing", "gathered", "external"}

\* The count of failures is below its limit until a confirmation begins.
Counters ==
    /\ pc \in {"sleep", "probing", "gathered", "external", "confirming",
               "confirmed", "restart"}
    /\ failures \in 0..FailuresBeforeRecovery
    /\ pc \in Counting => failures < FailuresBeforeRecovery
    /\ pc \notin Counting => failures = FailuresBeforeRecovery
    /\ attempt \in 0..Attempts
    /\ pc = "confirming" => attempt < Attempts
    /\ badRounds \in 0..Enough

\* The failed rounds that failures and attempt stand for were in a row.
Evidence ==
    /\ pc \in {"sleep", "probing", "external"} => badRounds >= failures
    /\ pc = "gathered" => answered = Listeners \/ badRounds > failures
    /\ pc = "confirming" => badRounds >= FailuresBeforeRecovery + attempt
    /\ pc = "confirmed" => answered = Listeners \/ badRounds >= Enough
    /\ pc = "restart" => badRounds >= Enough

Sets ==
    /\ alive \subseteq Listeners /\ glitched \subseteq Listeners
    /\ answered \subseteq Listeners
    /\ full \in BOOLEAN /\ background \in BOOLEAN /\ warned \in BOOLEAN
    /\ pauses \in 0..MaxPauses

EvidenceInv == Counters /\ Evidence /\ Sets

LEMMA Bounds ==
  /\ FailuresBeforeRecovery \in Nat /\ FailuresBeforeRecovery > 0
  /\ Attempts \in Nat /\ Attempts > 0
  /\ GlitchesOf \subseteq SUBSET Listeners
  /\ MaxPauses \in Nat
  BY HealthAssumption

LEMMA InitEvidence == Init => EvidenceInv
<1> SUFFICES ASSUME Init PROVE EvidenceInv
  OBVIOUS
<1> USE Bounds
<1>1. Counters
  <2>1. failures = 0 /\ attempt = 0 /\ badRounds = 0 /\ pc = "sleep"
    BY DEF Init
  <2>2. 0 \in 0..FailuresBeforeRecovery /\ 0 \in 0..Attempts /\ 0 \in 0..Enough
    BY DEF Enough
  <2>3. QED  BY <2>1, <2>2 DEF Counters, Counting
<1>2. Evidence
  BY DEF Init, Evidence
<1>3. Sets
  <2>1. /\ alive \subseteq Listeners /\ glitched \subseteq Listeners
        /\ answered \subseteq Listeners
    BY DEF Init
  <2>2. full \in BOOLEAN /\ background \in BOOLEAN /\ warned \in BOOLEAN
    BY DEF Init
  <2>3. pauses \in 0..MaxPauses
    BY DEF Init
  <2>4. QED  BY <2>1, <2>2, <2>3 DEF Sets
<1>4. QED  BY <1>1, <1>2, <1>3 DEF EvidenceInv

\* A round that fails adds to the row, and one that does not ends it.
LEMMA ProbeEffect ==
  ASSUME EvidenceInv, Probe
  PROVE  /\ answered' \subseteq Listeners
         /\ badRounds' \in 0..Enough
         /\ answered' # Listeners =>
               badRounds' > badRounds \/ badRounds' = Enough
         /\ answered' # Listeners => badRounds' >= badRounds
<1> USE Bounds
<1>1. answered' \subseteq Listeners
  BY DEF EvidenceInv, Sets, Probe
<1>2. badRounds' = IF answered' = Listeners THEN 0
                   ELSE IF badRounds < Enough THEN badRounds + 1
                   ELSE badRounds
  BY DEF Probe
<1>3. QED  BY <1>1, <1>2 DEF EvidenceInv, Counters, Enough

LEMMA StepEvidence == EvidenceInv /\ [Next]_vars => EvidenceInv'
<1> SUFFICES ASSUME EvidenceInv, [Next]_vars PROVE EvidenceInv'
  OBVIOUS
<1> USE Bounds
<1>1. CASE UNCHANGED vars
  BY <1>1 DEF vars, envVars, EvidenceInv, Counters, Evidence, Sets
<1>2. CASE Dies \/ Glitches \/ Fills \/ EntersBackground \/ EntersForeground
  <2>1. /\ pc' = pc /\ answered' = answered /\ failures' = failures
        /\ warned' = warned /\ attempt' = attempt /\ badRounds' = badRounds
    BY <1>2 DEF Dies, Glitches, Fills, EntersBackground, EntersForeground,
       Others
  <2>2. Counters'
    BY <2>1 DEF EvidenceInv, Counters, Counting, Enough
  <2>3. Evidence'
    BY <2>1 DEF EvidenceInv, Evidence, Enough, Listeners
  <2>4. alive' \subseteq Listeners /\ glitched' \subseteq Listeners
    BY <1>2 DEF Dies, Glitches, Fills, EntersBackground, EntersForeground,
       EvidenceInv, Sets
  <2>5. full' \in BOOLEAN /\ background' \in BOOLEAN
    BY <1>2 DEF Dies, Glitches, Fills, EntersBackground, EntersForeground,
       EvidenceInv, Sets
  <2>6. pauses' \in 0..MaxPauses
    BY <1>2 DEF Dies, Glitches, Fills, EntersBackground, EntersForeground,
       EvidenceInv, Sets
  <2>7. Sets'
    BY <2>1, <2>4, <2>5, <2>6 DEF EvidenceInv, Sets
  <2>8. QED  BY <2>2, <2>3, <2>7 DEF EvidenceInv
<1>3. CASE Wakes
  <2>1. /\ pc = "sleep"
        /\ \/ pc' = "sleep" /\ failures' = 0 /\ warned' = FALSE
           \/ pc' = "probing" /\ failures' = failures /\ warned' = warned
        /\ UNCHANGED <<envVars, answered, attempt, badRounds>>
    BY <1>3 DEF Wakes
  <2>2. Counters'
    BY <2>1 DEF EvidenceInv, Counters, Counting, Enough
  <2>3. Evidence'
    BY <2>1 DEF EvidenceInv, Counters, Evidence, Enough
  <2>4. Sets'
    BY <2>1 DEF envVars, EvidenceInv, Sets
  <2>5. QED  BY <2>2, <2>3, <2>4 DEF EvidenceInv
<1>4. CASE Probed
  <2>1. answered' = Listeners \/ badRounds' > failures
    BY <1>4, ProbeEffect DEF Probed, EvidenceInv, Counters, Evidence,
       Counting, Enough
  <2>2. QED
    BY <1>4, <2>1, ProbeEffect DEF Probed, envVars, EvidenceInv, Counters,
       Evidence, Sets, Counting
<1>5. CASE Gathered
  <2>1. /\ pc = "gathered" /\ attempt' = 0
        /\ UNCHANGED <<envVars, answered, badRounds>>
    BY <1>5 DEF Gathered
  <2>2. \/ pc' \in AfterRound /\ failures' = 0 /\ warned' = FALSE
        \/ /\ answered # Listeners /\ warned' = TRUE
           /\ failures' = failures + 1
           /\ \/ failures + 1 >= FailuresBeforeRecovery /\ pc' = "confirming"
              \/ failures + 1 < FailuresBeforeRecovery /\ pc' \in AfterRound
    BY <1>5 DEF Gathered, EvidenceInv, Sets, Counters
  <2>3. AfterRound \subseteq {"sleep", "external"}
    BY DEF AfterRound
  <2>4. Counters'
    <3>1. CASE pc' \in AfterRound /\ failures' = 0
      BY <2>1, <2>3, <3>1 DEF EvidenceInv, Counters, Counting, Enough
    <3>2. CASE /\ failures' = failures + 1
               /\ failures + 1 >= FailuresBeforeRecovery /\ pc' = "confirming"
      BY <2>1, <3>2 DEF EvidenceInv, Counters, Counting, Enough
    <3>3. CASE /\ failures' = failures + 1 /\ pc' \in AfterRound
               /\ failures + 1 < FailuresBeforeRecovery
      BY <2>1, <2>3, <3>3 DEF EvidenceInv, Counters, Counting, Enough
    <3>4. QED  BY <2>2, <3>1, <3>2, <3>3
  <2>5. Evidence'
    BY <2>1, <2>2, <2>3 DEF EvidenceInv, Counters, Evidence, Counting, Enough
  <2>6. Sets'
    BY <2>1, <2>2 DEF envVars, EvidenceInv, Sets
  <2>7. QED  BY <2>4, <2>5, <2>6 DEF EvidenceInv
<1>6. CASE ConfirmProbed
  <2>1. /\ pc = "confirming" /\ attempt' = attempt + 1
        /\ UNCHANGED <<envVars, failures, warned>>
        /\ pc' = IF answered' = Listeners \/ attempt' = Attempts
                 THEN "confirmed" ELSE "confirming"
    BY <1>6 DEF ConfirmProbed
  <2>2. /\ answered' \subseteq Listeners /\ badRounds' \in 0..Enough
        /\ answered' = Listeners
              \/ badRounds' >= FailuresBeforeRecovery + attempt'
    BY <1>6, <2>1, ProbeEffect DEF ConfirmProbed, EvidenceInv, Counters,
       Evidence, Enough
  <2>3. QED
    BY <2>1, <2>2 DEF envVars, EvidenceInv, Counters, Evidence, Sets,
       Counting, Enough
<1>7. CASE Confirmed
  <2>1. AfterRound \subseteq {"sleep", "external"}
    BY DEF AfterRound
  <2>2. /\ pc = "confirmed" /\ UNCHANGED <<envVars, answered, attempt, badRounds>>
        /\ \/ pc' \in {"sleep", "external"} /\ failures' = 0 /\ warned' = FALSE
           \/ /\ answered # Listeners /\ pc' = "restart"
              /\ failures' = failures /\ warned' = warned
    BY <1>7, <2>1 DEF Confirmed
  <2>3. Counters'
    BY <2>2 DEF EvidenceInv, Counters, Counting, Enough
  <2>4. Evidence'
    BY <2>2 DEF EvidenceInv, Counters, Evidence, Enough
  <2>5. Sets'
    BY <2>2 DEF envVars, EvidenceInv, Sets
  <2>6. QED  BY <2>3, <2>4, <2>5 DEF EvidenceInv
<1>8. CASE ExternalChecked
  <2>1. Counters'
    BY <1>8 DEF ExternalChecked, envVars, EvidenceInv, Counters, Counting,
       Enough
  <2>2. Evidence'
    BY <1>8 DEF ExternalChecked, EvidenceInv, Evidence, Enough
  <2>3. Sets'
    BY <1>8 DEF ExternalChecked, envVars, EvidenceInv, Sets
  <2>4. QED  BY <2>1, <2>2, <2>3 DEF EvidenceInv
<1>9. CASE Restarted
  <2>1. Counters'
    BY <1>9 DEF Restarted, EvidenceInv, Counters, Counting, Enough
  <2>2. Evidence'
    BY <1>9 DEF Restarted, Evidence
  <2>3. Sets'
    BY <1>9 DEF Restarted, EvidenceInv, Sets
  <2>4. QED  BY <2>1, <2>2, <2>3 DEF EvidenceInv
<1>10. QED
  BY <1>1, <1>2, <1>3, <1>4, <1>5, <1>6, <1>7, <1>8, <1>9 DEF Next, Monitor

THEOREM EvidenceInvariant == Spec => []EvidenceInv
<1>1. QED  BY InitEvidence, StepEvidence, PTL DEF Spec

\* Every variable has its type, and the counters stay in their bounds.
THEOREM HealthTypeCorrect == Spec => []TypeOK
<1>1. EvidenceInv => TypeOK
  BY DEF EvidenceInv, Counters, Sets, TypeOK, Counting
<1>2. QED  BY EvidenceInvariant, <1>1, PTL

\* A restart follows FailuresBeforeRecovery failed rounds and Attempts failed
\* confirmations with no healthy round between.
THEOREM RestartsHaveEvidence == Spec => []RestartNeedsEvidence
<1>1. EvidenceInv => RestartNeedsEvidence
  BY DEF EvidenceInv, Evidence, RestartNeedsEvidence
<1>2. QED  BY EvidenceInvariant, <1>1, PTL

-----------------------------------------------------------------------------
(* Probes that fail together *)

AllOrNone ==
    /\ alive = Listeners /\ full = FALSE
    /\ glitched \in {{}, Listeners}
    /\ answered \in {{}, Listeners}
    /\ pc # "restart"

\* As long as SOCKS is never full, listeners that are alive are not restarted
\* for probes that fail all at once.
THEOREM LiveAreKept ==
  ASSUME ~MayFill
  PROVE  Spec => []LiveListenersKept
<1>1. CASE ~MayDie /\ GlitchesOf \subseteq {Listeners}
  <2>1. Init => AllOrNone
    BY DEF Init, AllOrNone
  <2>2. AllOrNone /\ [Next]_vars => AllOrNone'
    <3> SUFFICES ASSUME AllOrNone, [Next]_vars PROVE AllOrNone'
      OBVIOUS
    <3>1. CASE UNCHANGED vars
      BY <3>1 DEF vars, envVars, AllOrNone
    <3>2. CASE Dies \/ Glitches \/ Fills \/ EntersBackground
               \/ EntersForeground
      BY <1>1, <3>2 DEF Dies, Glitches, Fills, EntersBackground,
         EntersForeground, Others, AllOrNone
    <3>3. CASE Wakes \/ ExternalChecked \/ Restarted
      BY <3>3 DEF Wakes, ExternalChecked, Restarted, envVars, AllOrNone
    <3>4. CASE Probed \/ ConfirmProbed
      <4>1. answered' \in {{}, Listeners}
        BY <3>4 DEF Probed, ConfirmProbed, Probe, AllOrNone
      <4>2. QED
        BY <3>4, <4>1 DEF Probed, ConfirmProbed, envVars, AllOrNone
    <3>5. CASE Gathered \/ Confirmed
      <4>1. AfterRound \subseteq {"sleep", "external"}
        BY DEF AfterRound
      <4>2. pc' # "restart"
        BY <3>5, <4>1 DEF Gathered, Confirmed, Suppressed, AllOrNone
      <4>3. QED
        BY <3>5, <4>2 DEF Gathered, Confirmed, envVars, AllOrNone
    <3>6. QED
      BY <3>1, <3>2, <3>3, <3>4, <3>5 DEF Next, Monitor
  <2>3. AllOrNone => LiveListenersKept
    BY DEF AllOrNone, LiveListenersKept
  <2>4. QED  BY <2>1, <2>2, <2>3, PTL DEF Spec
<1>2. CASE ~(~MayDie /\ GlitchesOf \subseteq {Listeners})
  <2>1. LiveListenersKept
    BY <1>2 DEF LiveListenersKept
  <2>2. QED  BY <2>1, PTL
<1>3. QED  BY <1>1, <1>2

-----------------------------------------------------------------------------
(* Keepalive.  Without a join that timed out, the one supervisor that can  *)
(* be alive is the one that is joined, and the runtime is alive only while *)
(* the controller takes it to be.                                          *)

\* Where the controller has no supervisor.
Unsupervised == {"off", "started", "releasing"}
Stopping == {"joining supervisor", "releasing"}

ThreadsInv ==
    /\ supervisor \in [Supervisors -> {"none", "waiting", "woken", "ended"}]
    /\ supervisorThread \in Supervisors \cup {0}
    /\ supervisorStop \in BOOLEAN
    /\ controller \in Unsupervised => supervisorThread = 0
    /\ controller = "on" => supervisorThread # 0 /\ SupervisorAlive(supervisorThread) /\ ~supervisorStop

\* What a join that was waited for makes sure of.
JoinedInv ==
    ~lateJoin =>
        /\ \A t \in Supervisors : SupervisorAlive(t) => t = supervisorThread
        /\ controller \in Stopping \cup {"off", "started"} => ~runtime
        /\ controller = "off" => ~active /\ player = "none" /\ ~session

AudioInv == ThreadsInv /\ JoinedInv

LEMMA Numbered0 == 0 \notin Supervisors
<1>1. Supervisors = 1..Cardinality(Supervisors)
  BY KeepaliveAssumption
<1> DEFINE n == Cardinality(Supervisors)
<1>2. \A k : 0 \notin 1..k
  OBVIOUS
<1>3. QED  BY <1>1, <1>2

LEMMA InitAudio == KeepaliveInit => AudioInv
  BY DEF KeepaliveInit, AudioInv, ThreadsInv, JoinedInv, SupervisorAlive, Unsupervised, Stopping

\* Steps that leave the threads alone, and do not enter a place in which no
\* audio may be active.
LEMMA OthersAudio ==
  ASSUME AudioInv, UNCHANGED <<threads, lateJoin>>, runtime' => runtime,
         controller' = controller, controller = "off" /\ ~lateJoin => ~active' /\ player' = "none" /\ ~session'
  PROVE  AudioInv'
  BY DEF AudioInv, ThreadsInv, JoinedInv, threads, SupervisorAlive

LEMMA StepAudio == AudioInv /\ [KeepaliveNext]_keepaliveVars => AudioInv'
<1> SUFFICES ASSUME AudioInv, [KeepaliveNext]_keepaliveVars PROVE AudioInv'
  OBVIOUS
<1> USE Numbered0 DEF Unsupervised, Stopping
<1>1. CASE ControllerStarts
  <2>1. controller = "off" /\ ~runtime /\ controller' = "started"
        /\ UNCHANGED <<runtime, supervisor, supervisorThread, supervisorStop, lateJoin>>
    BY <1>1 DEF ControllerStarts, threads
  <2>2. QED  BY <2>1 DEF AudioInv, ThreadsInv, JoinedInv, SupervisorAlive
<1>2. CASE ControllerSupervises
  <2>1. controller = "started" /\ controller' = "on" /\ runtime' = TRUE /\ lateJoin' = lateJoin
    BY <1>2 DEF ControllerSupervises
  <2>2. supervisorThread = 0
    BY <2>1 DEF AudioInv, ThreadsInv
  <2>3. PICK t \in Supervisors : StartSupervisor(t)
    BY <1>2, <2>2 DEF ControllerSupervises
  <2>4. supervisor' = [supervisor EXCEPT ![t] = "waiting"] /\ supervisorThread' = t /\ supervisorStop' = FALSE
    BY <2>3 DEF StartSupervisor
  <2>5. supervisor' \in [Supervisors -> {"none", "waiting", "woken", "ended"}]
        /\ supervisor'[t] = "waiting" /\ \A u \in Supervisors : u # t => supervisor'[u] = supervisor[u]
    BY <2>4 DEF AudioInv, ThreadsInv
  <2>6. ThreadsInv'
    BY <2>1, <2>4, <2>5 DEF ThreadsInv, SupervisorAlive
  <2>7. JoinedInv'
    BY <2>1, <2>2, <2>4, <2>5 DEF AudioInv, JoinedInv, SupervisorAlive
  <2>8. QED  BY <2>6, <2>7 DEF AudioInv
<1>3. CASE ControllerStops
  <2>1. controller' = "joining runtime" /\ UNCHANGED <<runtime, supervisor, supervisorThread, supervisorStop, lateJoin>>
    BY <1>3 DEF ControllerStops, threads
  <2>2. QED  BY <2>1 DEF AudioInv, ThreadsInv, JoinedInv, SupervisorAlive
<1>4. CASE RuntimeJoined
  <2>1. controller' = "joining supervisor" /\ supervisorStop' = TRUE
        /\ UNCHANGED <<runtime, supervisor, supervisorThread>>
    BY <1>4 DEF RuntimeJoined
  <2>2. (~runtime /\ lateJoin' = lateJoin) \/ lateJoin' = TRUE
    BY <1>4 DEF RuntimeJoined, Joined
  <2>3. QED  BY <2>1, <2>2 DEF AudioInv, ThreadsInv, JoinedInv, SupervisorAlive
<1>5. CASE SupervisorJoined
  <2>1. controller = "joining supervisor" /\ controller' = "releasing" /\ supervisorThread' = 0
        /\ UNCHANGED <<runtime, supervisor, supervisorStop>>
    BY <1>5 DEF SupervisorJoined
  <2>2. (SupervisorOver /\ lateJoin' = lateJoin) \/ lateJoin' = TRUE
    BY <1>5 DEF SupervisorJoined, Joined
  <2>3. QED  BY <2>1, <2>2 DEF AudioInv, ThreadsInv, JoinedInv, SupervisorAlive, SupervisorOver
<1>6. CASE ControllerReleases
  <2>1. controller = "releasing" /\ controller' = "off"
        /\ UNCHANGED <<runtime, supervisor, supervisorThread, supervisorStop, lateJoin>>
    BY <1>6 DEF ControllerReleases, threads
  <2>2. active' = FALSE /\ player' = "none" /\ session' = FALSE
    BY <1>6 DEF ControllerReleases, ReleaseAudio
  <2>3. QED  BY <2>1, <2>2 DEF AudioInv, ThreadsInv, JoinedInv, SupervisorAlive
<1>7. ASSUME NEW t \in Supervisors, SupervisorWakes(t) PROVE AudioInv'
  <2>1. supervisor[t] = "waiting"
        /\ supervisor' = [supervisor EXCEPT ![t] = IF supervisorStop THEN "ended" ELSE "woken"]
        /\ UNCHANGED <<controller, runtime, supervisorThread, supervisorStop, active, player, session, lateJoin>>
    BY <1>7 DEF SupervisorWakes, audio
  <2>2. supervisor' \in [Supervisors -> {"none", "waiting", "woken", "ended"}]
        /\ (~supervisorStop => supervisor'[t] = "woken") /\ \A u \in Supervisors : u # t => supervisor'[u] = supervisor[u]
    BY <2>1 DEF AudioInv, ThreadsInv
  <2>3. \A u \in Supervisors : (SupervisorAlive(u)' => SupervisorAlive(u)) /\ (~supervisorStop => (SupervisorAlive(u) => SupervisorAlive(u)'))
    BY <2>1, <2>2 DEF SupervisorAlive
  <2>4. ThreadsInv'
    BY <2>1, <2>2, <2>3 DEF AudioInv, ThreadsInv, SupervisorAlive
  <2>5. JoinedInv'
    BY <2>1, <2>3 DEF AudioInv, JoinedInv
  <2>6. QED  BY <2>4, <2>5 DEF AudioInv
<1>8. ASSUME NEW t \in Supervisors, SupervisorEnsures(t) PROVE AudioInv'
  <2>1. supervisor[t] = "woken" /\ supervisor' = [supervisor EXCEPT ![t] = "waiting"]
        /\ UNCHANGED <<controller, runtime, supervisorThread, supervisorStop, lateJoin>>
    BY <1>8 DEF SupervisorEnsures
  <2>2. supervisor' \in [Supervisors -> {"none", "waiting", "woken", "ended"}]
        /\ supervisor'[t] = "waiting" /\ \A u \in Supervisors : u # t => supervisor'[u] = supervisor[u]
    BY <2>1 DEF AudioInv, ThreadsInv
  <2>3. \A u \in Supervisors : SupervisorAlive(u)' = SupervisorAlive(u)
    BY <2>1, <2>2 DEF SupervisorAlive
  <2>4. controller = "off" => lateJoin
    BY <2>1 DEF AudioInv, ThreadsInv, JoinedInv, SupervisorAlive
  <2>5. ThreadsInv'
    BY <2>1, <2>2, <2>3 DEF AudioInv, ThreadsInv, SupervisorAlive
  <2>6. JoinedInv'
    BY <2>1, <2>3, <2>4 DEF AudioInv, JoinedInv
  <2>7. QED  BY <2>5, <2>6 DEF AudioInv
<1>9. CASE RuntimeEnsures
  <2>1. runtime /\ UNCHANGED <<controller, runtime, threads, lateJoin>>
    BY <1>9 DEF RuntimeEnsures
  <2>2. controller = "off" => lateJoin
    BY <2>1 DEF AudioInv, JoinedInv
  <2>3. QED  BY <2>1, <2>2, OthersAudio
<1>10. CASE RuntimeOver
  <2>1. runtime' = FALSE /\ UNCHANGED <<controller, threads, active, player, session, lateJoin>>
    BY <1>10 DEF RuntimeOver, audio
  <2>2. QED  BY <2>1, OthersAudio DEF AudioInv, JoinedInv
<1>11. CASE Interrupt
  <2>1. session' = FALSE /\ player' = (IF player = "none" THEN "none" ELSE "silent")
        /\ UNCHANGED <<controller, runtime, threads, active, lateJoin>>
    BY <1>11 DEF Interrupt
  <2>2. QED  BY <2>1, OthersAudio DEF AudioInv, JoinedInv
<1>12. CASE InterruptionEnds
  <2>1. UNCHANGED <<controller, runtime, threads, active, player, session, lateJoin>>
    BY <1>12 DEF InterruptionEnds, audio
  <2>2. QED  BY <2>1, OthersAudio DEF AudioInv, JoinedInv
<1>13. CASE UNCHANGED keepaliveVars
  <2>1. UNCHANGED <<controller, runtime, threads, active, player, session, lateJoin>>
    BY <1>13 DEF keepaliveVars, audio
  <2>2. QED  BY <2>1, OthersAudio DEF AudioInv, JoinedInv
<1>14. QED
  BY <1>1, <1>2, <1>3, <1>4, <1>5, <1>6, <1>7, <1>8, <1>9, <1>10, <1>11, <1>12, <1>13
     DEF KeepaliveNext, ControllerStep, SupervisorStep

\* The audio and its supervisor belong to the session and go with it, for any
\* number of sessions, supervisors and interruptions.
THEOREM AudioGoesWithSession == KeepaliveSpec => []AudioFollowsSession
<1>1. ASSUME AudioInv PROVE AudioReleased /\ SessionSupervised
  BY <1>1 DEF AudioInv, ThreadsInv, JoinedInv, AudioReleased, SessionSupervised
<1>2. ASSUME AudioInv PROVE OneSupervisor
  <2>1. SUFFICES ASSUME ~lateJoin PROVE Cardinality(AliveSupervisors) <= 1
    BY DEF OneSupervisor
  <2>2. AliveSupervisors \subseteq {supervisorThread}
    BY <1>2, <2>1 DEF AudioInv, JoinedInv, AliveSupervisors
  <2>3. IsFiniteSet({supervisorThread}) /\ Cardinality({supervisorThread}) = 1
    BY FS_Singleton
  <2>4. QED  BY <2>2, <2>3, FS_Subset
<1>3. AudioInv => AudioFollowsSession
  BY <1>1, <1>2 DEF AudioFollowsSession
<1>4. QED  BY InitAudio, StepAudio, <1>3, PTL DEF KeepaliveSpec

-----------------------------------------------------------------------------
(* StableView: what the background thread does, _busy covers; and a view   *)
(* is closed by Exit only when no thread of the runtime is left.           *)

Places == {"none", "called", "launched", "returned"}

\* What the background thread is doing, and what it has found out.
WorkerInv ==
    /\ worker \in [op : {"none", "start", "stop", "exit"}, at : Places, ok : BOOLEAN]
    /\ runtimeThread \in {"none", "alive"}
    /\ worker.op = "none" => worker = NoWorker
    /\ worker.at = "none" => worker = NoWorker
    /\ worker.op = "exit" /\ worker.at = "returned" /\ worker.ok => runtimeThread = "none"

\* What the controls say of it.
ControlsInv ==
    /\ busy \in BOOLEAN /\ refreshing \in BOOLEAN
    /\ enabled \in [Controls -> BOOLEAN]
    /\ ~busy => worker = NoWorker
    /\ enabled["start"] => ~busy
    /\ enabled["refresh"] => ~refreshing

ClosedInv == view = "exit" => runtimeThread = "none" /\ worker = NoWorker

ViewInv == WorkerInv /\ ControlsInv /\ ClosedInv

LEMMA InitView == ViewInit => ViewInv
<1> SUFFICES ASSUME ViewInit PROVE ViewInv
  OBVIOUS
<1>1. worker = NoWorker /\ runtimeThread = "none" /\ view = "open"
      /\ busy = FALSE /\ refreshing = TRUE /\ enabled = [c \in Controls |-> c # "refresh"]
  BY DEF ViewInit
<1>2. WorkerInv
  BY <1>1 DEF WorkerInv, NoWorker, Places
<1>3. enabled \in [Controls -> BOOLEAN] /\ enabled["refresh"] = FALSE
  BY <1>1 DEF Controls
<1>4. ControlsInv
  BY <1>1, <1>3 DEF ControlsInv
<1>5. QED  BY <1>1, <1>2, <1>4 DEF ViewInv, ClosedInv

\* _set_busy() enables a control only when neither it nor a refresh forbids it.
LEMMA SetBusyControls ==
  ASSUME ControlsInv, NEW b \in BOOLEAN, NEW t, SetBusy(b, t), refreshing' = refreshing,
         ~b => worker' = NoWorker
  PROVE  ControlsInv'
<1>1. busy' = b /\ enabled' = [c \in Controls |-> ~b /\ (c = "refresh" => ~refreshing)]
  BY DEF SetBusy
<1>2. enabled' \in [Controls -> BOOLEAN]
  BY <1>1
<1>3. enabled'["start"] = ~b /\ enabled'["refresh"] = (~b /\ ~refreshing)
  BY <1>1 DEF Controls
<1>4. QED  BY <1>1, <1>2, <1>3 DEF ControlsInv

\* A step of the background thread in the manager.
LEMMA WorkerStepView ==
  ASSUME ViewInv, worker.op # "none", NEW at \in Places \ {"none"},
         NEW thread \in {"none", "alive"}, NEW ok \in BOOLEAN,
         WorkerAt(at, thread, ok),
         worker.op = "exit" /\ at = "returned" /\ ok => thread = "none"
  PROVE  ViewInv'
<1>1. worker' = [worker EXCEPT !.at = at, !.ok = ok] /\ runtimeThread' = thread
      /\ UNCHANGED <<busy, refreshing, enabled, title, view>>
  BY DEF WorkerAt
<1>2. worker' \in [op : {"none", "start", "stop", "exit"}, at : Places, ok : BOOLEAN]
      /\ worker'.op = worker.op /\ worker'.at = at /\ worker'.ok = ok
  BY <1>1 DEF ViewInv, WorkerInv
<1>3. worker # NoWorker
  BY DEF NoWorker
<1>4. WorkerInv'
  BY <1>1, <1>2 DEF WorkerInv
<1>5. ControlsInv'
  BY <1>1, <1>3 DEF ViewInv, ControlsInv
<1>6. ClosedInv'
  BY <1>1, <1>3 DEF ViewInv, ClosedInv
<1>7. QED  BY <1>4, <1>5, <1>6 DEF ViewInv

\* What a touch that begins a call of the manager does.
LEMMA TouchedView ==
  ASSUME ViewInv, NEW op \in {"start", "stop", "exit"}, NEW t,
         SetBusy(TRUE, t), RunBackground(op), view # "exit",
         UNCHANGED <<refreshing, runtimeThread, view>>
  PROVE  ViewInv'
<1>1. worker' = [op |-> op, at |-> "called", ok |-> TRUE]
  BY DEF RunBackground
<1>2. WorkerInv'
  BY <1>1 DEF ViewInv, WorkerInv, Places
<1>3. ControlsInv'
  BY SetBusyControls DEF ViewInv
<1>4. ClosedInv'
  BY DEF ClosedInv
<1>5. QED  BY <1>2, <1>3, <1>4 DEF ViewInv

LEMMA StepView == ViewInv /\ [ViewNext]_viewVars => ViewInv'
<1> SUFFICES ASSUME ViewInv, [ViewNext]_viewVars PROVE ViewInv'
  OBVIOUS
<1>1. CASE Refresh
  <2>1. refreshing' = TRUE /\ enabled' = [enabled EXCEPT !["refresh"] = FALSE]
        /\ UNCHANGED <<busy, worker, runtimeThread, view>>
    BY <1>1 DEF Refresh
  <2>2. enabled' \in [Controls -> BOOLEAN] /\ enabled'["refresh"] = FALSE
        /\ enabled'["start"] = enabled["start"]
    BY <2>1 DEF ViewInv, ControlsInv, Controls
  <2>3. QED  BY <2>1, <2>2 DEF ViewInv, WorkerInv, ControlsInv, ClosedInv
<1>2. CASE InterfacesRefreshed
  <2>1. refreshing' = FALSE /\ enabled' = [enabled EXCEPT !["refresh"] = ~busy]
        /\ UNCHANGED <<busy, worker, runtimeThread, view>>
    BY <1>2 DEF InterfacesRefreshed
  <2>2. enabled' \in [Controls -> BOOLEAN] /\ enabled'["start"] = enabled["start"]
    BY <2>1 DEF ViewInv, ControlsInv, Controls
  <2>3. QED  BY <2>1, <2>2 DEF ViewInv, WorkerInv, ControlsInv, ClosedInv
<1>3. CASE Toggle
  <2>1. view # "exit" /\ UNCHANGED <<refreshing, runtimeThread, view>>
    BY <1>3 DEF Toggle, Pressed
  <2>2. CASE ManagerRunning
    BY <1>3, <2>1, <2>2, TouchedView DEF Toggle
  <2>3. CASE ~ManagerRunning
    BY <1>3, <2>1, <2>3, TouchedView DEF Toggle
  <2>4. QED  BY <2>2, <2>3
<1>4. CASE Exit
  <2>1. view = "open" /\ ~busy /\ UNCHANGED <<refreshing, runtimeThread>>
    BY <1>4 DEF Exit, Pressed, ExitAllowed
  <2>2. CASE ManagerRunning
    BY <1>4, <2>1, <2>2, TouchedView DEF Exit
  <2>3. CASE ~ManagerRunning
    <3>1. worker = NoWorker /\ runtimeThread = "none"
      BY <2>1, <2>3 DEF ViewInv, WorkerInv, ControlsInv, ManagerRunning
    <3>2. UNCHANGED <<busy, enabled, worker>>
      BY <1>4, <2>3 DEF Exit
    <3>3. QED  BY <2>1, <3>1, <3>2 DEF ViewInv, WorkerInv, ControlsInv, ClosedInv
  <2>4. QED  BY <2>2, <2>3
<1>5. CASE LeaveView
  <2>1. view' = "left" /\ UNCHANGED <<busy, refreshing, enabled, worker, runtimeThread>>
    BY <1>5 DEF LeaveView
  <2>2. QED  BY <2>1 DEF ViewInv, WorkerInv, ControlsInv, ClosedInv
<1>6. CASE Update
  <2>1. UNCHANGED <<busy, refreshing, enabled, worker, runtimeThread, view>>
    BY <1>6 DEF Update
  <2>2. QED  BY <2>1 DEF ViewInv, WorkerInv, ControlsInv, ClosedInv
<1>7. CASE RuntimeThreadEnds
  <2>1. runtimeThread' = "none" /\ UNCHANGED <<busy, refreshing, enabled, worker, view>>
    BY <1>7 DEF RuntimeThreadEnds
  <2>2. QED  BY <2>1 DEF ViewInv, WorkerInv, ControlsInv, ClosedInv
<1>8. CASE StartCalled
  <2>1. worker.op = "start" /\ "returned" \in Places \ {"none"} /\ "launched" \in Places \ {"none"}
    BY <1>8 DEF StartCalled, Places
  <2>2. runtimeThread \in {"none", "alive"}
    BY DEF ViewInv, WorkerInv
  <2>3. CASE ManagerRunning
    BY <1>8, <2>1, <2>2, <2>3, WorkerStepView DEF StartCalled
  <2>4. CASE ~ManagerRunning
    BY <1>8, <2>1, <2>4, WorkerStepView DEF StartCalled
  <2>5. QED  BY <2>3, <2>4
<1>9. CASE StartReturns
  <2>1. worker.op = "start" /\ "returned" \in Places \ {"none"}
    BY <1>9 DEF StartReturns, Places
  <2>2. runtimeThread \in {"none", "alive"}
    BY DEF ViewInv, WorkerInv
  <2>3. PICK thread \in {"none", "alive"}, ok \in BOOLEAN : WorkerAt("returned", thread, ok)
    BY <1>9, <2>2 DEF StartReturns
  <2>4. QED  BY <2>1, <2>3, WorkerStepView
<1>10. CASE StopReturns
  <2>1. worker.op \in {"stop", "exit"} /\ "returned" \in Places \ {"none"}
    BY <1>10 DEF StopReturns, Places
  <2>2. runtimeThread \in {"none", "alive"}
    BY DEF ViewInv, WorkerInv
  <2>3. CASE WorkerAt("returned", "none", TRUE)
    BY <2>1, <2>3, WorkerStepView
  <2>4. CASE WorkerAt("returned", runtimeThread, FALSE)
    BY <2>1, <2>2, <2>4, WorkerStepView
  <2>5. QED  BY <1>10, <2>3, <2>4 DEF StopReturns
<1>11. CASE Completed
  <2>1. worker' = NoWorker /\ worker # NoWorker /\ UNCHANGED <<refreshing, runtimeThread>>
    BY <1>11 DEF Completed, NoWorker
  <2>2. WorkerInv'
    BY <2>1 DEF ViewInv, WorkerInv, NoWorker, Places
  <2>3. CASE worker.op = "exit" /\ worker.ok
    <3>1. view' = "exit" /\ UNCHANGED <<busy, enabled>> /\ worker.at = "returned"
      BY <1>11, <2>3 DEF Completed
    <3>2. runtimeThread' = "none"
      BY <2>1, <2>3, <3>1 DEF ViewInv, WorkerInv
    <3>3. QED  BY <2>1, <2>2, <3>1, <3>2 DEF ViewInv, ControlsInv, ClosedInv
  <2>4. CASE ~(worker.op = "exit" /\ worker.ok)
    <3>1. SetBusy(FALSE, UpdatedTitle) /\ UNCHANGED view
      BY <1>11, <2>4 DEF Completed
    <3>2. ControlsInv'
      BY <2>1, <3>1, SetBusyControls DEF ViewInv
    <3>3. ClosedInv'
      BY <2>1, <3>1 DEF ViewInv, ClosedInv
    <3>4. QED  BY <2>2, <3>2, <3>3 DEF ViewInv
  <2>5. QED  BY <2>3, <2>4
<1>12. CASE UNCHANGED viewVars
  <2>1. UNCHANGED <<busy, refreshing, enabled, worker, runtimeThread, view>>
    BY <1>12 DEF viewVars
  <2>2. QED  BY <2>1 DEF ViewInv, WorkerInv, ControlsInv, ClosedInv
<1>13. QED
  BY <1>1, <1>2, <1>3, <1>4, <1>5, <1>6, <1>7, <1>8, <1>9, <1>10, <1>11, <1>12
     DEF ViewNext, ViewUnderway

LEMMA ViewExits == ViewInit /\ [][ViewNext]_viewVars => []ExitLeavesNothing
<1>1. ViewInv => ExitLeavesNothing
  BY DEF ViewInv, WorkerInv, ControlsInv, ClosedInv, ExitLeavesNothing, NoWorker
<1>2. QED  BY InitView, StepView, <1>1, PTL

\* Exit leaves no runtime behind, and a view that can be operated has nothing
\* under way, for every order of touches, completions and late ends of threads.
THEOREM ExitIsClean == ViewSpec => []ExitLeavesNothing
<1>1. QED  BY ViewExits, PTL DEF ViewSpec

-----------------------------------------------------------------------------
(* LegacyView.  The invariant says, for each place of the UI thread, how   *)
(* far the thread of the last start() is, and what it listens on; as long  *)
(* as no wait has timed out, nothing is left of any other start.           *)

BeforeServing == {"starting", "entering", "binding SOCKS", "binding HTTP", "serving", "failed"}
ThreadPlaces == BeforeServing \cup {"none", "stopping", "over"}
ListensAt(place) ==
    IF place = "serving" THEN LegacyPorts
    ELSE IF place = "binding HTTP" THEN {"WPAD", "SOCKS"} ELSE {"WPAD"}

Opening == {"making servers", "awaiting startup"}
Closing == {"stopping", "awaiting stop", "joining", "stopping WPAD"}

LegacyTypes ==
    /\ starts \in 0..MaxStarts
    /\ serverThread \in [Starts -> ThreadPlaces]
    /\ bound \in [Starts -> SUBSET LegacyPorts]
    /\ ui \in {"stopped", "running"} \cup Opening \cup Closing

\* Nothing runs of a start but the last one, and of that only while the UI thread
\* is not at "stopped".
NothingLeft(s) == ThreadOver(s) /\ bound[s] = {}
OneStart ==
    /\ \A s \in Starts : s # starts => NothingLeft(s)
    /\ ui # "stopped" => starts > 0
    /\ ui = "stopped" /\ starts > 0 => NothingLeft(starts) /\ ~legacyAudio

LastStart(thread, ports) ==
    /\ ui = "making servers" =>
         thread \in {"none", "over"} /\ ports = {"WPAD"} /\ ~startupEvent /\ ~startupError
    /\ ui = "awaiting startup" =>
         /\ thread \in BeforeServing /\ ports = ListensAt(thread)
         /\ startupEvent <=> thread \in {"serving", "failed"}
         /\ startupError <=> thread = "failed"
    /\ ui = "running" => thread = "serving" /\ ports = LegacyPorts
    /\ ui = "stopping" => thread \in {"serving", "failed"} /\ ports = ListensAt(thread)
    /\ ui = "awaiting stop" =>
         /\ thread \in {"serving", "failed"}
         /\ ports = IF stopAll = "done" THEN {"WPAD"} ELSE ListensAt(thread)
    /\ ui = "joining" => thread \in {"stopping", "over"} /\ ports = {"WPAD"}
    /\ ui = "stopping WPAD" => thread = "over" /\ ports = {"WPAD"}

\* Which start the loop is of, and whether the audio is to go with it.
References ==
    /\ loopRef = IF ui \in {"stopped", "making servers"} THEN 0 ELSE starts
    /\ stopAll \in {"none", "running", "done"}
    /\ stopAll # "none" => ui = "awaiting stop"
    /\ ui \in Closing => raising \/ ~legacyAudio

ManagerInv == LegacyTypes /\ OneStart /\ LastStart(serverThread[starts], bound[starts]) /\ References

LEMMA InitManager == LegacyInit => ManagerInv
<1> SUFFICES ASSUME LegacyInit PROVE ManagerInv
  OBVIOUS
<1>1. 0 \in 0..MaxStarts
  BY LegacyAssumption
<1>2. LegacyTypes
  BY <1>1 DEF LegacyInit, LegacyTypes, ThreadPlaces
<1>3. QED
  BY <1>2 DEF LegacyInit, ManagerInv, OneStart, NothingLeft, ThreadOver, LastStart, References, Opening, Closing

\* The calls of the view.
LEMMA CallStartManager ==
    ASSUME ManagerInv, LegacyStart PROVE ManagerInv'
<1>9. \A s \in Starts : s > 0
  BY LegacyAssumption DEF Starts
<1> USE DEF ManagerInv, LegacyTypes, Opening, Closing
<1>1. ui = "stopped" /\ starts < MaxStarts /\ starts' = starts + 1 /\ serverThread' = serverThread
  BY DEF LegacyStart
<1>2. starts' \in Starts /\ starts' \in 0..MaxStarts /\ starts' > 0 /\ starts' # starts
  BY <1>1, LegacyAssumption DEF Starts
<1>3. \A s \in Starts : NothingLeft(s)
  <2>1. QED  BY <1>1, <1>9 DEF OneStart
<1>0. ~startupEvent' /\ ~startupError'
  BY DEF LegacyStart
<1>4. loopRef' = 0 /\ stopAll' = stopAll /\ stopAll = "none"
  BY <1>1 DEF LegacyStart, References
<1>5. CASE Bind(starts', "WPAD") /\ ui' = "making servers" /\ legacyAudio' = TRUE
  <2>1. bound' = [bound EXCEPT ![starts'] = @ \cup {"WPAD"}]
    BY <1>5 DEF Bind
  <2>2. bound'[starts'] = {"WPAD"} /\ \A s \in Starts : s # starts' => bound'[s] = bound[s]
    BY <1>2, <1>3, <2>1 DEF NothingLeft
  <2>3. bound' \in [Starts -> SUBSET LegacyPorts]
    BY <2>1 DEF LegacyPorts
  <2>4. \A s \in Starts : s # starts' => NothingLeft(s)'
    BY <1>1, <1>3, <2>2 DEF NothingLeft, ThreadOver
  <2>5. serverThread'[starts'] \in {"none", "over"}
    BY <1>1, <1>2, <1>3 DEF NothingLeft, ThreadOver
  <2>6. QED
    BY <1>1, <1>2, <1>4, <1>0, <1>5, <2>2, <2>3, <2>4, <2>5 DEF OneStart, LastStart, References
<1>6. CASE ui' = "stopped" /\ legacyAudio' = FALSE /\ UNCHANGED bound
  <2>1. \A s \in Starts : NothingLeft(s)'
    BY <1>1, <1>3, <1>6 DEF NothingLeft, ThreadOver
  <2>2. QED
    BY <1>1, <1>2, <1>4, <1>6, <2>1 DEF OneStart, LastStart, References
<1>7. QED  BY <1>5, <1>6 DEF LegacyStart

LEMMA CallStopManager ==
    ASSUME ManagerInv, LegacyStop PROVE ManagerInv'
  BY DEF ManagerInv, LegacyStop, LegacyTypes, OneStart, LastStart, NothingLeft, ThreadOver, References,
         Opening, Closing, ListensAt

\* Where the last start's thread gets, and what it listens on then.
LEMMA LastStartMoves ==
    ASSUME ManagerInv, starts > 0, starts' = starts, ui' \in {"running"} \cup Opening \cup Closing,
           NEW place \in ThreadPlaces, NEW ports \in SUBSET LegacyPorts,
           serverThread' = [serverThread EXCEPT ![starts] = place],
           bound' = [bound EXCEPT ![starts] = ports],
           LastStart(place, ports)', References'
    PROVE  ManagerInv'
<1> USE DEF ManagerInv, LegacyTypes
<1>1. starts \in Starts
  BY LegacyAssumption DEF Starts
<1>2. serverThread'[starts] = place /\ bound'[starts] = ports
  BY <1>1
<1>3. \A s \in Starts : s # starts => serverThread'[s] = serverThread[s] /\ bound'[s] = bound[s]
  BY <1>1
<1>4. \A s \in Starts : s # starts => NothingLeft(s)'
  BY <1>3 DEF OneStart, NothingLeft, ThreadOver
<1>5. OneStart'
  BY <1>4 DEF OneStart, Opening, Closing
<1>6. LegacyTypes'
  BY <1>1 DEF Opening, Closing
<1>7. LastStart(serverThread[starts], bound[starts])'
  BY <1>2
<1>8. QED  BY <1>5, <1>6, <1>7

\* The thread of a start that goes on is that of the last one.
LEMMA ThreadStepManager ==
    ASSUME ManagerInv, NEW s \in Starts, ServerThreadStep(s) PROVE ManagerInv'
<1> USE DEF ManagerInv, LegacyTypes
<1>1. s = starts /\ starts > 0
  <2>1. s # starts => ThreadOver(s)
    BY DEF OneStart, NothingLeft
  <2>2. ~ThreadOver(s)
    BY DEF ServerThreadStep, RunLoop, EnterLoop, BindSocksPort, BindHttpPort, LoopEnds, ThreadOver
  <2>3. QED  BY <2>1, <2>2 DEF Starts
<1>2. \/ /\ ui = "awaiting startup" /\ serverThread[s] \in BeforeServing
         /\ bound[s] = ListensAt(serverThread[s]) /\ loopRef = s
      \/ ui = "joining" /\ serverThread[s] \in {"stopping", "over"} /\ bound[s] = {"WPAD"}
      \/ serverThread[s] \in {"none", "over", "serving", "failed"}
  <2>1. ui = "stopped" => ThreadOver(s)
    BY <1>1 DEF OneStart, NothingLeft
  <2>2. QED  BY <1>1, <2>1 DEF LastStart, References, ThreadOver, Opening, Closing
<1>3. bound[s] \in SUBSET LegacyPorts /\ bound = [bound EXCEPT ![s] = bound[s]]
  OBVIOUS
<1>4. UNCHANGED <<uiVars, loopRef, stopAll, gaveUp>>
  BY DEF ServerThreadStep, RunLoop, EnterLoop, BindSocksPort, BindHttpPort, LoopEnds
<1>5. References' /\ starts' = starts /\ ui' = ui
  BY <1>4 DEF References, uiVars
<1>6. CASE RunLoop(s) \/ EnterLoop(s)
  <2>1. serverThread[s] \in {"starting", "entering"} /\ UNCHANGED <<startup, bound>>
    BY <1>6 DEF RunLoop, EnterLoop
  <2>2. ui = "awaiting startup" /\ loopRef = s /\ bound[s] = {"WPAD"}
    BY <1>2, <2>1 DEF ListensAt
  <2>3. PICK place \in {"entering", "binding SOCKS"} : serverThread' = [serverThread EXCEPT ![s] = place]
    BY <1>6, <2>2 DEF RunLoop, EnterLoop, GoTo
  <2>4. LastStart(place, bound[s])'
    BY <1>1, <1>5, <2>1, <2>2 DEF LastStart, ListensAt, startup, BeforeServing
  <2>5. bound' = [bound EXCEPT ![s] = bound[s]]
    BY <1>3, <2>1
  <2>6. QED
    BY <1>1, <1>3, <1>5, <2>2, <2>3, <2>4, <2>5, LastStartMoves DEF ThreadPlaces, BeforeServing, Opening
<1>7. CASE BindSocksPort(s) \/ BindHttpPort(s)
  <2>1. serverThread[s] \in {"binding SOCKS", "binding HTTP"}
    BY <1>7 DEF BindSocksPort, BindHttpPort
  <2>2. ui = "awaiting startup" /\ loopRef = s
    BY <1>2, <2>1
  <2>3. ASSUME NEW place \in {"binding HTTP", "serving", "failed"},
               serverThread' = [serverThread EXCEPT ![s] = place],
               bound' = [bound EXCEPT ![s] = ListensAt(place)],
               startupEvent' <=> place \in {"serving", "failed"}, startupError' <=> place = "failed"
        PROVE  ManagerInv'
    <3>1. LastStart(place, ListensAt(place))'
      BY <1>5, <2>2, <2>3 DEF LastStart, BeforeServing, ListensAt
    <3>2. place \in ThreadPlaces /\ ListensAt(place) \in SUBSET LegacyPorts
      BY <2>3 DEF ThreadPlaces, BeforeServing, ListensAt, LegacyPorts
    <3>3. QED
      BY <1>1, <1>5, <2>2, <2>3, <3>1, <3>2, LastStartMoves DEF Opening
  <2>4. CASE BindSocksPort(s)
    <3>1. bound[s] = {"WPAD"} /\ ~startupEvent /\ ~startupError
      BY <1>1, <1>2, <2>2, <2>4 DEF BindSocksPort, ListensAt, LastStart
    <3>2. CASE Bind(s, "SOCKS") /\ GoTo(s, "binding HTTP") /\ UNCHANGED startup
      <4>1. bound' = [bound EXCEPT ![s] = ListensAt("binding HTTP")]
        BY <3>1, <3>2 DEF Bind, ListensAt
      <4>2. QED  BY <2>3, <3>1, <3>2, <4>1 DEF GoTo, startup
    <3>3. CASE StartupFails /\ GoTo(s, "failed") /\ UNCHANGED bound
      <4>1. bound' = [bound EXCEPT ![s] = ListensAt("failed")]
        BY <1>3, <3>1, <3>3 DEF ListensAt
      <4>2. QED  BY <2>3, <3>1, <3>3, <4>1 DEF GoTo, StartupFails
    <3>4. QED  BY <2>4, <3>2, <3>3 DEF BindSocksPort
  <2>5. CASE BindHttpPort(s)
    <3>1. bound[s] = {"WPAD", "SOCKS"} /\ ~startupEvent /\ ~startupError
      BY <1>1, <1>2, <2>2, <2>5 DEF BindHttpPort, ListensAt, LastStart
    <3>2. CASE Bind(s, "HTTP") /\ startupEvent' = TRUE /\ GoTo(s, "serving") /\ UNCHANGED startupError
      <4>1. bound' = [bound EXCEPT ![s] = ListensAt("serving")]
        BY <3>1, <3>2 DEF Bind, ListensAt, LegacyPorts
      <4>2. QED  BY <2>3, <3>1, <3>2, <4>1 DEF GoTo
    <3>3. CASE StartupFails /\ GoTo(s, "failed") /\ bound' = [bound EXCEPT ![s] = @ \ {"SOCKS"}]
      <4>1. bound' = [bound EXCEPT ![s] = ListensAt("failed")]
        BY <3>1, <3>3 DEF ListensAt
      <4>2. QED  BY <2>3, <3>1, <3>3, <4>1 DEF GoTo, StartupFails
    <3>4. QED  BY <2>2, <2>5, <3>2, <3>3 DEF BindHttpPort
  <2>6. QED  BY <1>7, <2>4, <2>5
<1>8. CASE LoopEnds(s)
  <2>1. serverThread[s] = "stopping" /\ serverThread' = [serverThread EXCEPT ![s] = "over"]
    BY <1>8 DEF LoopEnds, GoTo
  <2>2. ui = "joining" /\ bound[s] = {"WPAD"}
    BY <1>2, <2>1 DEF BeforeServing
  <2>3. bound' = [bound EXCEPT ![s] = {"WPAD"}]
    BY <1>8, <2>2 DEF LoopEnds
  <2>4. LastStart("over", {"WPAD"})'
    BY <1>5, <2>2 DEF LastStart
  <2>5. QED
    BY <1>1, <1>5, <2>1, <2>2, <2>3, <2>4, LastStartMoves DEF ThreadPlaces, LegacyPorts, Closing
<1>9. QED  BY <1>6, <1>7, <1>8 DEF ServerThreadStep

\* While no wait times out, the UI thread's steps go from one place to the next.
LEMMA UiStepManager ==
    ASSUME ManagerInv, UiStep, ~gaveUp', ~ServersRejectHosts PROVE ManagerInv'
<1> USE DEF ManagerInv, LegacyTypes
<1>0. ui \notin {"stopped", "running"} /\ starts > 0 /\ starts' = starts
  <2>1. ui \notin {"stopped", "running"} /\ starts' = starts
    BY DEF UiStep, ServersRejected, LaunchLoop, StartupAwaited, StopServers, StopAwaited, ThreadJoined, StopWpad
  <2>2. QED  BY <2>1 DEF OneStart
<1>1. starts \in Starts
  BY <1>0, LegacyAssumption DEF Starts
<1>2. /\ serverThread = [serverThread EXCEPT ![starts] = serverThread[starts]]
      /\ bound = [bound EXCEPT ![starts] = bound[starts]]
      /\ serverThread[starts] \in ThreadPlaces /\ bound[starts] \in SUBSET LegacyPorts
  BY <1>1
<1>3. CASE LaunchLoop
  <2>1. /\ ui = "making servers" /\ ui' = "awaiting startup" /\ bound[starts] = {"WPAD"} /\ bound' = bound
        /\ serverThread' = [serverThread EXCEPT ![starts] = "starting"]
        /\ ~startupEvent' /\ ~startupError'
    BY <1>3 DEF LaunchLoop, LastStart, startup
  <2>2. loopRef' = starts /\ stopAll' = stopAll
    BY <1>3 DEF LaunchLoop
  <2>3. LastStart("starting", {"WPAD"})'
    BY <2>1 DEF LastStart, BeforeServing, ListensAt
  <2>4. References'
    BY <1>0, <2>1, <2>2 DEF References, Closing
  <2>5. QED
    BY <1>0, <1>2, <2>1, <2>3, <2>4, LastStartMoves DEF Opening, ThreadPlaces, BeforeServing
<1>4. CASE StartupAwaited
  <2>1. /\ ui = "awaiting startup" /\ UNCHANGED <<startup, loopRef, serverThread, bound, stopAll, legacyAudio>>
        /\ startupEvent /\ serverThread[starts] \in {"serving", "failed"}
    BY <1>4 DEF StartupAwaited, OverOrGivenUp, LastStart
  <2>2. \/ serverThread[starts] = "serving" /\ ui' = "running" /\ raising' = raising
        \/ ui' = "stopping" /\ raising' = TRUE
    BY <1>4, <2>1 DEF StartupAwaited, LastStart
  <2>3. LastStart(serverThread[starts], bound[starts])' /\ serverThread' = serverThread /\ bound' = bound
    <3>1. LastStart(serverThread[starts], bound[starts])
      OBVIOUS
    <3>2. starts' = starts /\ serverThread' = serverThread /\ bound' = bound
      BY <1>0, <2>1
    <3> HIDE DEF ManagerInv
    <3>3. LastStart(serverThread[starts], bound[starts])'
      BY <2>1, <2>2, <3>1, <3>2 DEF LastStart, ListensAt, startup
    <3>4. QED  BY <3>2, <3>3
  <2>4. References'
    BY <1>0, <2>1, <2>2 DEF References, Closing
  <2>5. QED
    BY <1>0, <1>2, <2>1, <2>2, <2>3, <2>4, LastStartMoves DEF Closing
<1>5. CASE StopServers
  <2>1. /\ ui = "stopping" /\ UNCHANGED <<raising, startup, loopRef, serverThread, bound, legacyAudio>>
        /\ serverThread[starts] \in {"serving", "failed"} /\ loopRef = starts
    BY <1>5 DEF StopServers, LastStart, References
  <2>6. loopRef # 0 /\ LoopRunning(loopRef)
    <3>1. loopRef = starts /\ serverThread[starts] \in {"serving", "failed"}
      BY <2>1
    <3>2. starts \in Nat /\ starts # 0
      BY <1>0, LegacyAssumption
    <3> HIDE DEF ManagerInv
    <3>3. QED  BY <3>1, <3>2 DEF LoopRunning
  <2>2. ui' = "awaiting stop" /\ stopAll' = "running"
    BY <1>5, <2>6 DEF StopServers
  <2>3. LastStart(serverThread[starts], bound[starts])' /\ serverThread' = serverThread /\ bound' = bound
    <3>1. LastStart(serverThread[starts], bound[starts])
      OBVIOUS
    <3>2. starts' = starts /\ serverThread' = serverThread /\ bound' = bound
      BY <1>0, <2>1
    <3> HIDE DEF ManagerInv
    <3>3. LastStart(serverThread[starts], bound[starts])'
      BY <2>1, <2>2, <3>1, <3>2 DEF LastStart, ListensAt, startup
    <3>4. QED  BY <3>2, <3>3
  <2>4. References'
    BY <1>0, <2>1, <2>2 DEF References, Closing
  <2>5. QED
    BY <1>0, <1>2, <2>1, <2>2, <2>3, <2>4, LastStartMoves DEF Closing
<1>6. CASE StopAwaited
  <2>1. /\ ui = "awaiting stop" /\ stopAll = "done" /\ loopRef = starts /\ bound[starts] = {"WPAD"}
        /\ UNCHANGED <<raising, startup, loopRef, bound, legacyAudio>>
    BY <1>6 DEF StopAwaited, OverOrGivenUp, LastStart, References
  <2>2. ui' = "joining" /\ stopAll' = "none" /\ serverThread' = [serverThread EXCEPT ![starts] = "stopping"]
    BY <1>6, <2>1 DEF StopAwaited
  <2>3. LastStart("stopping", {"WPAD"})' /\ bound' = bound
    BY <2>1, <2>2 DEF LastStart, startup
  <2>4. References'
    BY <1>0, <2>1, <2>2 DEF References, Closing
  <2>5. QED
    BY <1>0, <1>2, <2>1, <2>2, <2>3, <2>4, LastStartMoves DEF Closing, ThreadPlaces
<1>7. CASE ThreadJoined
  <2>1. /\ ui = "joining" /\ ui' = "stopping WPAD" /\ loopRef = starts /\ bound[starts] = {"WPAD"}
        /\ UNCHANGED <<raising, startup, loopRef, serverThread, bound, stopAll, legacyAudio>>
    BY <1>7 DEF ThreadJoined, LastStart, References
  <2>2. serverThread[starts] = "over"
    BY <1>7, <2>1 DEF ThreadJoined, OverOrGivenUp, LastStart, ThreadOver
  <2>3. LastStart(serverThread[starts], bound[starts])' /\ serverThread' = serverThread /\ bound' = bound
    <3>1. LastStart(serverThread[starts], bound[starts])
      OBVIOUS
    <3>2. starts' = starts /\ serverThread' = serverThread /\ bound' = bound
      BY <1>0, <2>1
    <3> HIDE DEF ManagerInv
    <3>3. LastStart(serverThread[starts], bound[starts])'
      BY <2>1, <2>2, <3>1, <3>2 DEF LastStart, ListensAt, startup
    <3>4. QED  BY <3>2, <3>3
  <2>4. References'
    BY <1>0, <2>1, <2>2 DEF References, Closing
  <2>5. QED
    BY <1>0, <1>2, <2>1, <2>2, <2>3, <2>4, LastStartMoves DEF Closing
<1>8. CASE StopWpad
  <2>1. /\ ui = "stopping WPAD" /\ ui' = "stopped" /\ loopRef' = 0 /\ stopAll' = stopAll
        /\ serverThread' = serverThread /\ bound' = [s \in Starts |-> bound[s] \ {"WPAD"}]
        /\ legacyAudio' = (legacyAudio /\ ~raising)
    BY <1>8 DEF StopWpad
  <2>2. ~legacyAudio' /\ stopAll' = "none"
    BY <2>1 DEF References, Closing
  <2>3. \A s \in Starts : NothingLeft(s)'
    <3>1. \A s \in Starts : s # starts => NothingLeft(s)'
      BY <2>1 DEF OneStart, NothingLeft, ThreadOver
    <3>2. NothingLeft(starts)'
      BY <1>0, <1>1, <2>1 DEF LastStart, NothingLeft, ThreadOver
    <3>3. QED  BY <1>0, <3>1, <3>2 DEF NothingLeft, ThreadOver
  <2>4. OneStart'
    BY <1>0, <1>1, <2>1, <2>2, <2>3 DEF OneStart
  <2>5. bound' \in [Starts -> SUBSET LegacyPorts]
    BY <2>1
  <2>6. References' /\ LastStart(serverThread[starts], bound[starts])'
    BY <1>0, <2>1, <2>2 DEF References, LastStart, Closing
  <2>7. QED  BY <1>0, <2>1, <2>4, <2>5, <2>6
<1>9. QED
  BY <1>3, <1>4, <1>5, <1>6, <1>7, <1>8 DEF UiStep, ServersRejected

\* _stop_all() closes what the loop's servers listen on.
LEMMA StopAllManager == ASSUME ManagerInv, StopAllEnds PROVE ManagerInv'
<1> USE DEF ManagerInv, LegacyTypes
<1>1. ui = "awaiting stop" /\ loopRef = starts /\ starts > 0 /\ UNCHANGED <<uiVars, startup, loopRef, serverThread>>
  BY DEF StopAllEnds, References, OneStart, Closing
<1>2. starts \in Starts /\ ui' = ui /\ starts' = starts
  <2>1. starts \in Starts
    <3>1. starts \in 0..MaxStarts /\ starts > 0
      BY <1>1
    <3> HIDE DEF ManagerInv
    <3>2. QED  BY <3>1, LegacyAssumption DEF Starts
  <2>2. QED  BY <1>1, <2>1 DEF uiVars
<1>3. bound[starts] \in {LegacyPorts, {"WPAD"}} /\ bound' = [bound EXCEPT ![starts] = @ \ {"SOCKS", "HTTP"}]
  BY <1>1 DEF StopAllEnds, LastStart, ListensAt
<1>4. bound' = [bound EXCEPT ![starts] = {"WPAD"}] /\ serverThread' = [serverThread EXCEPT ![starts] = @]
  BY <1>1, <1>2, <1>3 DEF LegacyPorts
<1>5. stopAll' = "done" /\ serverThread[starts] \in ThreadPlaces
  BY <1>2 DEF StopAllEnds
<1>6. LastStart(serverThread[starts], {"WPAD"})'
  BY <1>1, <1>2, <1>5 DEF LastStart
<1>7. References'
  BY <1>1, <1>2, <1>5 DEF References, uiVars
<1>8. QED
  BY <1>1, <1>2, <1>4, <1>5, <1>6, <1>7, LastStartMoves DEF Closing, LegacyPorts

\* What the view shows is what the UI thread is at, between callbacks; within one,
\* the call it has made was for the interfaces that are chosen.
ViewShows ==
    /\ callback \in {"none", "toggle", "restart", "restarting", "exit"} \cup Dialogs
    /\ legacyView = "none" => callback = "none" /\ ~legacyRunning
    /\ callback \in {"none"} \cup Dialogs =>
         /\ ui = IF legacyRunning THEN "running" ELSE "stopped"
         /\ legacyRunning => startedWith = chosen
    /\ callback \in {"toggle", "restarting"} /\ ui \in {"running"} \cup Opening => startedWith = chosen
    /\ callback \in {"restart", "exit"} => ui \in {"stopped"} \cup Closing

LegacyViewInv == legacyRunning \in BOOLEAN /\ (~gaveUp => ManagerInv /\ ViewShows)

\* Nothing but its own steps changes where the UI thread is.
LEMMA UiStepPlaces ==
    ASSUME UiStep
    PROVE  /\ ui \in Opening \cup Closing
           /\ ui \in Closing => ui' \in {"stopped"} \cup Closing
  BY DEF UiStep, ServersRejected, LaunchLoop, StartupAwaited, StopServers, StopAwaited, ThreadJoined, StopWpad,
         Opening, Closing

\* A wait that has timed out stays so.
LEMMA StaysGivenUp == ASSUME LegacyViewInv, [LegacyViewNext]_legacyViewVars PROVE ~gaveUp' => ~gaveUp
<1>1. \A s \in Starts : ServerThreadStep(s) => gaveUp' = gaveUp
  BY DEF ServerThreadStep, RunLoop, EnterLoop, BindSocksPort, BindHttpPort, LoopEnds
<1>2. UiStep => gaveUp' = gaveUp \/ gaveUp' = TRUE
  BY DEF UiStep, ServersRejected, LaunchLoop, StartupAwaited, StopServers, StopAwaited, ThreadJoined, StopWpad,
         OverOrGivenUp
<1>3. LegacyStart \/ LegacyStop \/ StopAllEnds \/ WpadClient \/ UNCHANGED legacyVars => gaveUp' = gaveUp
  BY DEF LegacyStart, LegacyStop, StopAllEnds, WpadClient, legacyVars
<1>4. QED
  BY <1>1, <1>2, <1>3
     DEF LegacyViewNext, LegacyViewUnderway, OpenLegacyView, ToggleServer, OpenDialog, ChooseInterface, CancelDialog,
         ExitApp, LeaveLegacyView, HideIdle, TouchBegan, InManager, ManagerStep, RestartServer, CallbackReturns,
         CallStart, CallStop, legacyViewVars

LEMMA SameManager == ASSUME ManagerInv, UNCHANGED legacyVars PROVE ManagerInv'
  BY DEF ManagerInv, LegacyTypes, OneStart, LastStart, NothingLeft, ThreadOver, References, legacyVars

\* Nor do the clients of the WPAD server change what the manager is at.
LEMMA WpadClientManager == ASSUME ManagerInv, WpadClient PROVE ManagerInv'
  BY DEF ManagerInv, LegacyTypes, OneStart, LastStart, NothingLeft, ThreadOver, References, WpadClient, uiVars, startup

LEMMA InitLegacyView == LegacyViewInit => LegacyViewInv
  BY InitManager DEF LegacyViewInit, LegacyViewInv, ViewShows, LegacyInit, Opening, Closing

LEMMA StepLegacyView ==
    ASSUME ~ServersRejectHosts, LegacyViewInv, [LegacyViewNext]_legacyViewVars PROVE LegacyViewInv'
<1>1. legacyRunning' \in BOOLEAN
  BY DEF LegacyViewInv, LegacyViewNext, LegacyViewUnderway, OpenLegacyView, ToggleServer, OpenDialog, ChooseInterface,
         CancelDialog, ExitApp, LeaveLegacyView, HideIdle, TouchBegan, InManager, RestartServer, CallbackReturns,
         legacyViewVars
<1> SUFFICES ASSUME ~gaveUp' PROVE ManagerInv' /\ ViewShows'
  BY <1>1 DEF LegacyViewInv
<1>2. ~gaveUp /\ ManagerInv /\ ViewShows /\ legacyRunning \in BOOLEAN
  BY StaysGivenUp DEF LegacyViewInv
<1> USE DEF ViewShows, Opening, Closing, Dialogs, chosen
<1>3. CASE UNCHANGED legacyViewVars
  BY <1>2, <1>3, SameManager DEF legacyViewVars, legacyVars
<1>4. CASE OpenLegacyView
  BY <1>2, <1>4, SameManager DEF OpenLegacyView, legacyVars
<1>5. CASE ToggleServer
  <2>1. CASE legacyRunning
    <3>1. LegacyStop /\ callback' = "toggle" /\ legacyView' = legacyView /\ legacyView = "open"
      BY <1>5, <2>1 DEF ToggleServer, CallStop, Operable, shown
    <3>2. ui' = "stopping"
      BY <3>1 DEF LegacyStop
    <3>3. QED  BY <1>2, <3>1, <3>2, CallStopManager
  <2>2. CASE ~legacyRunning
    <3>1. /\ LegacyStart /\ startedWith' = chosen /\ UNCHANGED chosen
          /\ callback' = "toggle" /\ legacyView' = legacyView /\ legacyView = "open"
      BY <1>5, <2>2 DEF ToggleServer, CallStart, Operable, shown
    <3>2. startedWith' = chosen'
      BY <3>1
    <3>3. QED  BY <1>2, <3>1, <3>2, CallStartManager
  <2>3. QED  BY <2>1, <2>2
<1>6. CASE \E dialog \in Dialogs : OpenDialog(dialog)
  <2>1. /\ UNCHANGED legacyVars /\ UNCHANGED <<chosen, legacyRunning, startedWith, legacyView>>
        /\ callback = "none" /\ callback' \in Dialogs /\ legacyView = "open"
    BY <1>6 DEF OpenDialog, Operable, shown
  <2>2. ui' = ui /\ ManagerInv'
    BY <1>2, <2>1, SameManager DEF legacyVars
  <2>3. QED  BY <1>2, <2>1, <2>2
<1>7. CASE ChooseInterface
  <2>1. callback \in Dialogs /\ UNCHANGED <<legacyRunning, legacyView>> /\ legacyView # "none"
    BY <1>2, <1>7 DEF ChooseInterface, shown
  <2>2. CASE legacyRunning
    <3>1. LegacyStop /\ callback' = "restart"
      BY <1>7, <2>2 DEF ChooseInterface, CallStop
    <3>2. ui' = "stopping"
      BY <3>1 DEF LegacyStop
    <3>3. QED  BY <1>2, <2>1, <3>1, <3>2, CallStopManager
  <2>3. CASE ~legacyRunning
    <3>1. UNCHANGED legacyVars /\ callback' = "none"
      BY <1>7, <2>3 DEF ChooseInterface
    <3>2. ui' = ui
      BY <3>1 DEF legacyVars
    <3>3. QED  BY <1>2, <2>1, <2>3, <3>1, <3>2, SameManager
  <2>4. QED  BY <2>2, <2>3
<1>8. CASE CancelDialog
  BY <1>2, <1>8, SameManager DEF CancelDialog, legacyVars, shown
<1>9. CASE ExitApp
  <2>1. callback = "none" /\ legacyView = "open" /\ UNCHANGED <<legacyRunning, chosen>>
    BY <1>9 DEF ExitApp, Operable
  <2>2. CASE legacyRunning
    <3>1. LegacyStop /\ callback' = "exit" /\ legacyView' = legacyView
      BY <1>9, <2>2 DEF ExitApp, CallStop
    <3>2. ui' = "stopping"
      BY <3>1 DEF LegacyStop
    <3>3. QED  BY <1>2, <2>1, <3>1, <3>2, CallStopManager
  <2>3. CASE ~legacyRunning
    <3>1. UNCHANGED legacyVars /\ callback' = callback /\ legacyView' = "closed"
      BY <1>9, <2>3 DEF ExitApp
    <3>2. ui' = ui
      BY <3>1 DEF legacyVars
    <3>3. QED  BY <1>2, <2>1, <2>3, <3>1, <3>2, SameManager
  <2>4. QED  BY <2>2, <2>3
<1>10. CASE LeaveLegacyView \/ HideIdle \/ TouchBegan
  <2>1. /\ UNCHANGED legacyVars /\ UNCHANGED <<chosen, callback, legacyRunning, startedWith>>
        /\ legacyView' \in {legacyView, "left"} /\ legacyView = "open"
    BY <1>10 DEF LeaveLegacyView, HideIdle, TouchBegan
  <2>2. ui' = ui /\ ManagerInv'
    BY <1>2, <2>1, SameManager DEF legacyVars
  <2>3. QED  BY <1>2, <2>1, <2>2
<1>11. CASE InManager(StopAllEnds \/ WpadClient)
  <2>1. ui' = ui /\ UNCHANGED <<chosen, callback, legacyRunning, startedWith, legacyView>>
    BY <1>11 DEF InManager, StopAllEnds, WpadClient, uiVars, shown
  <2>2. ManagerInv'
    BY <1>2, <1>11, StopAllManager, WpadClientManager DEF InManager
  <2>3. QED  BY <1>2, <2>1, <2>2
<1>12. CASE InManager(UiStep)
  <2>1. UNCHANGED <<chosen, callback, legacyRunning, startedWith, legacyView>>
    BY <1>12 DEF InManager, shown
  <2>2. /\ ui \in Opening \cup Closing
        /\ ui \in Closing => ui' \in {"stopped"} \cup Closing
    BY <1>12, UiStepPlaces DEF InManager
  <2>3. ViewShows'
    BY <1>2, <2>1, <2>2
  <2>4. ManagerInv'
    BY <1>2, <1>12, UiStepManager DEF InManager
  <2>5. QED  BY <2>3, <2>4
<1>13. CASE \E s \in Starts : InManager(ServerThreadStep(s))
  <2>1. PICK s \in Starts : ServerThreadStep(s)
    BY <1>13 DEF InManager
  <2>2. ui' = ui /\ UNCHANGED <<chosen, callback, legacyRunning, startedWith, legacyView>>
    BY <1>13 DEF InManager, shown, ServerThreadStep, RunLoop, EnterLoop, BindSocksPort, BindHttpPort, LoopEnds, uiVars
  <2>3. QED  BY <1>2, <2>1, <2>2, ThreadStepManager
<1>14. CASE RestartServer
  <2>1. /\ LegacyStart /\ startedWith' = chosen /\ UNCHANGED chosen
        /\ callback' = "restarting" /\ callback = "restart" /\ legacyView' = legacyView
    BY <1>14 DEF RestartServer, CallStart, shown
  <2>2. QED  BY <1>2, <2>1, CallStartManager
<1>15. CASE CallbackReturns
  <2>1. /\ callback \in {"toggle", "restarting", "exit"} /\ ui \in {"stopped", "running"}
        /\ callback' = "none" /\ legacyRunning' = (ui = "running")
        /\ UNCHANGED <<legacyVars, chosen, startedWith>>
        /\ legacyView' = IF callback = "exit" THEN "closed" ELSE legacyView
    BY <1>15 DEF CallbackReturns
  <2>2. ui' = ui
    BY <2>1 DEF legacyVars
  <2>3. QED  BY <1>2, <2>1, <2>2, SameManager
<1>16. QED
  BY <1>3, <1>4, <1>5, <1>6, <1>7, <1>8, <1>9, <1>10, <1>11, <1>12, <1>13, <1>14, <1>15
     DEF LegacyViewNext, LegacyViewUnderway, InManager, ManagerStep

\* Between its callbacks the view of the Legacy Mode says what is, whatever binds,
\* starts and restarts fail, for any number of starts and any interfaces; a wait
\* that times out may leave a thread behind, and AsyncProxyServer() that raises
\* leaves the WPAD server behind.
THEOREM LegacyViewSaysWhatIs ==
    ASSUME ~ServersRejectHosts
    PROVE  LegacyViewSpec => []LegacyViewTruthful
<1>1. LegacyViewInv => LegacyViewTruthful
  <2> SUFFICES ASSUME LegacyViewInv, callback \in {"none"} \cup Dialogs, ~gaveUp
               PROVE  IF legacyRunning
                      THEN bound[starts] = LegacyPorts /\ (callback = "none" => startedWith = chosen)
                      ELSE starts > 0 => ~legacyAudio /\ \A s \in Starts : bound[s] = {} /\ ThreadOver(s)
    BY DEF LegacyViewTruthful
  <2>1. ManagerInv /\ ViewShows
    BY DEF LegacyViewInv
  <2>2. ui = IF legacyRunning THEN "running" ELSE "stopped"
    BY <2>1 DEF ViewShows
  <2>3. CASE legacyRunning
    BY <2>1, <2>2, <2>3 DEF ManagerInv, LastStart, ViewShows
  <2>4. CASE ~legacyRunning
    BY <2>1, <2>2, <2>4 DEF ManagerInv, OneStart, NothingLeft
  <2>5. QED  BY <2>3, <2>4
<1>2. QED  BY <1>1, InitLegacyView, StepLegacyView, PTL DEF LegacyViewSpec

-----------------------------------------------------------------------------
(* DiagnosticMonitor.  A log only grows at its end, so that what is said   *)
(* of an entry stays true; the invariant says what the next entry can be,  *)
(* and that the signature kept by the thread is that of its last scan.     *)

Kinds == {"EVENT", "START", "sample", "TRANSITION", "MONITOR_ERROR", "STOP"}
Entries == [kind : Kinds, value : Topologies \cup {NoSignature}]

WrittenIn(l) == {i \in DOMAIN l : l[i].kind # "EVENT"}
BeforeIn(l, i) == {j \in WrittenIn(l) : j < i}
EarlierIn(l, p) == {j \in BeforeIn(l, p) : Scanned(l[j]) /\ \A k \in j..p : l[k].kind # "START"}
ChangedIn(l, p) == EarlierIn(l, p) # {} => l[LastOf(EarlierIn(l, p))].value # l[p].value

\* The scans of the thread that writes now.
ScansIn(l) == {j \in WrittenIn(l) : Scanned(l[j]) /\ \A k \in j..Len(l) : l[k].kind # "START"}

IsLast(S, m) == m \in S /\ \A j \in S : j <= m
HasLast(S) == S # {} => \E m : IsLast(S, m)

\* Entry e may come next after the one at p, events aside.
Follows(l, p, e) ==
    /\ e.kind = "TRANSITION" => l[p].kind = "sample" /\ ChangedIn(l, p) /\ e.value = l[p].value
    /\ l[p].kind = "sample" /\ ChangedIn(l, p) => e.kind \in {"TRANSITION", "MONITOR_ERROR", "START"}

LogRight(l) ==
    /\ HasLast(WrittenIn(l)) /\ HasLast(ScansIn(l))
    /\ \A i \in WrittenIn(l) : HasLast(BeforeIn(l, i)) /\ HasLast(EarlierIn(l, i))
    /\ \A i \in WrittenIn(l) : \A p : IsLast(BeforeIn(l, i), p) => Follows(l, p, l[i])

\* A sample that is not followed by anything yet has seen nothing new.
\* A sample of v that has is last.
Announcing(l, v) == \E m : IsLast(WrittenIn(l), m) /\ l[m].kind = "sample" /\ ChangedIn(l, m) /\ l[m].value = v
NothingDue(l) == \A m : IsLast(WrittenIn(l), m) /\ l[m].kind = "sample" => ~ChangedIn(l, m)

LEMMA LastIs ==
    ASSUME NEW S \in SUBSET Nat, NEW m, IsLast(S, m) PROVE LastOf(S) = m
<1>1. LastOf(S) \in S /\ \A j \in S : j <= LastOf(S)
  BY DEF LastOf, IsLast
<1>2. m \in S /\ m \in Nat /\ LastOf(S) \in Nat /\ LastOf(S) <= m /\ m <= LastOf(S)
  BY <1>1 DEF IsLast
<1> HIDE DEF LastOf
<1>3. QED  BY <1>2

LEMMA OneLast ==
    ASSUME NEW S \in SUBSET Nat, NEW m, NEW p, IsLast(S, m), IsLast(S, p) PROVE m = p
  BY DEF IsLast

\* A log with one entry more, and what of it is what it was.
Grows(l, e, q) ==
    /\ l \in Seq(Entries) /\ q \in Seq(Entries) /\ e \in Entries
    /\ Len(q) = Len(l) + 1 /\ q[Len(l) + 1] = e
    /\ \A i \in 1..Len(l) : q[i] = l[i]

LEMMA AppendGrows == ASSUME NEW l \in Seq(Entries), NEW e \in Entries PROVE Grows(l, e, Append(l, e))
  BY DEF Grows

LEMMA LogPlaces == ASSUME NEW l \in Seq(Entries)
    PROVE  /\ DOMAIN l = 1..Len(l) /\ Len(l) \in Nat
           /\ WrittenIn(l) \in SUBSET (1..Len(l)) /\ WrittenIn(l) \in SUBSET Nat
           /\ ScansIn(l) \in SUBSET Nat
           /\ \A i : BeforeIn(l, i) \in SUBSET Nat /\ EarlierIn(l, i) \in SUBSET Nat
<1>1. DOMAIN l = 1..Len(l) /\ Len(l) \in Nat
  OBVIOUS
<1>2. WrittenIn(l) \in SUBSET (1..Len(l)) /\ WrittenIn(l) \in SUBSET Nat
  BY <1>1 DEF WrittenIn
<1>3. QED  BY <1>1, <1>2 DEF BeforeIn, EarlierIn, ScansIn

LEMMA GrownWritten ==
    ASSUME NEW l, NEW e, NEW q, Grows(l, e, q)
    PROVE  /\ WrittenIn(q) = IF e.kind = "EVENT" THEN WrittenIn(l) ELSE WrittenIn(l) \cup {Len(l) + 1}
           /\ BeforeIn(q, Len(l) + 1) = WrittenIn(l)
           /\ \A i \in WrittenIn(l) : BeforeIn(q, i) = BeforeIn(l, i)
<1>1. DOMAIN l = 1..Len(l) /\ Len(l) \in Nat /\ DOMAIN q = 1..(Len(l) + 1)
  BY DEF Grows
<1>2. \A i : i \in 1..(Len(l) + 1) <=> i \in 1..Len(l) \/ i = Len(l) + 1
  BY <1>1
<1>3. \A i \in 1..Len(l) : q[i] = l[i] /\ i # Len(l) + 1 /\ i < Len(l) + 1
  BY <1>1 DEF Grows
<1>4. q[Len(l) + 1] = e /\ ~(Len(l) + 1 < Len(l) + 1)
  BY <1>1 DEF Grows
<1>5. \A i : i \in WrittenIn(q) <=> i \in WrittenIn(l) \/ (i = Len(l) + 1 /\ e.kind # "EVENT")
  BY <1>1, <1>2, <1>3, <1>4 DEF WrittenIn
<1>6. \A i \in WrittenIn(l) : i \in 1..Len(l) /\ i < Len(l) + 1 /\ ~(Len(l) + 1 < i)
  BY <1>1, <1>3 DEF WrittenIn
<1>7. WrittenIn(q) = IF e.kind = "EVENT" THEN WrittenIn(l) ELSE WrittenIn(l) \cup {Len(l) + 1}
  BY <1>5
<1>8. BeforeIn(q, Len(l) + 1) = WrittenIn(l)
  BY <1>4, <1>5, <1>6 DEF BeforeIn
<1>9. \A i \in WrittenIn(l) : BeforeIn(q, i) = BeforeIn(l, i)
  BY <1>5, <1>6 DEF BeforeIn
<1>10. QED  BY <1>7, <1>8, <1>9

LEMMA GrownEarlier ==
    ASSUME NEW l, NEW e, NEW q, Grows(l, e, q)
    PROVE  /\ \A p \in WrittenIn(l) : EarlierIn(q, p) = EarlierIn(l, p)
           /\ EarlierIn(q, Len(l) + 1) = IF e.kind = "START" THEN {} ELSE ScansIn(l)
           /\ ScansIn(q) = IF e.kind = "START" THEN {}
                           ELSE IF Scanned(e) THEN ScansIn(l) \cup {Len(l) + 1} ELSE ScansIn(l)
<1>0. l \in Seq(Entries) /\ q \in Seq(Entries)
  BY DEF Grows
<1>1. DOMAIN l = 1..Len(l) /\ Len(l) \in Nat /\ Len(q) = Len(l) + 1 /\ WrittenIn(l) \in SUBSET (1..Len(l))
  BY <1>0, LogPlaces DEF Grows
<1>2. \A i \in 1..Len(l) : q[i] = l[i] /\ i # Len(l) + 1
  BY <1>1 DEF Grows
<1>3. ASSUME NEW j \in 1..Len(l), NEW p \in 1..Len(l)
      PROVE  (\A k \in j..p : q[k].kind # "START") <=> (\A k \in j..p : l[k].kind # "START")
  <2>1. \A k \in j..p : k \in 1..Len(l)
    BY <1>1
  <2>2. QED  BY <1>2, <2>1
<1>4. ASSUME NEW j \in 1..Len(l)
      PROVE  (\A k \in j..(Len(l) + 1) : q[k].kind # "START") <=>
               (\A k \in j..Len(l) : l[k].kind # "START") /\ e.kind # "START"
  <2>1. \A k : k \in j..(Len(l) + 1) <=> k \in j..Len(l) \/ k = Len(l) + 1
    BY <1>1
  <2>2. \A k \in j..Len(l) : k \in 1..Len(l)
    BY <1>1
  <2>3. q[Len(l) + 1] = e
    BY DEF Grows
  <2>4. QED  BY <1>2, <2>1, <2>2, <2>3
<1>5. ASSUME NEW p \in WrittenIn(l) PROVE EarlierIn(q, p) = EarlierIn(l, p)
  <2>1. BeforeIn(q, p) = BeforeIn(l, p) /\ p \in 1..Len(l)
    BY <1>1, GrownWritten
  <2>2. \A j \in BeforeIn(l, p) : j \in 1..Len(l)
    BY <1>1 DEF BeforeIn
  <2>3. \A j \in BeforeIn(l, p) : Scanned(q[j]) <=> Scanned(l[j])
    BY <1>2, <2>2
  <2>4. \A j \in BeforeIn(l, p) :
          (\A k \in j..p : q[k].kind # "START") <=> (\A k \in j..p : l[k].kind # "START")
    BY <1>3, <2>1, <2>2
  <2>5. QED  BY <2>1, <2>3, <2>4 DEF EarlierIn
<1>6. \A j \in WrittenIn(l) : j \in 1..Len(l) /\ (Scanned(q[j]) <=> Scanned(l[j]))
  BY <1>1, <1>2
<1>7. EarlierIn(q, Len(l) + 1) = IF e.kind = "START" THEN {} ELSE ScansIn(l)
  <2>1. BeforeIn(q, Len(l) + 1) = WrittenIn(l)
    BY GrownWritten
  <2>2. \A j \in WrittenIn(l) :
          (\A k \in j..(Len(l) + 1) : q[k].kind # "START") <=>
            (\A k \in j..Len(l) : l[k].kind # "START") /\ e.kind # "START"
    BY <1>4, <1>6
  <2>3. \A j : j \in EarlierIn(q, Len(l) + 1) <=> j \in ScansIn(l) /\ e.kind # "START"
    BY <1>6, <2>1, <2>2 DEF EarlierIn, ScansIn
  <2>4. QED  BY <2>3
<1>8. ScansIn(q) = IF e.kind = "START" THEN {}
                   ELSE IF Scanned(e) THEN ScansIn(l) \cup {Len(l) + 1} ELSE ScansIn(l)
  <2>1. q[Len(l) + 1] = e /\ (Scanned(e) => e.kind # "EVENT" /\ e.kind # "START")
    BY DEF Grows, Scanned
  <2>2. WrittenIn(q) = IF e.kind = "EVENT" THEN WrittenIn(l) ELSE WrittenIn(l) \cup {Len(l) + 1}
    BY GrownWritten
  <2>3. \A k \in (Len(l) + 1)..(Len(l) + 1) : k = Len(l) + 1
    BY <1>1
  <2>4. \A j \in WrittenIn(l) :
          j \in ScansIn(q) <=> j \in ScansIn(l) /\ e.kind # "START"
    BY <1>1, <1>4, <1>6, <2>2 DEF ScansIn
  <2>5. Len(l) + 1 \in ScansIn(q) <=> Scanned(e)
    <3>1. Scanned(e) => \A k \in (Len(l) + 1)..(Len(l) + 1) : q[k].kind # "START"
      BY <2>1, <2>3
    <3>2. Scanned(e) => Len(l) + 1 \in WrittenIn(q)
      BY <2>1, <2>2
    <3>3. QED  BY <1>1, <2>1, <3>1, <3>2 DEF ScansIn
  <2>6. ScansIn(q) \subseteq WrittenIn(l) \cup {Len(l) + 1} /\ ScansIn(l) \subseteq WrittenIn(l)
    BY <2>2 DEF ScansIn
  <2>7. \A j : j \in ScansIn(q) <=> (j \in ScansIn(l) /\ e.kind # "START") \/ (j = Len(l) + 1 /\ Scanned(e))
    BY <1>6, <1>2, <2>4, <2>5, <2>6
  <2>8. QED  BY <2>1, <2>7
<1>9. QED  BY <1>5, <1>7, <1>8

\* The next entry fits.
Fits(l, e) == e.kind # "EVENT" => \A m : IsLast(WrittenIn(l), m) => Follows(l, m, e)

LEMMA LastOfIn == ASSUME NEW S, HasLast(S) PROVE S # {} => LastOf(S) \in S
  BY DEF LastOf, IsLast, HasLast

LEMMA ChangedStays ==
    ASSUME NEW l, NEW e, NEW q, Grows(l, e, q), LogRight(l), NEW p \in WrittenIn(l)
    PROVE  ChangedIn(q, p) <=> ChangedIn(l, p)
<1>0. l \in Seq(Entries)
  BY DEF Grows
<1>1. p \in 1..Len(l) /\ q[p] = l[p]
  BY <1>0, LogPlaces DEF Grows
<1>2. EarlierIn(q, p) = EarlierIn(l, p)
  BY GrownEarlier
<1>3. \A m \in EarlierIn(l, p) : q[m] = l[m]
  <2>1. \A m \in EarlierIn(l, p) : m \in 1..Len(l)
    BY <1>0, LogPlaces DEF EarlierIn, BeforeIn
  <2>2. QED  BY <2>1 DEF Grows
<1>4. EarlierIn(l, p) # {} => LastOf(EarlierIn(l, p)) \in EarlierIn(l, p)
  BY LastOfIn DEF LogRight
<1>5. QED  BY <1>1, <1>2, <1>3, <1>4 DEF ChangedIn

\* What a new sample has changed, if anything, is against the thread's last scan.
LEMMA NewChanged ==
    ASSUME NEW l, NEW e, NEW q, Grows(l, e, q), LogRight(l), e.kind = "sample"
    PROVE  ChangedIn(q, Len(l) + 1) <=> (ScansIn(l) # {} => l[LastOf(ScansIn(l))].value # e.value)
<1>0. l \in Seq(Entries)
  BY DEF Grows
<1>1. EarlierIn(q, Len(l) + 1) = ScansIn(l) /\ q[Len(l) + 1] = e
  BY GrownEarlier DEF Grows
<1>2. \A m \in ScansIn(l) : q[m] = l[m]
  <2>1. \A m \in ScansIn(l) : m \in 1..Len(l)
    BY <1>0, LogPlaces DEF ScansIn
  <2>2. QED  BY <2>1 DEF Grows
<1>3. ScansIn(l) # {} => LastOf(ScansIn(l)) \in ScansIn(l)
  BY LastOfIn DEF LogRight
<1>4. QED  BY <1>1, <1>2, <1>3 DEF ChangedIn

\* The last place is that of an entry just written.
LEMMA NewLast ==
    ASSUME NEW l, NEW e, NEW q, Grows(l, e, q), e.kind # "EVENT"
    PROVE  IsLast(WrittenIn(q), Len(l) + 1) /\ \A m : IsLast(WrittenIn(q), m) => m = Len(l) + 1
<1>0. l \in Seq(Entries) /\ q \in Seq(Entries)
  BY DEF Grows
<1>1. WrittenIn(q) = WrittenIn(l) \cup {Len(l) + 1} /\ WrittenIn(l) \in SUBSET (1..Len(l)) /\ Len(l) \in Nat
  BY <1>0, GrownWritten, LogPlaces
<1>2. \A j \in WrittenIn(q) : j <= Len(l) + 1
  BY <1>1
<1>3. IsLast(WrittenIn(q), Len(l) + 1)
  BY <1>1, <1>2 DEF IsLast
<1>4. WrittenIn(q) \in SUBSET Nat
  BY <1>0, LogPlaces
<1>5. QED  BY <1>3, <1>4, OneLast

LEMMA GrownRight ==
    ASSUME NEW l, NEW e, NEW q, Grows(l, e, q), LogRight(l), Fits(l, e)
    PROVE  LogRight(q)
<1>0. l \in Seq(Entries) /\ Len(l) \in Nat
  BY LogPlaces DEF Grows
<1>1. /\ WrittenIn(q) = IF e.kind = "EVENT" THEN WrittenIn(l) ELSE WrittenIn(l) \cup {Len(l) + 1}
      /\ BeforeIn(q, Len(l) + 1) = WrittenIn(l)
      /\ \A i \in WrittenIn(l) : BeforeIn(q, i) = BeforeIn(l, i)
  BY GrownWritten
<1>2. /\ \A p \in WrittenIn(l) : EarlierIn(q, p) = EarlierIn(l, p)
      /\ EarlierIn(q, Len(l) + 1) = IF e.kind = "START" THEN {} ELSE ScansIn(l)
      /\ ScansIn(q) = IF e.kind = "START" THEN {}
                      ELSE IF Scanned(e) THEN ScansIn(l) \cup {Len(l) + 1} ELSE ScansIn(l)
  BY GrownEarlier
<1>3. HasLast(WrittenIn(l)) /\ HasLast(ScansIn(l)) /\ HasLast({})
  BY DEF LogRight, HasLast
<1>4. HasLast(WrittenIn(q))
  <2>1. CASE e.kind = "EVENT"
    BY <1>1, <1>3, <2>1
  <2>2. CASE e.kind # "EVENT"
    BY <2>2, NewLast DEF HasLast
  <2>3. QED  BY <2>1, <2>2
<1>5. HasLast(ScansIn(q))
  <2>1. CASE e.kind # "START" /\ Scanned(e)
    <3>1. ScansIn(q) = ScansIn(l) \cup {Len(l) + 1}
      BY <1>2, <2>1
    <3>2. \A j \in ScansIn(q) : j <= Len(l) + 1
      BY <1>0, <3>1, LogPlaces DEF ScansIn
    <3>3. IsLast(ScansIn(q), Len(l) + 1)
      BY <3>1, <3>2 DEF IsLast
    <3>4. QED  BY <3>3 DEF HasLast
  <2>2. CASE ~(e.kind # "START" /\ Scanned(e))
    BY <1>2, <1>3, <2>2
  <2>3. QED  BY <2>1, <2>2
<1>6. ASSUME NEW i \in WrittenIn(q) PROVE HasLast(BeforeIn(q, i)) /\ HasLast(EarlierIn(q, i))
  <2>1. CASE i \in WrittenIn(l)
    BY <1>1, <1>2, <2>1 DEF LogRight
  <2>2. CASE i = Len(l) + 1
    BY <1>1, <1>2, <1>3, <2>2
  <2>3. QED  BY <1>1, <1>6, <2>1, <2>2
<1>7. ASSUME NEW i \in WrittenIn(q), NEW p, IsLast(BeforeIn(q, i), p)
      PROVE  Follows(q, p, q[i])
  <2>1. p \in WrittenIn(l)
    <3>1. p \in BeforeIn(q, i) /\ BeforeIn(q, i) \subseteq WrittenIn(l)
      BY <1>1, <1>7 DEF IsLast, BeforeIn
    <3>2. QED  BY <3>1
  <2>2. q[p] = l[p] /\ p \in 1..Len(l)
    BY <1>0, <2>1, LogPlaces DEF Grows
  <2>3. ChangedIn(q, p) <=> ChangedIn(l, p)
    BY <2>1, ChangedStays
  <2>4. CASE i \in WrittenIn(l)
    <3>1. q[i] = l[i]
      BY <1>0, <2>4, LogPlaces DEF Grows
    <3>2. IsLast(BeforeIn(l, i), p)
      BY <1>1, <1>7, <2>4
    <3>3. Follows(l, p, l[i])
      BY <2>4, <3>2 DEF LogRight
    <3>4. QED  BY <2>2, <2>3, <3>1, <3>3 DEF Follows
  <2>5. CASE i = Len(l) + 1 /\ e.kind # "EVENT"
    <3>1. q[i] = e
      BY <2>5 DEF Grows
    <3>2. IsLast(WrittenIn(l), p)
      BY <1>1, <1>7, <2>5
    <3>3. Follows(l, p, e)
      BY <2>5, <3>2 DEF Fits
    <3>4. QED  BY <2>2, <2>3, <3>1, <3>3 DEF Follows
  <2>6. QED  BY <1>1, <2>4, <2>5
<1>8. QED  BY <1>4, <1>5, <1>6, <1>7 DEF LogRight

\* Whatever is neither fits where nothing is due, and an error, a START or an
\* event always does.
LEMMA OtherEntry ==
    ASSUME NEW l, NEW e, NEW q, Grows(l, e, q), LogRight(l), e.kind \notin {"sample", "TRANSITION"},
           NothingDue(l) \/ e.kind \in {"EVENT", "MONITOR_ERROR", "START"}
    PROVE  /\ LogRight(q)
           /\ NothingDue(l) \/ e.kind # "EVENT" => NothingDue(q)
           /\ e.kind = "EVENT" => \A v : Announcing(l, v) => Announcing(q, v)
<1>1. Fits(l, e)
  BY DEF Fits, NothingDue, Follows
<1>2. LogRight(q)
  BY <1>1, GrownRight
<1>3. CASE e.kind = "EVENT"
  <2>1. WrittenIn(q) = WrittenIn(l)
    BY <1>3, GrownWritten
  <2>2. \A m \in WrittenIn(l) : q[m] = l[m]
    BY LogPlaces DEF Grows
  <2>3. \A m \in WrittenIn(l) : ChangedIn(q, m) <=> ChangedIn(l, m)
    BY ChangedStays
  <2>4. NothingDue(l) => NothingDue(q)
    BY <2>1, <2>2, <2>3 DEF NothingDue, IsLast
  <2>5. \A v : Announcing(l, v) => Announcing(q, v)
    BY <2>1, <2>2, <2>3 DEF Announcing, IsLast
  <2>6. QED  BY <1>2, <1>3, <2>4, <2>5
<1>4. CASE e.kind # "EVENT"
  <2>1. \A m : IsLast(WrittenIn(q), m) => m = Len(l) + 1
    BY <1>4, NewLast
  <2>2. q[Len(l) + 1].kind # "sample"
    BY DEF Grows
  <2>3. QED  BY <1>2, <1>4, <2>1, <2>2 DEF NothingDue
<1>5. QED  BY <1>3, <1>4

\* A sample fits where nothing is due.
LEMMA SampleEntry ==
    ASSUME NEW l, NEW e, NEW q, Grows(l, e, q), LogRight(l), NothingDue(l), e.kind = "sample"
    PROVE  /\ LogRight(q)
           /\ ~ChangedIn(q, Len(l) + 1) => NothingDue(q)
           /\ ChangedIn(q, Len(l) + 1) => Announcing(q, e.value)
<1>1. Fits(l, e)
  BY DEF Fits, NothingDue, Follows
<1>2. LogRight(q)
  BY <1>1, GrownRight
<1>3. IsLast(WrittenIn(q), Len(l) + 1) /\ \A m : IsLast(WrittenIn(q), m) => m = Len(l) + 1
  BY NewLast
<1>4. q[Len(l) + 1] = e
  BY DEF Grows
<1>5. QED  BY <1>2, <1>3, <1>4 DEF NothingDue, Announcing

\* So does the transition of the sample that is last.
LEMMA TransitionEntry ==
    ASSUME NEW l, NEW e, NEW q, Grows(l, e, q), LogRight(l), e.kind = "TRANSITION", Announcing(l, e.value)
    PROVE  LogRight(q) /\ NothingDue(q)
<1>0. WrittenIn(l) \in SUBSET Nat
  BY LogPlaces DEF Grows
<1>1. PICK m : IsLast(WrittenIn(l), m) /\ l[m].kind = "sample" /\ ChangedIn(l, m) /\ l[m].value = e.value
  BY DEF Announcing
<1>2. \A p : IsLast(WrittenIn(l), p) => p = m
  BY <1>0, <1>1, OneLast
<1>3. Fits(l, e)
  BY <1>1, <1>2 DEF Fits, Follows
<1>4. LogRight(q)
  BY <1>3, GrownRight
<1>5. \A p : IsLast(WrittenIn(q), p) => p = Len(l) + 1
  BY NewLast
<1>6. q[Len(l) + 1].kind # "sample"
  BY DEF Grows
<1>7. QED  BY <1>4, <1>5, <1>6 DEF NothingDue

\* The signature the thread keeps, for a log.
SignatureIn(l) == IF ScansIn(l) = {} THEN NoSignature ELSE l[LastOf(ScansIn(l))].value

LEMMA SignatureStays ==
    ASSUME NEW l, NEW e, NEW q, Grows(l, e, q), LogRight(l)
    PROVE  /\ e.kind = "START" => SignatureIn(q) = NoSignature
           /\ Scanned(e) => SignatureIn(q) = e.value
           /\ e.kind \in {"EVENT", "TRANSITION", "STOP"} => SignatureIn(q) = SignatureIn(l)
<1>0. l \in Seq(Entries) /\ q \in Seq(Entries)
  BY DEF Grows
<1>1. ScansIn(q) = IF e.kind = "START" THEN {}
                   ELSE IF Scanned(e) THEN ScansIn(l) \cup {Len(l) + 1} ELSE ScansIn(l)
  BY GrownEarlier
<1>2. ASSUME Scanned(e) PROVE SignatureIn(q) = e.value
  <2>1. ScansIn(q) = ScansIn(l) \cup {Len(l) + 1}
    BY <1>1, <1>2 DEF Scanned
  <2>2. \A j \in ScansIn(q) : j <= Len(l) + 1
    BY <1>0, <2>1, LogPlaces DEF ScansIn
  <2>3. IsLast(ScansIn(q), Len(l) + 1)
    BY <2>1, <2>2 DEF IsLast
  <2>4. ScansIn(q) \in SUBSET Nat
    BY <1>0, LogPlaces
  <2>5. LastOf(ScansIn(q)) = Len(l) + 1
    BY <2>3, <2>4, LastIs
  <2>6. QED  BY <2>1, <2>5 DEF SignatureIn, Grows
<1>3. ASSUME e.kind \in {"EVENT", "TRANSITION", "STOP"} PROVE SignatureIn(q) = SignatureIn(l)
  <2>1. ScansIn(q) = ScansIn(l)
    BY <1>1, <1>3 DEF Scanned
  <2>2. ScansIn(l) # {} => LastOf(ScansIn(l)) \in ScansIn(l)
    BY LastOfIn DEF LogRight
  <2>3. \A m \in ScansIn(l) : q[m] = l[m]
    <3>1. \A m \in ScansIn(l) : m \in 1..Len(l)
      BY <1>0, LogPlaces DEF ScansIn
    <3>2. QED  BY <3>1 DEF Grows
  <2>4. QED  BY <2>1, <2>2, <2>3 DEF SignatureIn
<1>4. e.kind = "START" => SignatureIn(q) = NoSignature
  BY <1>1 DEF SignatureIn
<1>5. QED  BY <1>2, <1>3, <1>4

\* What the log has of one session after the other.
StopsLast(l) == \A m : IsLast(WrittenIn(l), m) => l[m].kind = "STOP"
StartsAfterStop(l) ==
    \A i \in WrittenIn(l) : l[i].kind = "START" => \A p : IsLast(BeforeIn(l, i), p) => l[p].kind = "STOP"

LEMMA SessionStays ==
    ASSUME NEW l, NEW e, NEW q, Grows(l, e, q), StartsAfterStop(l), e.kind = "START" => StopsLast(l)
    PROVE  /\ StartsAfterStop(q)
           /\ e.kind = "STOP" => StopsLast(q)
           /\ e.kind = "EVENT" /\ StopsLast(l) => StopsLast(q)
<1>0. l \in Seq(Entries) /\ Len(l) \in Nat
  BY LogPlaces DEF Grows
<1>1. /\ WrittenIn(q) = IF e.kind = "EVENT" THEN WrittenIn(l) ELSE WrittenIn(l) \cup {Len(l) + 1}
      /\ BeforeIn(q, Len(l) + 1) = WrittenIn(l)
      /\ \A i \in WrittenIn(l) : BeforeIn(q, i) = BeforeIn(l, i)
  BY GrownWritten
<1>2. \A m \in WrittenIn(l) : q[m] = l[m]
  <2>1. \A m \in WrittenIn(l) : m \in 1..Len(l)
    BY <1>0, LogPlaces
  <2>2. QED  BY <2>1 DEF Grows
<1>3. q[Len(l) + 1] = e
  BY DEF Grows
<1>4. ASSUME NEW i \in WrittenIn(q), q[i].kind = "START", NEW p, IsLast(BeforeIn(q, i), p)
      PROVE  q[p].kind = "STOP"
  <2>1. p \in BeforeIn(q, i)
    BY <1>4 DEF IsLast
  <2>2. CASE i \in WrittenIn(l)
    <3>1. p \in WrittenIn(l)
      BY <1>1, <2>1, <2>2 DEF BeforeIn
    <3>2. QED  BY <1>1, <1>2, <1>4, <2>2, <3>1 DEF StartsAfterStop
  <2>3. CASE i = Len(l) + 1
    <3>1. p \in WrittenIn(l) /\ IsLast(WrittenIn(l), p) /\ e.kind = "START"
      BY <1>1, <1>3, <1>4, <2>1, <2>3
    <3>2. QED  BY <1>2, <3>1 DEF StopsLast
  <2>4. QED  BY <1>1, <1>4, <2>2, <2>3
<1>5. StartsAfterStop(q)
  BY <1>4 DEF StartsAfterStop
<1>6. e.kind = "STOP" => StopsLast(q)
  BY <1>3, NewLast DEF StopsLast
<1>7. e.kind = "EVENT" /\ StopsLast(l) => StopsLast(q)
  BY <1>1, <1>2 DEF StopsLast, IsLast
<1>8. QED  BY <1>5, <1>6, <1>7

LogInv == log \in Seq(Entries) /\ LogRight(log)
Sampling == {"runs", "found change", "found same"}
ThreadInv ==
    /\ topology \in Topologies
    /\ monitor \in {"none", "begins", "announces", "errs", "over"} \cup Sampling
    /\ monitor = "begins" => lastSignature = NoSignature
    /\ monitor \in {"runs", "found same", "announces"} => lastSignature = SignatureIn(log)
    /\ monitor = "found change" => lastSignature # SignatureIn(log)
    /\ monitor \in {"found change", "found same", "announces", "errs"} => lastSignature \in Topologies
DueInv ==
    /\ monitor \in Sampling => NothingDue(log)
    /\ monitor = "announces" => Announcing(log, lastSignature)
SessionInv ==
    ~leftBehind =>
      /\ watched \in {"on", "off", "stopping"}
      /\ watched = "on" => MonitorRunning /\ ~stopFlag
      /\ watched = "off" => ~MonitorRunning
      /\ monitor \in {"none", "begins", "over"} => StopsLast(log)
      /\ StartsAfterStop(log)
DiagnosticInv == LogInv /\ ThreadInv /\ DueInv /\ SessionInv

LEMMA InitDiagnostic == DiagnosticInit => DiagnosticInv
<1> SUFFICES ASSUME DiagnosticInit PROVE DiagnosticInv
  OBVIOUS
<1>1. log = << >> /\ << >> \in Seq(Entries) /\ DOMAIN << >> = {}
  BY DEF DiagnosticInit
<1>2. WrittenIn(log) = {}
  BY <1>1 DEF WrittenIn
<1>3. ScansIn(log) = {}
  BY <1>2 DEF ScansIn
<1>4. LogInv
  BY <1>1, <1>2, <1>3 DEF LogInv, LogRight, HasLast, IsLast
<1>5. topology \in Topologies
  BY DiagnosticAssumption DEF DiagnosticInit
<1>6. ThreadInv /\ DueInv /\ SessionInv
  BY <1>2, <1>5 DEF ThreadInv, DueInv, Sampling, SessionInv, DiagnosticInit, StopsLast, StartsAfterStop, IsLast, MonitorRunning
<1>7. QED  BY <1>4, <1>6 DEF DiagnosticInv

LEMMA EntryIs ==
    ASSUME NEW kind \in Kinds, NEW value \in Topologies \cup {NoSignature}
    PROVE  Entry(kind, value) \in Entries /\ Entry(kind, value).kind = kind /\ Entry(kind, value).value = value
  BY DEF Entry, Entries

LEMMA OneLogged ==
    ASSUME LogInv, NEW kind \in Kinds, NEW value \in Topologies \cup {NoSignature},
           Logged(<<Entry(kind, value)>>)
    PROVE  Grows(log, Entry(kind, value), log')
<1>1. log' = Append(log, Entry(kind, value))
  BY EntryIs DEF Logged, LogInv
<1>2. QED  BY <1>1, EntryIs, AppendGrows DEF LogInv

\* An entry that is neither a sample nor a transition keeps the log as it must be.
LEMMA OneEntry ==
    ASSUME LogInv, NEW kind \in Kinds \ {"sample", "TRANSITION"}, NEW value \in Topologies \cup {NoSignature},
           Logged(<<Entry(kind, value)>>), NothingDue(log) \/ kind \in {"EVENT", "MONITOR_ERROR", "START"}
    PROVE  /\ LogInv'
           /\ NothingDue(log) \/ kind # "EVENT" => NothingDue(log')
           /\ kind = "EVENT" => \A v : Announcing(log, v) => Announcing(log', v)
           /\ kind = "START" => SignatureIn(log') = NoSignature
           /\ kind = "MONITOR_ERROR" => SignatureIn(log') = value
           /\ kind \in {"EVENT", "STOP"} => SignatureIn(log') = SignatureIn(log)
           /\ StartsAfterStop(log) /\ (kind = "START" => StopsLast(log)) =>
                /\ StartsAfterStop(log')
                /\ kind = "STOP" => StopsLast(log')
                /\ kind = "EVENT" /\ StopsLast(log) => StopsLast(log')
<1> DEFINE e == Entry(kind, value)
<1>1. Grows(log, e, log') /\ e.kind = kind /\ e.value = value
  BY OneLogged, EntryIs
<1> HIDE DEF e
<1>2. LogRight(log)
  BY DEF LogInv
<1>3. /\ LogRight(log') /\ (NothingDue(log) \/ kind # "EVENT" => NothingDue(log'))
      /\ kind = "EVENT" => \A v : Announcing(log, v) => Announcing(log', v)
  BY <1>1, <1>2, OtherEntry
<1>4. LogInv'
  BY <1>1, <1>3 DEF LogInv, Grows
<1>5. Scanned(e) <=> kind = "MONITOR_ERROR"
  BY <1>1 DEF Scanned
<1>6. QED  BY <1>1, <1>2, <1>3, <1>4, <1>5, SignatureStays, SessionStays

\* A sample of what was found.
LEMMA SampleLogged ==
    ASSUME LogInv, NothingDue(log), lastSignature \in Topologies, Logged(<<Entry("sample", lastSignature)>>)
    PROVE  /\ LogInv' /\ SignatureIn(log') = lastSignature
           /\ lastSignature # SignatureIn(log) => Announcing(log', lastSignature)
           /\ lastSignature = SignatureIn(log) => NothingDue(log')
           /\ StartsAfterStop(log) => StartsAfterStop(log')
<1> DEFINE e == Entry("sample", lastSignature)
<1>0. "sample" \in Kinds
  BY DEF Kinds
<1>1. Grows(log, e, log') /\ e.kind = "sample" /\ e.value = lastSignature
  BY <1>0, OneLogged, EntryIs
<1> HIDE DEF e
<1>2. LogRight(log)
  BY DEF LogInv
<1>3. /\ LogRight(log') /\ (~ChangedIn(log', Len(log) + 1) => NothingDue(log'))
      /\ ChangedIn(log', Len(log) + 1) => Announcing(log', lastSignature)
  BY <1>1, <1>2, SampleEntry
<1>4. ChangedIn(log', Len(log) + 1) <=> lastSignature # SignatureIn(log)
  <2>1. ChangedIn(log', Len(log) + 1) <=> (ScansIn(log) # {} => log[LastOf(ScansIn(log))].value # lastSignature)
    BY <1>1, <1>2, NewChanged
  <2>2. CASE ScansIn(log) = {}
    BY <2>1, <2>2, DiagnosticAssumption DEF SignatureIn, DiagnosticAssumption
  <2>3. CASE ScansIn(log) # {}
    BY <2>1, <2>3 DEF SignatureIn
  <2>4. QED  BY <2>2, <2>3
<1>5. Scanned(e)
  BY <1>1 DEF Scanned
<1>6. SignatureIn(log') = lastSignature
  BY <1>1, <1>2, <1>5, SignatureStays
<1>7. StartsAfterStop(log) => StartsAfterStop(log')
  BY <1>1, SessionStays
<1>8. LogInv'
  BY <1>1, <1>3 DEF LogInv, Grows
<1>9. QED  BY <1>3, <1>4, <1>6, <1>7, <1>8

\* Its transition.
LEMMA TransitionLogged ==
    ASSUME LogInv, Announcing(log, lastSignature), lastSignature \in Topologies,
           Logged(<<Entry("TRANSITION", lastSignature)>>)
    PROVE  /\ LogInv' /\ SignatureIn(log') = SignatureIn(log) /\ NothingDue(log')
           /\ StartsAfterStop(log) => StartsAfterStop(log')
<1> DEFINE e == Entry("TRANSITION", lastSignature)
<1>0. "TRANSITION" \in Kinds
  BY DEF Kinds
<1>1. Grows(log, e, log') /\ e.kind = "TRANSITION" /\ e.value = lastSignature
  BY <1>0, OneLogged, EntryIs
<1> HIDE DEF e
<1>2. LogRight(log)
  BY DEF LogInv
<1>3. LogRight(log') /\ NothingDue(log')
  BY <1>1, <1>2, TransitionEntry
<1>4. SignatureIn(log') = SignatureIn(log)
  BY <1>1, <1>2, SignatureStays
<1>5. StartsAfterStop(log) => StartsAfterStop(log')
  BY <1>1, SessionStays
<1>6. QED  BY <1>1, <1>3, <1>4, <1>5 DEF LogInv, Grows

LEMMA StepDiagnostic == DiagnosticInv /\ [DiagnosticNext]_diagnosticVars => DiagnosticInv'
<1> SUFFICES ASSUME DiagnosticInv, [DiagnosticNext]_diagnosticVars PROVE DiagnosticInv'
  OBVIOUS
<1> USE DEF DiagnosticInv
<1>0. NoSignature \in Topologies \cup {NoSignature}
  OBVIOUS
<1>1. ASSUME UNCHANGED log PROVE LogInv'
  BY <1>1 DEF LogInv
<1>2. CASE UNCHANGED diagnosticVars
  BY <1>1, <1>2 DEF diagnosticVars, ThreadInv, DueInv, SessionInv, MonitorRunning
<1>3. CASE StartDiagnostics
  BY <1>1, <1>3 DEF StartDiagnostics, Launched, ThreadInv, DueInv, Sampling, SessionInv, MonitorRunning
<1>4. CASE Note
  <2>1. "EVENT" \in Kinds \ {"sample", "TRANSITION"}
    BY DEF Kinds
  <2>2. /\ Logged(<<Entry("EVENT", NoSignature)>>)
        /\ UNCHANGED <<watched, monitor, stopFlag, topology, lastSignature, leftBehind>>
    BY <1>4 DEF Note
  <2>3. /\ LogInv' /\ SignatureIn(log') = SignatureIn(log)
        /\ NothingDue(log) => NothingDue(log')
        /\ \A v : Announcing(log, v) => Announcing(log', v)
        /\ StartsAfterStop(log) => StartsAfterStop(log') /\ (StopsLast(log) => StopsLast(log'))
    BY <1>0, <2>1, <2>2, OneEntry
  <2>4. QED  BY <2>2, <2>3 DEF ThreadInv, DueInv, SessionInv, MonitorRunning
<1>5. CASE StopDiagnostics
  BY <1>1, <1>5 DEF StopDiagnostics, ThreadInv, DueInv, SessionInv, MonitorRunning
<1>6. CASE JoinDiagnostics
  BY <1>1, <1>6 DEF JoinDiagnostics, ThreadInv, DueInv, SessionInv, MonitorRunning
<1>7. CASE MonitorBegins
  <2>1. "START" \in Kinds \ {"sample", "TRANSITION"}
    BY DEF Kinds
  <2>2. /\ Logged(<<Entry("START", NoSignature)>>) /\ monitor = "begins" /\ monitor' = "runs"
        /\ UNCHANGED <<watched, stopFlag, topology, lastSignature, leftBehind>>
    BY <1>7 DEF MonitorBegins
  <2>3. /\ LogInv' /\ SignatureIn(log') = NoSignature /\ NothingDue(log')
        /\ StartsAfterStop(log) /\ StopsLast(log) => StartsAfterStop(log')
    BY <1>0, <2>1, <2>2, OneEntry
  <2>4. QED  BY <2>2, <2>3 DEF ThreadInv, DueInv, Sampling, SessionInv, MonitorRunning
<1>8. CASE TakeSignature
  BY <1>1, <1>8 DEF TakeSignature, ThreadInv, DueInv, Sampling, SessionInv, MonitorRunning
<1>9. CASE AppendSample
  <2>1. /\ monitor \in {"found change", "found same"} /\ Logged(<<Entry("sample", lastSignature)>>)
        /\ monitor' = (IF monitor = "found change" THEN "announces" ELSE "runs")
        /\ UNCHANGED <<watched, stopFlag, topology, lastSignature, leftBehind>>
    BY <1>9 DEF AppendSample
  <2>2. lastSignature \in Topologies /\ NothingDue(log)
    BY <2>1 DEF ThreadInv, DueInv, Sampling
  <2>3. /\ LogInv' /\ SignatureIn(log') = lastSignature
        /\ lastSignature # SignatureIn(log) => Announcing(log', lastSignature)
        /\ lastSignature = SignatureIn(log) => NothingDue(log')
        /\ StartsAfterStop(log) => StartsAfterStop(log')
    BY <2>1, <2>2, SampleLogged
  <2>4. QED  BY <2>1, <2>2, <2>3 DEF ThreadInv, DueInv, Sampling, SessionInv, MonitorRunning
<1>10. CASE AppendTransition
  <2>1. /\ monitor = "announces" /\ monitor' = "runs" /\ Logged(<<Entry("TRANSITION", lastSignature)>>)
        /\ UNCHANGED <<watched, stopFlag, topology, lastSignature, leftBehind>>
    BY <1>10 DEF AppendTransition
  <2>2. lastSignature \in Topologies /\ Announcing(log, lastSignature)
    BY <2>1 DEF ThreadInv, DueInv
  <2>3. /\ LogInv' /\ SignatureIn(log') = SignatureIn(log) /\ NothingDue(log')
        /\ StartsAfterStop(log) => StartsAfterStop(log')
    BY <2>1, <2>2, TransitionLogged
  <2>4. QED  BY <2>1, <2>2, <2>3 DEF ThreadInv, DueInv, Sampling, SessionInv, MonitorRunning
<1>11. CASE SampleFails
  BY <1>1, <1>11 DEF SampleFails, ThreadInv, DueInv, Sampling, SessionInv, MonitorRunning
<1>12. CASE AppendError
  <2>1. "MONITOR_ERROR" \in Kinds \ {"sample", "TRANSITION"}
    BY DEF Kinds
  <2>2. /\ Logged(<<Entry("MONITOR_ERROR", lastSignature)>>) /\ monitor = "errs" /\ monitor' = "runs"
        /\ UNCHANGED <<watched, stopFlag, topology, lastSignature, leftBehind>>
    BY <1>12 DEF AppendError
  <2>3. lastSignature \in Topologies \cup {NoSignature} /\ lastSignature \in Topologies
    BY <2>2 DEF ThreadInv
  <2>4. /\ LogInv' /\ SignatureIn(log') = lastSignature /\ NothingDue(log')
        /\ StartsAfterStop(log) => StartsAfterStop(log')
    BY <2>1, <2>2, <2>3, OneEntry
  <2>5. QED  BY <2>2, <2>3, <2>4 DEF ThreadInv, DueInv, Sampling, SessionInv, MonitorRunning
<1>13. CASE MonitorEnds
  <2>1. "STOP" \in Kinds \ {"sample", "TRANSITION"}
    BY DEF Kinds
  <2>2. /\ Logged(<<Entry("STOP", NoSignature)>>) /\ monitor = "runs" /\ stopFlag /\ monitor' = "over"
        /\ UNCHANGED <<watched, stopFlag, topology, lastSignature, leftBehind>>
    BY <1>13 DEF MonitorEnds
  <2>3. NothingDue(log)
    BY <2>2 DEF DueInv, Sampling
  <2>4. /\ LogInv'
        /\ StartsAfterStop(log) => StartsAfterStop(log') /\ StopsLast(log')
    BY <1>0, <2>1, <2>2, <2>3, OneEntry
  <2>5. QED  BY <2>2, <2>4 DEF ThreadInv, DueInv, Sampling, SessionInv, MonitorRunning
<1>14. CASE MonitorDies
  BY <1>1, <1>14 DEF MonitorDies, ThreadInv, DueInv, Sampling, SessionInv
<1>15. CASE TopologyChanges
  BY <1>1, <1>15 DEF TopologyChanges, ThreadInv, DueInv, SessionInv, MonitorRunning
<1>16. QED
  BY <1>2, <1>3, <1>4, <1>5, <1>6, <1>7, <1>8, <1>9, <1>10, <1>11, <1>12, <1>13, <1>14, <1>15 DEF DiagnosticNext

\* For any topologies and any length of the log: while no thread was given up or
\* died, a session is watched from its start to its end and its log says so; and
\* whichever appends fail or are interleaved, a transition stands only after a
\* sample that differs from what the thread saw before, with what that sample has,
\* and after such a sample comes its transition, an error, or another thread.
THEOREM DiagnosticsTellWhatWasSeen == DiagnosticSpec => []DiagnosticsComplete
<1>1. DiagnosticInv => DiagnosticsComplete
  <2> SUFFICES ASSUME DiagnosticInv PROVE DiagnosticsComplete
    OBVIOUS
  <2>1. LogRight(log) /\ log \in Seq(Entries) /\ SessionInv
    BY DEF DiagnosticInv, LogInv
  <2>2. Written = WrittenIn(log) /\ \A i : WrittenBefore(i) = BeforeIn(log, i)
    BY DEF Written, WrittenIn, WrittenBefore, BeforeIn
  <2>3. \A S : S \in SUBSET Nat /\ HasLast(S) /\ S # {} => IsLast(S, LastOf(S))
    BY LastIs DEF HasLast
  <2>4. /\ WrittenIn(log) \in SUBSET Nat /\ HasLast(WrittenIn(log))
        /\ \A i \in WrittenIn(log) : BeforeIn(log, i) \in SUBSET Nat /\ HasLast(BeforeIn(log, i))
    BY <2>1, LogPlaces DEF LogRight
  <2>5. ~leftBehind =>
          /\ watched = "on" => MonitorRunning /\ ~stopFlag
          /\ watched = "off" => ~MonitorRunning /\ (Written # {} => log[LastOf(Written)].kind = "STOP")
          /\ \A i \in Written : log[i].kind = "START" /\ WrittenBefore(i) # {} =>
               log[LastOf(WrittenBefore(i))].kind = "STOP"
    BY <2>1, <2>2, <2>3, <2>4 DEF SessionInv, StopsLast, StartsAfterStop, MonitorRunning
  <2>6. ASSUME NEW i \in Written, WrittenBefore(i) # {}
        PROVE  Follows(log, LastOf(WrittenBefore(i)), log[i])
    <3>1. IsLast(BeforeIn(log, i), LastOf(WrittenBefore(i)))
      BY <2>2, <2>3, <2>4, <2>6
    <3>2. QED  BY <2>1, <2>2, <2>6, <3>1 DEF LogRight
  <2>7. ASSUME NEW p PROVE {j \in WrittenBefore(p) : Scanned(log[j]) /\ \A k \in j..p : log[k].kind # "START"}
                           = EarlierIn(log, p)
    BY <2>2 DEF EarlierIn
  <2>8. QED  BY <2>5, <2>6, <2>7, Zenon DEF DiagnosticsComplete, Follows, ChangedIn
<1>2. QED  BY <1>1, InitDiagnostic, StepDiagnostic, PTL DEF DiagnosticSpec

-----------------------------------------------------------------------------
(* Supervision: each step is one of a part, or leaves it alone. *)

LEMMA StepOfParts ==
  ASSUME [SupervisionNext]_supervisionVars
  PROVE  /\ [Next]_vars /\ [KeepaliveNext]_keepaliveVars /\ [ViewNext]_viewVars
         /\ [DiagnosticNext]_diagnosticVars /\ [LegacyViewNext]_legacyViewVars
<1>1. CASE OfHealth(Next)
  BY <1>1 DEF OfHealth, OthersUnchanged
<1>2. CASE OfKeepalive(KeepaliveNext)
  BY <1>2 DEF OfKeepalive, OthersUnchanged
<1>3. CASE OfView(ViewNext)
  BY <1>3 DEF OfView, OthersUnchanged
<1>4. CASE OfDiagnostics(DiagnosticNext)
  BY <1>4 DEF OfDiagnostics, OthersUnchanged
<1>5. CASE OfLegacy(LegacyViewNext)
  BY <1>5 DEF OfLegacy, OthersUnchanged
<1>6. CASE UNCHANGED supervisionVars
  BY <1>6 DEF supervisionVars
<1>7. QED  BY <1>1, <1>2, <1>3, <1>4, <1>5, <1>6 DEF SupervisionNext

LEMMA SupervisionHasParts == 
  SupervisionFairSpec =>
    /\ Spec /\ KeepaliveSpec
    /\ ViewInit /\ [][ViewNext]_viewVars
    /\ DiagnosticSpec /\ LegacyViewSpec
<1>1. SupervisionInit => Init /\ KeepaliveInit /\ ViewInit /\ DiagnosticInit /\ LegacyViewInit
  BY DEF SupervisionInit
<1>2. QED  BY <1>1, StepOfParts, PTL DEF SupervisionFairSpec, Spec, KeepaliveSpec, DiagnosticSpec, LegacyViewSpec

\* What stands around the runtime keeps what its parts promise.
THEOREM SupervisionKeepsPromises ==
  SupervisionFairSpec =>
    /\ [](RestartNeedsEvidence /\ AudioFollowsSession /\ ExitLeavesNothing /\ DiagnosticsComplete)
    /\ ~ServersRejectHosts => []LegacyViewTruthful
<1>1. SupervisionFairSpec => [](RestartNeedsEvidence /\ AudioFollowsSession /\ ExitLeavesNothing /\ DiagnosticsComplete)
  BY SupervisionHasParts, RestartsHaveEvidence, AudioGoesWithSession, ViewExits, DiagnosticsTellWhatWasSeen, PTL
<1>2. ASSUME ~ServersRejectHosts PROVE SupervisionFairSpec => []LegacyViewTruthful
  <2>1. LegacyViewSpec => []LegacyViewTruthful
    BY <1>2, LegacyViewSaysWhatIs
  <2>2. QED  BY <2>1, SupervisionHasParts, PTL
<1>3. QED  BY <1>1, <1>2
=============================================================================
