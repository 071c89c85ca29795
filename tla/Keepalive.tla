----------------------------- MODULE Keepalive -----------------------------
(***************************************************************************)
(* KeepaliveManager (lib/keepalive.py): the silent audio that keeps iOS    *)
(* from suspending the app, and the supervisor threads that repair it.     *)
(* The controller is StableServerManager's start() and stop(), which call  *)
(* it; the runtime thread repairs the audio as well, through               *)
(* _background_runtime_monitor.  Methods that hold the lock from end to    *)
(* end are single steps.                                                   *)
(***************************************************************************)
EXTENDS Naturals, FiniteSets

CONSTANTS
    Supervisors,      \* the supervisor threads there can be, 1..n
    MaxInterruptions, \* bound on the interruptions by iOS
    JoinsTimeOut      \* whether the joins of stop() can time out

ASSUME KeepaliveAssumption ==
    /\ Supervisors = 1..Cardinality(Supervisors)
    /\ MaxInterruptions \in Nat /\ JoinsTimeOut \in BOOLEAN

VARIABLES
    controller,       \* "off", "started", "on" or where stop() is
    runtime,          \* the runtime thread is alive
    supervisor,       \* a supervisor: "none", "waiting", "woken" or "ended"
    supervisorThread, \* _supervisor_thread, 0 for None
    supervisorStop,   \* _supervisor_stop is set
    active,           \* _active
    player,           \* _player: "none", "playing" or "silent"
    session,          \* the audio session is active
    refused,          \* iOS refuses playback: a call, another app's audio
    interruptions,
    lateJoin          \* a join has timed out (not in the code)

audio == <<active, player, session>>
ios == <<refused, interruptions>>
threads == <<supervisor, supervisorThread, supervisorStop>>
keepaliveVars == <<controller, runtime, threads, audio, ios, lateJoin>>

KeepaliveInit ==
    /\ controller = "off" /\ runtime = FALSE
    /\ supervisor = [t \in Supervisors |-> "none"]
    /\ supervisorThread = 0 /\ supervisorStop = FALSE
    /\ active = FALSE /\ player = "none" /\ session = FALSE
    /\ refused = FALSE /\ interruptions = 0
    /\ lateJoin = FALSE

SupervisorAlive(t) == supervisor[t] \in {"waiting", "woken"}
AliveSupervisors == {t \in Supervisors : SupervisorAlive(t)}

-----------------------------------------------------------------------------
(* The audio. *)

\* start(), of an audio that is not active: the session and a new player.
\* When iOS refuses, an exception leaves what was made so far; or setActive() and
\* play() say so in results that nobody looks at.
CreatePlayer ==
    \/ /\ ~refused
       /\ active' = TRUE /\ player' = "playing" /\ session' = TRUE
    \/ /\ refused
       /\ active' = FALSE
       /\ \/ UNCHANGED <<player, session>>
          \/ session' = TRUE /\ player' \in {player, "silent"}
    \/ /\ refused
       /\ active' = TRUE /\ player' = "silent" /\ session' \in {session, TRUE}

StartAudio == IF active THEN UNCHANGED audio ELSE CreatePlayer

\* ensure_active(): a player that fell silent is played again, and when that
\* fails all of it is made anew.
EnsureActive ==
    CASE active /\ player = "playing" -> UNCHANGED audio
      [] active /\ player = "silent" ->
            \/ ~refused /\ player' = "playing" /\ session' = TRUE /\ UNCHANGED active
            \/ CreatePlayer
      [] OTHER -> StartAudio

ReleaseAudio == active' = FALSE /\ player' = "none" /\ session' = FALSE

-----------------------------------------------------------------------------
(* StableServerManager's calls. *)

\* start() begins the audio before the supervisor and the runtime.
ControllerStarts ==
    /\ controller = "off" /\ ~runtime
    /\ controller' = "started"
    /\ StartAudio
    /\ UNCHANGED <<runtime, threads, ios, lateJoin>>

\* Faulty variant: the stop event of the session before stays set.
StartSupervisor_StaysStopped(t) ==
    /\ supervisor[t] = "none" /\ \A u \in Supervisors : u < t => supervisor[u] # "none"
    /\ supervisor' = [supervisor EXCEPT ![t] = "waiting"]
    /\ supervisorThread' = t
    /\ UNCHANGED supervisorStop

\* start_supervisor(), when no supervisor is known to be alive.
StartSupervisor(t) ==
    /\ supervisor[t] = "none" /\ \A u \in Supervisors : u < t => supervisor[u] # "none"
    /\ supervisor' = [supervisor EXCEPT ![t] = "waiting"]
    /\ supervisorThread' = t
    /\ supervisorStop' = FALSE

ControllerSupervises ==
    /\ controller = "started"
    /\ controller' = "on" /\ runtime' = TRUE
    /\ IF supervisorThread # 0 /\ SupervisorAlive(supervisorThread)
       THEN UNCHANGED threads
       ELSE \E t \in Supervisors : StartSupervisor(t)
    /\ UNCHANGED <<audio, ios, lateJoin>>

ControllerStops ==
    /\ controller = "on"
    /\ controller' = "joining runtime"
    /\ UNCHANGED <<runtime, threads, audio, ios, lateJoin>>

Joined(over) ==
    \/ over /\ UNCHANGED lateJoin
    \/ ~over /\ JoinsTimeOut /\ lateJoin' = TRUE

\* stop_supervisor(): its join of 1.5 s comes after the event is set.
RuntimeJoined ==
    /\ controller = "joining runtime"
    /\ Joined(~runtime)
    /\ supervisorStop' = TRUE
    /\ controller' = "joining supervisor"
    /\ UNCHANGED <<runtime, supervisor, supervisorThread, audio, ios>>

\* Faulty variant: the supervisor is not joined.
SupervisorOver_NotJoined == TRUE

SupervisorOver == supervisorThread # 0 => ~SupervisorAlive(supervisorThread)

SupervisorJoined ==
    /\ controller = "joining supervisor"
    /\ Joined(SupervisorOver)
    /\ supervisorThread' = 0
    /\ controller' = "releasing"
    /\ UNCHANGED <<runtime, supervisor, supervisorStop, audio, ios>>

\* The rest of stop().
ControllerReleases ==
    /\ controller = "releasing"
    /\ ReleaseAudio
    /\ controller' = "off"
    /\ UNCHANGED <<runtime, threads, ios, lateJoin>>

-----------------------------------------------------------------------------
(* The other threads, and iOS. *)

\* _supervisor_main(): wait() has timed out, or the event is set.
SupervisorWakes(t) ==
    /\ supervisor[t] = "waiting"
    /\ supervisor' = [supervisor EXCEPT ![t] = IF supervisorStop THEN "ended" ELSE "woken"]
    /\ UNCHANGED <<controller, runtime, supervisorThread, supervisorStop, audio, ios, lateJoin>>

SupervisorEnsures(t) ==
    /\ supervisor[t] = "woken"
    /\ EnsureActive
    /\ supervisor' = [supervisor EXCEPT ![t] = "waiting"]
    /\ UNCHANGED <<controller, runtime, supervisorThread, supervisorStop, ios, lateJoin>>

RuntimeEnsures ==
    /\ runtime
    /\ EnsureActive
    /\ UNCHANGED <<controller, runtime, threads, ios, lateJoin>>

\* The runtime ends when it is told to, or by itself.
RuntimeOver ==
    /\ runtime /\ runtime' = FALSE
    /\ UNCHANGED <<controller, threads, audio, ios, lateJoin>>

Interrupt ==
    /\ interruptions < MaxInterruptions /\ ~refused
    /\ interruptions' = interruptions + 1
    /\ refused' = TRUE /\ session' = FALSE
    /\ player' = IF player = "none" THEN "none" ELSE "silent"
    /\ UNCHANGED <<controller, runtime, threads, active, lateJoin>>

InterruptionEnds ==
    /\ refused /\ refused' = FALSE
    /\ UNCHANGED <<controller, runtime, threads, audio, interruptions, lateJoin>>

SupervisorStep(t) == SupervisorWakes(t) \/ SupervisorEnsures(t)

\* A step of the session's supervisor.
SupervisorsTurn == supervisorThread # 0 /\ SupervisorStep(supervisorThread)

ControllerStep ==
    \/ ControllerStarts \/ ControllerSupervises \/ ControllerStops
    \/ RuntimeJoined \/ SupervisorJoined \/ ControllerReleases

KeepaliveNext ==
    \/ ControllerStep
    \/ \E t \in Supervisors : SupervisorStep(t)
    \/ RuntimeEnsures \/ RuntimeOver \/ Interrupt \/ InterruptionEnds

KeepaliveSpec == KeepaliveInit /\ [][KeepaliveNext]_keepaliveVars

-----------------------------------------------------------------------------
(* Properties. *)

\* After stop() nothing holds the audio, and nothing takes it again, whatever
\* a supervisor or the runtime was doing when stop() was called: unless a join
\* has timed out, when the thread that was given up may still take it.
AudioReleased ==
    controller = "off" /\ ~lateJoin => ~active /\ player = "none" /\ ~session

\* One supervisor at a time repairs the audio, across any number of sessions,
\* unless one was given up.
OneSupervisor == Cardinality(AliveSupervisors) <= 1 \/ lateJoin

\* A running session has its supervisor, also when an earlier one was given up
\* while it waited, and the stop event it is to see is not cleared behind it.
SessionSupervised ==
    controller = "on" =>
        /\ supervisorThread # 0 /\ SupervisorAlive(supervisorThread)
        /\ ~supervisorStop

\* The audio and the thread that repairs it belong to the session, and go with it.
AudioFollowsSession == AudioReleased /\ OneSupervisor /\ SessionSupervised

\* The audio of a running session is repaired after every interruption, by
\* the supervisor alone: the runtime's event loop may be stalled.
AudioRepaired == controller = "on" ~> player = "playing" \/ controller # "on"
=============================================================================
