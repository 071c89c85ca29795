---------------------------- MODULE HealthMonitor ----------------------------
(***************************************************************************)
(* _health_monitor (lib/stable_runtime.py): the task that probes the three *)
(* listeners over the loopback interface and asks for a restart when one   *)
(* of them is confirmed to be dead.  A probe may fail although its         *)
(* listener is alive; the monitor must not restart for that alone, and     *)
(* must not miss a listener that is really dead.                           *)
(*                                                                         *)
(* The three probes of a round are answered at one moment, and the monitor *)
(* is resumed with the answers later.                                      *)
(***************************************************************************)
EXTENDS Naturals

CONSTANTS
    FailuresBeforeRecovery,   \* health_failures_before_recovery
    Attempts,                 \* health_confirmation_attempts
    Diagnostics,              \* diagnostics_enabled
    MayDie,                   \* listeners may die
    MayFill,                  \* SOCKS may reach max_client_connections
    GlitchesOf,               \* the sets of listeners whose probes may fail
                              \* together while they are alive
    MaxPauses                 \* bound on how often the app goes to the
                              \* background, in background_lite_mode

Listeners == {"SOCKS", "HTTP", "WPAD"}

ASSUME HealthAssumption ==
    /\ FailuresBeforeRecovery \in Nat \ {0}
    /\ Attempts \in Nat \ {0}
    /\ Diagnostics \in BOOLEAN /\ MayDie \in BOOLEAN /\ MayFill \in BOOLEAN
    /\ GlitchesOf \subseteq SUBSET Listeners
    /\ MaxPauses \in Nat

VARIABLES
    alive,        \* the listeners whose task (or thread) and socket are alive
    full,         \* socks.connection_limit_reached
    glitched,     \* the listeners whose probes time out now
    background,   \* _pythonista_is_backgrounded()
    pauses,       \* how often it went to the background
    pc,           \* the await the monitor is suspended in
    answered,     \* the listeners that answered the round's probes
    failures,     \* failed rounds in a row
    warned,       \* a warning has been shown
    attempt,      \* rounds of the confirmation so far
    badRounds     \* rounds in a row with a probe that failed, counted up to
                  \* what a restart needs (not in the code)

envVars == <<alive, full, glitched, background, pauses>>
vars == <<envVars, pc, answered, failures, warned, attempt, badRounds>>

Enough == FailuresBeforeRecovery + Attempts

Init ==
    /\ alive = Listeners
    /\ full = FALSE
    /\ glitched = {}
    /\ background = FALSE
    /\ pauses = 0
    /\ pc = "sleep"
    /\ answered = Listeners
    /\ failures = 0
    /\ warned = FALSE
    /\ attempt = 0
    /\ badRounds = 0

-----------------------------------------------------------------------------
(* The listeners and the app *)

Others == <<pc, answered, failures, warned, attempt, badRounds>>

Dies ==
    /\ MayDie
    /\ \E l \in alive : alive' = alive \ {l}
    /\ UNCHANGED <<full, glitched, background, pauses, Others>>

Glitches ==
    /\ glitched' \in GlitchesOf \cup {{}}
    /\ UNCHANGED <<alive, full, background, pauses, Others>>

Fills ==
    /\ MayFill
    /\ full' = ~full
    /\ UNCHANGED <<alive, glitched, background, pauses, Others>>

EntersBackground ==
    /\ ~background /\ pauses < MaxPauses
    /\ background' = TRUE
    /\ pauses' = pauses + 1
    /\ UNCHANGED <<alive, full, glitched, Others>>

EntersForeground ==
    /\ background
    /\ background' = FALSE
    /\ UNCHANGED <<alive, full, glitched, pauses, Others>>

-----------------------------------------------------------------------------
(* _health_monitor *)

\* health_interval is over: in the background nothing is probed, and earlier
\* failures are forgotten.
Wakes ==
    /\ pc = "sleep"
    /\ IF background
       THEN pc' = "sleep" /\ failures' = 0 /\ warned' = FALSE
       ELSE pc' = "probing" /\ UNCHANGED <<failures, warned>>
    /\ UNCHANGED <<envVars, answered, attempt, badRounds>>

\* _listener_health_detailed: a probe of SOCKS is itself a client, and is
\* turned away when the limit is reached.
Probe ==
    LET up == alive \ glitched
        ok == IF full THEN up \ {"SOCKS"} ELSE up
    IN  /\ answered' = ok
        /\ badRounds' = IF ok = Listeners THEN 0
                        ELSE IF badRounds < Enough THEN badRounds + 1
                        ELSE badRounds

Probed ==
    /\ pc = "probing"
    /\ Probe
    /\ pc' = "gathered"
    /\ UNCHANGED <<envVars, failures, warned, attempt>>

\* DNS and internet are checked now and then, for the display only.
AfterRound == {"sleep"} \cup (IF Diagnostics THEN {"external"} ELSE {})

\* Faulty variant: a healthy round does not clear the failures before it.
Gathered_KeepsFailures ==
    /\ pc = "gathered"
    /\ LET capacity == "SOCKS" \in alive /\ full
           healthy == answered \cup (IF capacity THEN {"SOCKS"} ELSE {})
                         = Listeners
       IN  IF healthy
           THEN pc' \in AfterRound /\ warned' = FALSE /\ failures' = failures
           ELSE /\ warned' = TRUE
                /\ failures' = failures + 1
                /\ IF failures + 1 >= FailuresBeforeRecovery
                   THEN pc' = "confirming"
                   ELSE pc' \in AfterRound
    /\ attempt' = 0
    /\ UNCHANGED <<envVars, answered, badRounds>>

\* The round is judged: a SOCKS listener that is alive and full counts as
\* healthy; enough failed rounds in a row have to be confirmed.
Gathered ==
    /\ pc = "gathered"
    /\ LET capacity == "SOCKS" \in alive /\ full
           healthy == answered \cup (IF capacity THEN {"SOCKS"} ELSE {})
                         = Listeners
       IN  IF healthy
           THEN pc' \in AfterRound /\ warned' = FALSE /\ failures' = 0
           ELSE /\ warned' = TRUE
                /\ failures' = failures + 1
                /\ IF failures + 1 >= FailuresBeforeRecovery
                   THEN pc' = "confirming"
                   ELSE pc' \in AfterRound
    /\ attempt' = 0
    /\ UNCHANGED <<envVars, answered, badRounds>>

\* _confirm_listener_health: one round after the other, with a delay, until
\* all answer or the attempts are used up.
ConfirmProbed ==
    /\ pc = "confirming"
    /\ Probe
    /\ attempt' = attempt + 1
    /\ IF answered' = Listeners \/ attempt' = Attempts
       THEN pc' = "confirmed"
       ELSE pc' = "confirming"
    /\ UNCHANGED <<envVars, failures, warned>>

\* Faulty variant: whether the listeners are alive is not asked.
Suppressed_ProbesOnly == answered = {}

\* All three probes failing together while all three are alive says
\* something of the probes, not of the listeners.
Suppressed == answered = {} /\ alive = Listeners

\* The verdict on the last round: RecoveryRequired unless all answered or the
\* failure is suppressed.
Confirmed ==
    /\ pc = "confirmed"
    /\ IF answered = Listeners \/ Suppressed
       THEN pc' \in AfterRound /\ failures' = 0 /\ warned' = FALSE
       ELSE pc' = "restart" /\ UNCHANGED <<failures, warned>>
    /\ UNCHANGED <<envVars, answered, attempt, badRounds>>

ExternalChecked ==
    /\ pc = "external"
    /\ pc' = "sleep"
    /\ UNCHANGED <<envVars, answered, failures, warned, attempt, badRounds>>

\* The supervisor replaces the generation: new listeners, a new monitor.
Restarted ==
    /\ pc = "restart"
    /\ pc' = "sleep"
    /\ alive' = Listeners
    /\ full' = FALSE
    /\ answered' = Listeners
    /\ failures' = 0 /\ warned' = FALSE /\ attempt' = 0 /\ badRounds' = 0
    /\ UNCHANGED <<glitched, background, pauses>>

Monitor ==
    \/ Wakes \/ Probed \/ Gathered \/ ConfirmProbed \/ Confirmed
    \/ ExternalChecked \/ Restarted

Next ==
    \/ Monitor
    \/ Dies \/ Glitches \/ Fills \/ EntersBackground \/ EntersForeground

Spec == Init /\ [][Next]_vars

\* The event loop runs the monitor, and a paused app comes back.
FairSpec == Spec /\ WF_vars(Monitor) /\ WF_vars(EntersForeground)

-----------------------------------------------------------------------------
(* Properties *)

\* The variables have their types, and the counters their bounds.
TypeOK ==
    /\ alive \subseteq Listeners /\ glitched \subseteq Listeners
    /\ answered \subseteq Listeners
    /\ full \in BOOLEAN /\ background \in BOOLEAN /\ warned \in BOOLEAN
    /\ pauses \in 0..MaxPauses
    /\ pc \in {"sleep", "probing", "gathered", "confirming", "confirmed",
               "external", "restart"}
    /\ failures \in 0..FailuresBeforeRecovery
    /\ attempt \in 0..Attempts
    /\ badRounds \in 0..Enough

\* A restart is asked for only when, without a single healthy round between,
\* FailuresBeforeRecovery rounds and all the Attempts to confirm them failed.
RestartNeedsEvidence == pc = "restart" => badRounds >= Enough

\* Listeners that are alive, and whose probes fail only all at once, are
\* never restarted.
LiveListenersKept ==
    ~MayDie /\ GlitchesOf \subseteq {Listeners} => pc # "restart"

\* A listener that is dead is replaced: the WPAD thread, for one, is watched
\* by nobody else.
DeadListenerReplaced == alive # Listeners ~> alive = Listeners

=============================================================================
