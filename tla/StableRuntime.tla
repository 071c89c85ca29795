--------------------------- MODULE StableRuntime ---------------------------
(***************************************************************************)
(* StableServerManager (lib/stable_runtime.py): the thread-safe facade     *)
(* (start, stop, recover, set_outbound_selection), the runtime thread it   *)
(* launches (_thread_main, _supervise) and the generations of listeners    *)
(* that thread builds and tears down (_start_generation,                   *)
(* _wait_for_change, _stop_generation, _wait_or_stop).                     *)
(*                                                                         *)
(* A session is one runtime thread with its event loop and its pair of     *)
(* asyncio events; sessions are numbered in the order start() creates      *)
(* them.  Controllers are the threads that call start() and stop(),        *)
(* Selectors the ones that call recover() and set_outbound_selection().    *)
(* One action is what a thread does between two points where another       *)
(* thread can observe or change what it shares.                            *)
(***************************************************************************)
EXTENDS Naturals, FiniteSets, FiniteSetsExt

CONSTANTS
    Controllers,        \* threads that call start() and stop()
    Selectors,          \* threads that call recover(), set_outbound_selection()
    Selections,         \* outbound interface selections (AUTO and names)
    MaxSessions,        \* bound: how many times start() may launch a thread
    MaxRestarts,        \* config.max_consecutive_restarts
    InitialDelay,       \* config.restart_initial_delay
    Backoff,            \* config.restart_backoff
    MaxDelay,           \* config.restart_max_delay
    EnableKeepalive     \* config.enable_keepalive

ASSUME RuntimeAssumption ==
    /\ MaxSessions \in Nat
    /\ MaxRestarts \in Nat \ {0}
    /\ InitialDelay \in Nat \ {0}
    /\ Backoff \in Nat \ {0}
    /\ MaxDelay \in Nat
    /\ MaxDelay >= InitialDelay
    /\ Selections # {}
    /\ EnableKeepalive \in BOOLEAN

Sessions == 1..MaxSessions
None == 0                       \* Python's None where a session could be
Callers == Controllers \cup Selectors
Ports == {"SOCKS", "HTTP", "WPAD"}

ASSUME CallersAssumption == None \notin Callers

VARIABLES
    \* attributes of the manager, shared by every thread
    thread,      \* _thread
    loop,        \* _loop: the session whose event loop it is
    events,      \* the session whose _stop_async and _recover_async are installed
    latch,       \* _stop_requested
    started,     \* _startup_event
    startErr,    \* _startup_error is set
    selection,   \* outbound_selection
    lock,        \* holder of _state_lock
    status,      \* stats runtime["state"]
    audio,       \* _keepalive is active
    \* one runtime thread per session
    nsess,       \* sessions launched so far
    pc,          \* where the runtime thread is
    stopEv,      \* its _stop_async is set
    recEv,       \* its _recover_async is set
    posted,      \* callbacks handed to call_soon_threadsafe and not run yet
    first,       \* first_start
    consec,      \* consecutive
    delay,       \* delay
    cause,       \* why the generation is being torn down
    genSel,      \* the selection the generation was resolved from
    held,        \* listening sockets of the session's generation
    leaked,      \* sockets an abandoned WPAD shutdown worker still holds
    flaky,       \* the environment may still make binds, probes, tasks fail
    \* one call per caller
    cpc,         \* where the call is
    cth,         \* local variable thread of stop()
    inStart,     \* the stop() in progress was called by start()
    ret          \* how the last call ended (failed: raised, or returned False)

mgrVars  == <<thread, loop, events, latch, started, startErr, selection, lock,
              status, audio>>
sesVars  == <<nsess, pc, stopEv, recEv, posted, first, consec, delay, cause,
              genSel, held, leaked, flaky>>
callVars == <<cpc, cth, inStart, ret>>
vars     == <<mgrVars, sesVars, callVars>>

(***************************************************************************)
(* Program points.                                                         *)
(***************************************************************************)
TaskPoints  == {"verify", "run"}                  \* generation["tasks"] exist
BuildPoints == {"bindSOCKS", "bindHTTP", "bindWPAD"} \cup TaskPoints
ClosePoints == {"closeSOCKS", "closeHTTP", "closeWPAD"}
LoopPoints  == BuildPoints \cup ClosePoints \cup
               {"latch", "top", "refresh", "select", "handle", "decide",
                "backoff", "paused", "exit"}      \* the event loop runs
SessionPoints == LoopPoints \cup {"none", "new", "boot", "finally", "dead"}

StartPoints  == {"stState", "stKeep", "stThread"}   \* _state_lock held
StopPoints   == {"sLatch", "sPost", "sCapture", "sJoin", "sKeep", "sCheck",
                 "sRelease"}
CallPoints   == {"idle", "stWait", "rCheck", "rPost"} \cup StartPoints
                \cup StopPoints

States == {"Stopped", "Starting", "Running", "Recovering", "Paused", "Error"}
Callbacks == [loop : Sessions, kind : {"stop", "recover"}, ev : Sessions]

\* thread.is_alive() of a session's runtime thread.
Alive(s) == pc[s] \notin {"none", "dead"}

\* The running property: bool(self._thread and self._thread.is_alive()).
Running == thread # None /\ Alive(thread)

ManagerTypeOK ==
    /\ thread \in Sessions \cup {None}
    /\ loop \in Sessions \cup {None}
    /\ events \in Sessions \cup {None}
    /\ latch \in BOOLEAN /\ started \in BOOLEAN /\ startErr \in BOOLEAN
    /\ selection \in Selections
    /\ lock \in Callers \cup {None}
    /\ status \in States
    /\ audio \in BOOLEAN

SessionTypeOK ==
    /\ nsess \in 0..MaxSessions
    /\ pc \in [Sessions -> SessionPoints]
    /\ stopEv \in [Sessions -> BOOLEAN]
    /\ recEv \in [Sessions -> BOOLEAN]
    /\ posted \subseteq Callbacks
    /\ first \in [Sessions -> BOOLEAN]
    /\ consec \in [Sessions -> 0..MaxRestarts]
    /\ delay \in [Sessions -> Nat]
    /\ cause \in [Sessions -> {"none", "startFailed", "change", "stop"}]
    /\ genSel \in [Sessions -> Selections]
    /\ held \in [Sessions -> SUBSET Ports]
    /\ leaked \subseteq {"WPAD"}
    /\ flaky \in BOOLEAN

CallTypeOK ==
    /\ cpc \in [Callers -> CallPoints]
    /\ cth \in [Callers -> Sessions \cup {None}]
    /\ inStart \in [Callers -> BOOLEAN]
    /\ ret \in [Callers -> {"none", "started", "stopped", "failed"}]

TypeOK == ManagerTypeOK /\ SessionTypeOK /\ CallTypeOK

Init ==
    /\ thread = None /\ loop = None /\ events = None
    /\ latch = FALSE /\ started = FALSE /\ startErr = FALSE
    /\ selection \in Selections
    /\ lock = None
    /\ status = "Stopped"
    /\ audio = FALSE
    /\ nsess = 0
    /\ pc = [s \in Sessions |-> "none"]
    /\ stopEv = [s \in Sessions |-> FALSE]
    /\ recEv = [s \in Sessions |-> FALSE]
    /\ posted = {}
    /\ first = [s \in Sessions |-> TRUE]
    /\ consec = [s \in Sessions |-> 0]
    /\ delay = [s \in Sessions |-> InitialDelay]
    /\ cause = [s \in Sessions |-> "none"]
    /\ genSel = [s \in Sessions |-> selection]
    /\ held = [s \in Sessions |-> {}]
    /\ leaked = {}
    /\ flaky = TRUE
    /\ cpc = [c \in Callers |-> "idle"]
    /\ cth = [c \in Callers |-> None]
    /\ inStart = [c \in Callers |-> FALSE]
    /\ ret = [c \in Callers |-> "none"]

GoCaller(c, from, to) == cpc[c] = from /\ cpc' = [cpc EXCEPT ![c] = to]

Return(c, r) ==
    /\ cpc' = [cpc EXCEPT ![c] = "idle"]
    /\ ret' = [ret EXCEPT ![c] = r]

(***************************************************************************)
(* start()                                                                 *)
(***************************************************************************)

\* "if self.running: raise", and the resets under the lock; the calls that
\* follow in the same critical section are the next three actions.
StartEnter(c, sel) ==
    /\ cpc[c] = "idle" /\ lock = None
    /\ IF Running
       THEN /\ Return(c, "failed")
            /\ UNCHANGED <<mgrVars, inStart>>
       ELSE /\ nsess < MaxSessions
            /\ cpc' = [cpc EXCEPT ![c] = "stState"]
            /\ ret' = [ret EXCEPT ![c] = "none"]
            /\ lock' = c
            /\ selection' = sel
            /\ started' = FALSE /\ startErr' = FALSE /\ latch' = FALSE
            /\ inStart' = [inStart EXCEPT ![c] = TRUE]
            /\ UNCHANGED <<thread, loop, events, status, audio>>
    /\ UNCHANGED <<sesVars, cth>>

StartState(c) ==
    /\ GoCaller(c, "stState", "stKeep")
    /\ status' = "Starting"
    /\ UNCHANGED <<thread, loop, events, latch, started, startErr, selection,
                   lock, audio, sesVars, cth, inStart, ret>>

\* _keepalive.start(): the audio session may be unavailable.
StartKeepalive(c) ==
    /\ GoCaller(c, "stKeep", "stThread")
    /\ audio' \in {audio, audio \/ EnableKeepalive}
    /\ UNCHANGED <<thread, loop, events, latch, started, startErr, selection,
                   lock, status, sesVars, cth, inStart, ret>>

StartThread(c) ==
    /\ GoCaller(c, "stThread", "stWait")
    /\ nsess' = nsess + 1
    /\ thread' = nsess + 1
    /\ pc' = [pc EXCEPT ![nsess + 1] = "new"]
    /\ lock' = None
    /\ UNCHANGED <<loop, events, latch, started, startErr, selection, status,
                   audio, stopEv, recEv, posted, first, consec, delay, cause,
                   genSel, held, leaked, flaky, cth, inStart, ret>>

\* _startup_event.wait(timeout) returned True.
StartReturns(c) ==
    /\ cpc[c] = "stWait" /\ started
    /\ IF startErr
       THEN /\ cpc' = [cpc EXCEPT ![c] = "sLatch"]
            /\ UNCHANGED <<inStart, ret>>
       ELSE /\ Return(c, "started")
            /\ inStart' = [inStart EXCEPT ![c] = FALSE]
    /\ UNCHANGED <<mgrVars, sesVars, cth>>

StartTimesOut(c) ==
    /\ ~started
    /\ GoCaller(c, "stWait", "sLatch")
    /\ UNCHANGED <<mgrVars, sesVars, cth, inStart, ret>>

(***************************************************************************)
(* stop()                                                                  *)
(***************************************************************************)
StopCall(c) ==
    /\ GoCaller(c, "idle", "sLatch")
    /\ ret' = [ret EXCEPT ![c] = "none"]
    /\ UNCHANGED <<mgrVars, sesVars, cth, inStart>>

StopLatch(c) ==
    /\ GoCaller(c, "sLatch", "sPost")
    /\ latch' = TRUE
    /\ UNCHANGED <<thread, loop, events, started, startErr, selection, lock,
                   status, audio, sesVars, cth, inStart, ret>>

\* "if loop and event and loop.is_running(): call_soon_threadsafe(event.set)".
StopPost(c) ==
    /\ GoCaller(c, "sPost", "sCapture")
    /\ posted' = IF loop # None /\ events # None /\ pc[loop] \in LoopPoints
                 THEN posted \cup {[loop |-> loop, kind |-> "stop", ev |-> events]}
                 ELSE posted
    /\ UNCHANGED <<mgrVars, nsess, pc, stopEv, recEv, first, consec, delay,
                   cause, genSel, held, leaked, flaky, cth, inStart, ret>>

StopCapture(c) ==
    /\ GoCaller(c, "sCapture", "sJoin")
    /\ cth' = [cth EXCEPT ![c] = thread]
    /\ UNCHANGED <<mgrVars, sesVars, inStart, ret>>

\* thread.join(timeout): it returns when the thread is dead or, at any
\* moment, because the timeout passed; nobody but is_alive() tells which.
StopJoin(c) ==
    /\ GoCaller(c, "sJoin", "sKeep")
    /\ UNCHANGED <<mgrVars, sesVars, cth, inStart, ret>>

StopKeepalive(c) ==
    /\ GoCaller(c, "sKeep", "sCheck")
    /\ audio' = FALSE
    /\ UNCHANGED <<thread, loop, events, latch, started, startErr, selection,
                   lock, status, sesVars, cth, inStart, ret>>

\* "if thread and thread.is_alive()": keep ownership and report the failure.
StopCheck(c) ==
    /\ cpc[c] = "sCheck"
    /\ IF cth[c] # None /\ Alive(cth[c])
       THEN /\ status' = "Error"
            /\ Return(c, "failed")
            /\ inStart' = [inStart EXCEPT ![c] = FALSE]
            /\ cth' = [cth EXCEPT ![c] = None]
       ELSE /\ status' = "Stopped"
            /\ cpc' = [cpc EXCEPT ![c] = "sRelease"]
            /\ UNCHANGED <<cth, inStart, ret>>
    /\ UNCHANGED <<thread, loop, events, latch, started, startErr, selection,
                   lock, audio, sesVars>>

StopRelease(c) ==
    /\ cpc[c] = "sRelease" /\ lock = None
    /\ thread' = IF thread = cth[c] THEN None ELSE thread
    /\ Return(c, IF inStart[c] THEN "failed" ELSE "stopped")
    /\ inStart' = [inStart EXCEPT ![c] = FALSE]
    /\ cth' = [cth EXCEPT ![c] = None]
    /\ UNCHANGED <<loop, events, latch, started, startErr, selection, lock,
                   status, audio, sesVars>>

(***************************************************************************)
(* recover() and set_outbound_selection()                                  *)
(***************************************************************************)
RecoverCall(c) ==
    /\ GoCaller(c, "idle", "rCheck")
    /\ ret' = [ret EXCEPT ![c] = "none"]
    /\ UNCHANGED <<mgrVars, sesVars, cth, inStart>>

\* changed and recover_if_running and self.running, under the lock; recover()
\* itself is called after the lock is released.
SetOutbound(c, sel) ==
    /\ cpc[c] = "idle" /\ lock = None
    /\ selection' = sel
    /\ IF sel # selection /\ Running
       THEN /\ cpc' = [cpc EXCEPT ![c] = "rCheck"]
            /\ ret' = [ret EXCEPT ![c] = "none"]
       ELSE Return(c, "none")
    /\ UNCHANGED <<thread, loop, events, latch, started, startErr, lock, status,
                   audio, sesVars, cth, inStart>>

RecoverCheck(c) ==
    /\ cpc[c] = "rCheck"
    /\ IF Running /\ loop # None /\ events # None
       THEN /\ cpc' = [cpc EXCEPT ![c] = "rPost"]
            /\ UNCHANGED ret
       ELSE Return(c, "failed")
    /\ UNCHANGED <<mgrVars, sesVars, cth, inStart>>

\* Another AttributeError or RuntimeError if the loop went away meanwhile.
RecoverPost(c) ==
    /\ cpc[c] = "rPost"
    /\ IF loop # None /\ events # None /\ pc[loop] \in LoopPoints \cup {"boot"}
       THEN /\ posted' = posted \cup
                           {[loop |-> loop, kind |-> "recover", ev |-> events]}
            /\ Return(c, "none")
       ELSE /\ Return(c, "failed")
            /\ UNCHANGED posted
    /\ UNCHANGED <<mgrVars, nsess, pc, stopEv, recEv, first, consec, delay,
                   cause, genSel, held, leaked, flaky, cth, inStart>>

(***************************************************************************)
(* The event loop of session s runs a callback posted from another thread. *)
(***************************************************************************)
Deliver(s, kind, e) ==
    LET m == [loop |-> s, kind |-> kind, ev |-> e]
    IN  /\ m \in posted
        /\ pc[s] \in LoopPoints
        /\ posted' = posted \ {m}
        /\ stopEv' = [stopEv EXCEPT ![e] = @ \/ kind = "stop"]
        /\ recEv' = [recEv EXCEPT ![e] = @ \/ kind = "recover"]
        /\ UNCHANGED <<mgrVars, nsess, pc, first, consec, delay, cause, genSel,
                       held, leaked, flaky, callVars>>

(***************************************************************************)
(* The runtime thread: _thread_main and _supervise.                        *)
(***************************************************************************)
GoSession(s, from, to) == pc[s] = from /\ pc' = [pc EXCEPT ![s] = to]

\* asyncio.new_event_loop(); self._loop = loop.
ThreadBoot(s) ==
    /\ GoSession(s, "new", "boot")
    /\ loop' = s
    /\ UNCHANGED <<thread, events, latch, started, startErr, selection, lock,
                   status, audio, nsess, stopEv, recEv, posted, first, consec,
                   delay, cause, genSel, held, leaked, flaky, callVars>>

\* run_until_complete(_supervise()): the two events are created ...
InstallEvents(s) ==
    /\ GoSession(s, "boot", "latch")
    /\ events' = s
    /\ UNCHANGED <<thread, loop, latch, started, startErr, selection, lock,
                   status, audio, nsess, stopEv, recEv, posted, first, consec,
                   delay, cause, genSel, held, leaked, flaky, callVars>>

\* Faulty variant: a stop latched before the events existed is not looked at.
ReadLatch_Skipped(s) ==
    /\ GoSession(s, "latch", "top")
    /\ UNCHANGED <<mgrVars, nsess, stopEv, recEv, posted, first, consec, delay,
                   cause, genSel, held, leaked, flaky, callVars>>

\* ... and then the latch is read.
ReadLatch(s) ==
    /\ GoSession(s, "latch", "top")
    /\ stopEv' = [stopEv EXCEPT ![s] = @ \/ latch]
    /\ UNCHANGED <<mgrVars, nsess, recEv, posted, first, consec, delay, cause,
                   genSel, held, leaked, flaky, callVars>>

LoopTop(s) ==
    /\ pc[s] = "top"
    /\ IF stopEv[s]
       THEN /\ pc' = [pc EXCEPT ![s] = "exit"]
            /\ UNCHANGED cause
       ELSE /\ pc' = [pc EXCEPT ![s] = "refresh"]
            /\ cause' = [cause EXCEPT ![s] = "none"]
    /\ UNCHANGED <<mgrVars, nsess, stopEv, recEv, posted, first, consec, delay,
                   genSel, held, leaked, flaky, callVars>>

(***************************************************************************)
(* _start_generation                                                       *)
(***************************************************************************)
RefreshInterfaces(s) ==
    /\ GoSession(s, "refresh", "select")
    /\ status' = "Starting"
    /\ UNCHANGED <<thread, loop, events, latch, started, startErr, selection,
                   lock, audio, nsess, stopEv, recEv, posted, first, consec,
                   delay, cause, genSel, held, leaked, flaky, callVars>>

\* _resolve_interface(self.outbound_selection, ...): the selection is read
\* here; the registry may know no usable interface (InterfaceUnavailable),
\* and then there is no generation to tear down.
SelectOutbound(s) ==
    /\ pc[s] = "select"
    /\ \/ /\ pc' = [pc EXCEPT ![s] = "bindSOCKS"]
          /\ genSel' = [genSel EXCEPT ![s] = selection]
          /\ UNCHANGED cause
       \/ /\ flaky
          /\ pc' = [pc EXCEPT ![s] = "handle"]
          /\ cause' = [cause EXCEPT ![s] = "startFailed"]
          /\ UNCHANGED genSel
    /\ UNCHANGED <<mgrVars, nsess, stopEv, recEv, posted, first, consec, delay,
                   held, leaked, flaky, callVars>>

PortBusy(p) == p \in leaked \/ \E s \in Sessions : p \in held[s]

\* bind() of one listener: it fails when the port is taken, and may fail
\* while the environment is flaky.  A failure goes to _stop_generation.
BindPort(s, p, from, to) ==
    /\ pc[s] = from
    /\ \/ /\ ~PortBusy(p)
          /\ pc' = [pc EXCEPT ![s] = to]
          /\ held' = [held EXCEPT ![s] = @ \cup {p}]
          /\ UNCHANGED cause
       \/ /\ PortBusy(p) \/ flaky
          /\ pc' = [pc EXCEPT ![s] = "closeSOCKS"]
          /\ cause' = [cause EXCEPT ![s] = "startFailed"]
          /\ UNCHANGED held
    /\ UNCHANGED <<mgrVars, nsess, stopEv, recEv, posted, first, consec, delay,
                   genSel, leaked, flaky, callVars>>

BindSOCKS(s) == BindPort(s, "SOCKS", "bindSOCKS", "bindHTTP")
BindHTTP(s)  == BindPort(s, "HTTP", "bindHTTP", "bindWPAD")
\* The WPAD thread and the generation's five tasks start with this bind.
BindWPAD(s)  == BindPort(s, "WPAD", "bindWPAD", "verify")

\* Faulty variant: recovery requests made during the start are forgotten when
\* the generation comes up.
VerifyListeners_ForgetsRequest(s) ==
    /\ pc[s] = "verify"
    /\ pc' = [pc EXCEPT ![s] = "run"]
    /\ status' = "Running"
    /\ started' = (started \/ first[s])
    /\ first' = [first EXCEPT ![s] = FALSE]
    /\ recEv' = [recEv EXCEPT ![s] = FALSE]
    /\ UNCHANGED <<thread, loop, events, latch, startErr, selection, lock, audio,
                   nsess, stopEv, posted, consec, delay, cause, genSel, held,
                   leaked, flaky, callVars>>

\* _verify_listeners, and what _supervise does when the generation is up.
VerifyListeners(s) ==
    /\ pc[s] = "verify"
    /\ \/ /\ pc' = [pc EXCEPT ![s] = "run"]
          /\ status' = "Running"
          /\ started' = (started \/ first[s])
          /\ first' = [first EXCEPT ![s] = FALSE]
          /\ UNCHANGED cause
       \/ /\ flaky
          /\ pc' = [pc EXCEPT ![s] = "closeSOCKS"]
          /\ cause' = [cause EXCEPT ![s] = "startFailed"]
          /\ UNCHANGED <<status, started, first>>
    /\ UNCHANGED <<thread, loop, events, latch, startErr, selection, lock, audio,
                   nsess, stopEv, recEv, posted, consec, delay, genSel, held,
                   leaked, flaky, callVars>>

(***************************************************************************)
(* _wait_for_change: a stop request, a recovery request, or a task ended.  *)
(***************************************************************************)
\* Faulty variant: a stop leaves the loop without _stop_generation.
SeeStop_NoCleanup(s) ==
    /\ stopEv[s]
    /\ GoSession(s, "run", "exit")
    /\ cause' = [cause EXCEPT ![s] = "stop"]
    /\ UNCHANGED <<mgrVars, nsess, stopEv, recEv, posted, first, consec, delay,
                   genSel, held, leaked, flaky, callVars>>

SeeStop(s) ==
    /\ stopEv[s]
    /\ GoSession(s, "run", "closeSOCKS")
    /\ cause' = [cause EXCEPT ![s] = "stop"]
    /\ UNCHANGED <<mgrVars, nsess, stopEv, recEv, posted, first, consec, delay,
                   genSel, held, leaked, flaky, callVars>>

\* The except clause of _supervise for a generation that was up.
CountFailure(s) ==
    /\ consec' = [consec EXCEPT ![s] = @ + 1]
    /\ status' = "Recovering"

SeeChange(s) ==
    /\ \/ recEv[s] /\ recEv' = [recEv EXCEPT ![s] = FALSE]
       \/ flaky /\ UNCHANGED recEv
    /\ GoSession(s, "run", "closeSOCKS")
    /\ cause' = [cause EXCEPT ![s] = "change"]
    /\ CountFailure(s)
    /\ UNCHANGED <<thread, loop, events, latch, started, startErr, selection,
                   lock, audio, nsess, stopEv, posted, first, delay, genSel,
                   held, leaked, flaky, callVars>>

\* _background_runtime_monitor, one of the tasks: _keepalive.ensure_active().
EnsureKeepalive(s) ==
    /\ pc[s] \in TaskPoints
    /\ EnableKeepalive /\ ~audio
    /\ audio' = TRUE
    /\ UNCHANGED <<thread, loop, events, latch, started, startErr, selection,
                   lock, status, sesVars, callVars>>

(***************************************************************************)
(* _stop_generation: tasks and SOCKS, then HTTP, then WPAD.                *)
(***************************************************************************)
CloseListener(s, p, from, to) ==
    /\ GoSession(s, from, to)
    /\ held' = [held EXCEPT ![s] = @ \ {p}]
    /\ UNCHANGED <<mgrVars, nsess, stopEv, recEv, posted, first, consec, delay,
                   cause, genSel, leaked, flaky, callVars>>

CloseSOCKS(s) == CloseListener(s, "SOCKS", "closeSOCKS", "closeHTTP")
CloseHTTP(s)  == CloseListener(s, "HTTP", "closeHTTP", "closeWPAD")

\* Where control goes when the generation is gone.
AfterClose(s) == CASE cause[s] = "stop"        -> "exit"
                   [] cause[s] = "startFailed" -> "handle"
                   [] OTHER                    -> "decide"

\* shutdown() and server_close() in a worker, or the forced server_close()
\* after four seconds; when that fails too the worker keeps the socket.
CloseWPAD(s) ==
    /\ GoSession(s, "closeWPAD", AfterClose(s))
    /\ held' = [held EXCEPT ![s] = @ \ {"WPAD"}]
    /\ \/ UNCHANGED leaked
       \/ flaky /\ "WPAD" \in held[s] /\ leaked' = leaked \cup {"WPAD"}
    /\ UNCHANGED <<mgrVars, nsess, stopEv, recEv, posted, first, consec, delay,
                   cause, genSel, flaky, callVars>>

\* The abandoned shutdown worker gets through and closes the socket.
WorkerUnwinds ==
    /\ leaked # {}
    /\ leaked' = {}
    /\ UNCHANGED <<mgrVars, nsess, pc, stopEv, recEv, posted, first, consec,
                   delay, cause, genSel, held, flaky, callVars>>

(***************************************************************************)
(* The except clause after a failed start, and the rest of the loop body.  *)
(***************************************************************************)
\* Faulty variant: the first start's failure releases start() without an error.
HandleStartFailure_NoError(s) ==
    /\ pc[s] = "handle"
    /\ IF first[s]
       THEN /\ pc' = [pc EXCEPT ![s] = "finally"]
            /\ started' = TRUE
            /\ status' = "Error"
            /\ UNCHANGED consec
       ELSE /\ pc' = [pc EXCEPT ![s] = "decide"]
            /\ CountFailure(s)
            /\ UNCHANGED started
    /\ UNCHANGED <<thread, loop, events, latch, startErr, selection, lock, audio,
                   nsess, stopEv, recEv, posted, first, delay, cause, genSel,
                   held, leaked, flaky, callVars>>

HandleStartFailure(s) ==
    /\ pc[s] = "handle"
    /\ IF first[s]
       THEN /\ pc' = [pc EXCEPT ![s] = "finally"]
            /\ startErr' = TRUE /\ started' = TRUE
            /\ status' = "Error"
            /\ UNCHANGED consec
       ELSE /\ pc' = [pc EXCEPT ![s] = "decide"]
            /\ CountFailure(s)
            /\ UNCHANGED <<startErr, started>>
    /\ UNCHANGED <<thread, loop, events, latch, selection, lock, audio, nsess,
                   stopEv, recEv, posted, first, delay, cause, genSel, held,
                   leaked, flaky, callVars>>

\* healthy_since is set when the generation was up (cause "change"); whether
\* it stayed up for healthy_backoff_reset seconds is the environment's choice.
Decide(s) ==
    /\ pc[s] = "decide"
    /\ IF stopEv[s]
       THEN /\ pc' = [pc EXCEPT ![s] = "exit"]
            /\ UNCHANGED <<status, consec, delay>>
       ELSE \E reset \in {FALSE, cause[s] = "change"} :
              LET n == IF reset THEN 0 ELSE consec[s]
                  d == IF reset THEN InitialDelay ELSE delay[s]
              IN  /\ consec' = [consec EXCEPT ![s] = n]
                  /\ delay' = [delay EXCEPT ![s] = d]
                  /\ IF n >= MaxRestarts
                     THEN /\ pc' = [pc EXCEPT ![s] = "paused"]
                          /\ status' = "Paused"
                     ELSE /\ pc' = [pc EXCEPT ![s] = "backoff"]
                          /\ UNCHANGED status
    /\ UNCHANGED <<thread, loop, events, latch, started, startErr, selection,
                   lock, audio, nsess, stopEv, recEv, posted, first, cause,
                   genSel, held, leaked, flaky, callVars>>

\* _wait_or_stop(delay): a recovery request is consumed only when it is what
\* ended the wait.
WaitOrStop(s) ==
    \/ recEv[s] /\ recEv' = [recEv EXCEPT ![s] = FALSE]
    \/ UNCHANGED recEv

EndBackoff(s) ==
    /\ GoSession(s, "backoff", "top")
    /\ WaitOrStop(s)
    /\ delay' = [delay EXCEPT ![s] = Min({@ * Backoff, MaxDelay})]
    /\ UNCHANGED <<mgrVars, nsess, stopEv, posted, first, consec, cause, genSel,
                   held, leaked, flaky, callVars>>

\* Faulty variant: the pause resets the failure count and keeps the delay.
EndPause_KeepsDelay(s) ==
    /\ GoSession(s, "paused", "top")
    /\ WaitOrStop(s)
    /\ consec' = [consec EXCEPT ![s] = 0]
    /\ UNCHANGED <<mgrVars, nsess, stopEv, posted, first, delay, cause, genSel,
                   held, leaked, flaky, callVars>>

EndPause(s) ==
    /\ GoSession(s, "paused", "top")
    /\ WaitOrStop(s)
    /\ consec' = [consec EXCEPT ![s] = 0]
    /\ delay' = [delay EXCEPT ![s] = InitialDelay]
    /\ UNCHANGED <<mgrVars, nsess, stopEv, posted, first, cause, genSel, held,
                   leaked, flaky, callVars>>

SuperviseExit(s) ==
    /\ GoSession(s, "exit", "finally")
    /\ status' = "Stopped"
    /\ startErr' = (startErr \/ first[s])
    /\ started' = (started \/ first[s])
    /\ UNCHANGED <<thread, loop, events, latch, selection, lock, audio, nsess,
                   stopEv, recEv, posted, first, consec, delay, cause, genSel,
                   held, leaked, flaky, callVars>>

\* The finally clause of _thread_main; callbacks not run by now never will,
\* the local variables of _supervise are gone and nobody waits on its events.
ThreadExit(s) ==
    /\ GoSession(s, "finally", "dead")
    /\ loop' = None
    /\ posted' = {m \in posted : m.loop # s}
    /\ stopEv' = [stopEv EXCEPT ![s] = FALSE]
    /\ recEv' = [recEv EXCEPT ![s] = FALSE]
    /\ consec' = [consec EXCEPT ![s] = 0]
    /\ delay' = [delay EXCEPT ![s] = InitialDelay]
    /\ cause' = [cause EXCEPT ![s] = "none"]
    /\ UNCHANGED <<thread, events, latch, started, startErr, selection, lock,
                   status, audio, nsess, first, genSel, held, leaked, flaky,
                   callVars>>

\* From some moment on nothing outside the program fails any more.
EnvironmentSettles ==
    /\ flaky
    /\ flaky' = FALSE
    /\ UNCHANGED <<mgrVars, nsess, pc, stopEv, recEv, posted, first, consec,
                   delay, cause, genSel, held, leaked, callVars>>

(***************************************************************************)
(* The specification.                                                      *)
(***************************************************************************)
StartGeneration(s) ==
    RefreshInterfaces(s) \/ SelectOutbound(s) \/ BindSOCKS(s) \/ BindHTTP(s)
    \/ BindWPAD(s) \/ VerifyListeners(s)
WaitForChange(s) == SeeStop(s) \/ SeeChange(s)
StopGeneration(s) == CloseSOCKS(s) \/ CloseHTTP(s) \/ CloseWPAD(s)
Supervise(s) ==
    ThreadBoot(s) \/ InstallEvents(s) \/ ReadLatch(s) \/ LoopTop(s)
    \/ HandleStartFailure(s) \/ Decide(s) \/ EndBackoff(s) \/ EndPause(s)
    \/ SuperviseExit(s) \/ ThreadExit(s)
SessionStep(s) ==
    Supervise(s) \/ StartGeneration(s) \/ WaitForChange(s) \/ StopGeneration(s)

\* A call that is under way; start() and stop() may wait, never give up.
StartStep(c) ==
    StartState(c) \/ StartKeepalive(c) \/ StartThread(c) \/ StartReturns(c)
    \/ StartTimesOut(c)
StopStep(c) ==
    StopLatch(c) \/ StopPost(c) \/ StopCapture(c) \/ StopJoin(c)
    \/ StopKeepalive(c) \/ StopCheck(c) \/ StopRelease(c)
RecoverStep(c) == RecoverCheck(c) \/ RecoverPost(c)

Next ==
    \/ \E c \in Controllers :
         (\E sel \in Selections : StartEnter(c, sel)) \/ StopCall(c)
         \/ StartStep(c) \/ StopStep(c)
    \/ \E c \in Selectors :
         RecoverCall(c) \/ (\E sel \in Selections : SetOutbound(c, sel))
         \/ RecoverStep(c)
    \/ \E s \in Sessions : SessionStep(s) \/ EnsureKeepalive(s)
    \/ \E s, e \in Sessions, k \in {"stop", "recover"} : Deliver(s, k, e)
    \/ WorkerUnwinds
    \/ EnvironmentSettles

\* The operating system runs every thread, an event loop runs the callbacks it
\* is given, waits have timeouts, and an abandoned WPAD worker polls its
\* shutdown flag twice a second.
Fairness ==
    /\ \A c \in Controllers : WF_vars(StartStep(c) \/ StopStep(c))
    /\ \A c \in Selectors : WF_vars(RecoverStep(c))
    /\ \A s \in Sessions : WF_vars(SessionStep(s))
    /\ \A s, e \in Sessions, k \in {"stop", "recover"} : WF_vars(Deliver(s, k, e))
    /\ WF_vars(WorkerUnwinds)

Spec == Init /\ [][Next]_vars
FairSpec == Spec /\ Fairness

(***************************************************************************)
(* Properties.                                                             *)
(***************************************************************************)

\* Session numbers are handed out in order, and every reference to a session
\* is to one that was launched.
NumberingInv ==
    /\ \A s \in Sessions : pc[s] = "none" <=> s > nsess
    /\ thread <= nsess
    /\ \A c \in Callers : cth[c] <= nsess

\* While start() is between its running check and the launch it holds the
\* lock, no runtime is alive, and there is room for one more session.
StartHoldsLock ==
    \A c \in Callers :
      cpc[c] \in StartPoints => lock = c /\ ~Running /\ nsess < MaxSessions

\* _thread refers to the runtime thread as long as it is alive; stop() forgets
\* only a thread that is not.
OwnerInv ==
    /\ \A s \in Sessions : Alive(s) => thread = s
    /\ \A c \in Callers :
         cpc[c] = "sRelease" /\ cth[c] # None => ~Alive(cth[c])

\* The failure count stays below max_consecutive_restarts except between the
\* failure that reaches it and the end of the pause.
CountInv ==
    \A s \in Sessions :
      \/ consec[s] < MaxRestarts
      \/ pc[s] \in {"decide", "paused", "exit", "finally"}
      \/ pc[s] \in ClosePoints /\ cause[s] = "change"

\* The sockets a session holds at each point of _start_generation and
\* _stop_generation.
HeldInv ==
    \A s \in Sessions :
      /\ pc[s] \in TaskPoints => held[s] = Ports
      /\ pc[s] = "bindHTTP" => held[s] = {"SOCKS"}
      /\ pc[s] = "bindWPAD" => held[s] = {"SOCKS", "HTTP"}
      /\ pc[s] = "closeHTTP" => held[s] \subseteq {"HTTP", "WPAD"}
      /\ pc[s] = "closeWPAD" => held[s] \subseteq {"WPAD"}
      /\ pc[s] \notin BuildPoints \cup ClosePoints \/ pc[s] = "bindSOCKS"
           => held[s] = {}

\* The inductive invariant.
RuntimeInv ==
    TypeOK /\ NumberingInv /\ StartHoldsLock /\ OwnerInv /\ CountInv /\ HeldInv

\* At most one runtime thread is alive at any moment, whatever start() and
\* stop() calls overlap: a stop() that timed out keeps the thread in _thread
\* so that start() "must not race a second generation onto the same ports".
AtMostOneRuntime ==
    \A s, t \in Sessions : Alive(s) /\ Alive(t) => s = t

\* A generation that is up owns all three listening sockets, and outside
\* _start_generation .. _stop_generation a session owns none: no path through
\* a failed bind, a failed verification, a stop or a recovery forgets one.
ListenersMatchGeneration ==
    \A s \in Sessions :
      /\ pc[s] \in TaskPoints => held[s] = Ports
      /\ pc[s] \notin BuildPoints \cup ClosePoints => held[s] = {}

\* The generation in use was built from the outbound selection in force, or
\* something that will rebuild it is on its way: set_outbound_selection()
\* changed the selection but its recovery request is still travelling from the
\* caller through call_soon_threadsafe to _wait_for_change.
SelectionChangeNotLost ==
    \A s \in Sessions :
      pc[s] \in BuildPoints /\ genSel[s] # selection =>
        \/ recEv[s]
        \/ [loop |-> s, kind |-> "recover", ev |-> s] \in posted
        \/ \E c \in Selectors : cpc[c] \in {"rCheck", "rPost"}

\* The initial delay multiplied by restart_backoff n times, up to
\* restart_max_delay.
ScaledDelay[n \in Nat] ==
    IF n = 0 THEN InitialDelay ELSE Min({ScaledDelay[n - 1] * Backoff, MaxDelay})

\* While it backs off, the supervisor waits the initial delay multiplied by
\* restart_backoff once per consecutive failure, up to restart_max_delay: never
\* less than the failures so far call for, never more than one failure ahead
\* (a reset after a healthy period waits once without counting).  consecutive
\* and delay are updated on different branches of _supervise.
BackoffMatchesFailures ==
    \A s \in Sessions :
      pc[s] = "backoff" =>
        /\ consec[s] < MaxRestarts
        /\ delay[s] <= ScaledDelay[consec[s]]
        /\ consec[s] > 0 => delay[s] >= ScaledDelay[consec[s] - 1]

\* A stop() that waits for a runtime thread has told that thread to stop: the
\* latch is set, or its event is set or about to be.  "Latch the request before
\* the asyncio loop/events exist ... an early Stop must not be lost."
JoinedRuntimeToldToStop ==
    \A c \in Controllers :
      cpc[c] = "sJoin" /\ cth[c] # None /\ Alive(cth[c]) =>
        \/ latch
        \/ stopEv[cth[c]]
        \/ [loop |-> cth[c], kind |-> "stop", ev |-> cth[c]] \in posted

\* When calls do not overlap, a stop() that returned True left no runtime
\* thread and no listening socket of a generation behind, and no late write of
\* the dying supervisor replaced the status Stopped.
StopTrueMeansQuiet ==
    \A c \in Controllers :
      ret[c] = "stopped" =>
        /\ \A s \in Sessions : ~Alive(s) /\ held[s] = {}
        /\ status = "Stopped"

\* When calls do not overlap, a start() that returned left the runtime it
\* launched past its first successful start: an error, a cancellation or a
\* timeout is raised instead.
StartReturnMeansUp ==
    \A c \in Controllers : ret[c] = "started" => nsess > 0 /\ ~first[nsess]

\* What start() and stop() wait for and what they say when they return is what
\* the runtime thread does and did, in the three respects above.
CallsTruthful == JoinedRuntimeToldToStop /\ StopTrueMeansQuiet /\ StartReturnMeansUp

\* The refinement mapping to RuntimeLease.
Lease == INSTANCE RuntimeLease WITH
    live    <- {s \in Sessions : Alive(s)},
    past    <- {s \in Sessions : pc[s] = "dead"},
    serving <- {s \in Sessions : pc[s] = "run"},
    owned   <- held

\* Every behaviour of the manager and its threads, with any overlap of calls,
\* is one of RuntimeLease: runtimes follow one another, service is withdrawn
\* before the first socket is closed, and a runtime ends with none open.
ImplementsLease == Lease!LeaseSpec

\* A latched stop request ends the runtime thread, at whatever point of boot,
\* start, recovery or back-off it was made.
StopEndsRuntime == \A s \in Sessions : latch /\ Alive(s) ~> ~Alive(s)

\* Once nothing outside the program fails any more, a runtime that is starting,
\* recovering, backing off or paused serves again, or was stopped.
RuntimeComesBack ==
    \A s \in Sessions : Alive(s) /\ ~flaky ~> pc[s] = "run" \/ ~Alive(s)

\* A runtime ends when it is asked to and comes back when it is not.
RuntimeFollowsRequests == StopEndsRuntime /\ RuntimeComesBack
=============================================================================
