------------------------ MODULE LegacyServerManager ------------------------
(***************************************************************************)
(* Legacy Mode: ServerManager (socks5.py), the actions of LegacyView.  The *)
(* callbacks of the view run start() and stop() in the UI thread, one      *)
(* after the other; the SOCKS and HTTP listeners live in the event loop of *)
(* a thread that start() makes and stop() ends, the WPAD server in a       *)
(* thread of its own.  Nothing supervises them.                            *)
(***************************************************************************)
EXTENDS Naturals

CONSTANTS
    MaxStarts,          \* bound on the calls of start()
    LegacyWaitsTimeOut, \* the waits of start() and stop() can time out
    ServersRejectHosts  \* AsyncProxyServer() can raise: no resolver is usable

ASSUME LegacyAssumption ==
    /\ MaxStarts \in Nat /\ LegacyWaitsTimeOut \in BOOLEAN
    /\ ServersRejectHosts \in BOOLEAN

LegacyPorts == {"SOCKS", "HTTP", "WPAD"}
Starts == 1..MaxStarts

VARIABLES
    ui,            \* where the UI thread is; "stopped" and "running" are the
                   \* states the view shows
    starts,        \* the calls of start() so far
    raising,       \* start() called this stop(), and will raise
    startupEvent,  \* _startup_event is set
    startupError,  \* _startup_error is not None
    loopRef,       \* the start whose loop and servers _loop, _thread and
                   \* _socks_server are, 0 for None
    serverThread,  \* per start, where its loop's thread is
    bound,         \* per start, the ports its servers listen on
    stopAll,       \* _stop_all(): "none", "running" or "done"
    legacyAudio,   \* _legacy_keepalive was started and not stopped
    gaveUp,        \* a wait has timed out (not in the code)
    wpadTaken      \* a client has the only thread of the WPAD server, and has not
                   \* sent its request or taken the answer yet

legacyVars == <<ui, starts, raising, startupEvent, startupError, loopRef,
                serverThread, bound, stopAll, legacyAudio, gaveUp, wpadTaken>>
uiVars == <<ui, starts, raising, legacyAudio>>
startup == <<startupEvent, startupError>>

LegacyInit ==
    /\ ui = "stopped" /\ starts = 0 /\ raising = FALSE
    /\ startupEvent = FALSE /\ startupError = FALSE
    /\ loopRef = 0
    /\ serverThread = [s \in Starts |-> "none"]
    /\ bound = [s \in Starts |-> {}]
    /\ stopAll = "none"
    /\ legacyAudio = TRUE
    /\ gaveUp = FALSE /\ wpadTaken = FALSE

PortFree(p) == \A s \in Starts : p \notin bound[s]
Bind(s, p) == PortFree(p) /\ bound' = [bound EXCEPT ![s] = @ \cup {p}]
LoopRunning(s) == serverThread[s] \in {"binding SOCKS", "binding HTTP", "serving", "failed"}
ThreadOver(s) == serverThread[s] \in {"none", "over"}
OverOrGivenUp(over) ==
    \/ over /\ UNCHANGED gaveUp
    \/ ~over /\ LegacyWaitsTimeOut /\ gaveUp' = TRUE

-----------------------------------------------------------------------------
(* start(), called by the Start button or to restart with other interfaces. *)

\* start_server() and start(), up to the WPAD server and its thread; a bind
\* also fails when another program has the port.  What a thread that was given
\* up would do to a later start is left out.
LegacyStart ==
    /\ ui = "stopped" /\ starts < MaxStarts /\ ~gaveUp
    /\ starts' = starts + 1
    /\ startupEvent' = FALSE /\ startupError' = FALSE
    /\ \/ Bind(starts', "WPAD") /\ ui' = "making servers" /\ legacyAudio' = TRUE
       \/ ui' = "stopped" /\ legacyAudio' = FALSE /\ UNCHANGED bound
    /\ UNCHANGED <<raising, loopRef, serverThread, stopAll, gaveUp, wpadTaken>>

ServersRejected ==
    /\ ui = "making servers" /\ ServersRejectHosts
    /\ ui' = "stopped" /\ legacyAudio' = FALSE
    /\ loopRef' = starts
    /\ UNCHANGED <<starts, raising, startup, serverThread, bound, stopAll, gaveUp, wpadTaken>>

LaunchLoop ==
    /\ ui = "making servers"
    /\ ui' = "awaiting startup"
    /\ loopRef' = starts
    /\ serverThread' = [serverThread EXCEPT ![starts] = "starting"]
    /\ UNCHANGED <<starts, raising, startup, bound, stopAll, legacyAudio, gaveUp, wpadTaken>>

StartupAwaited ==
    /\ ui = "awaiting startup"
    /\ OverOrGivenUp(startupEvent)
    /\ IF startupEvent /\ ~startupError
       THEN ui' = "running" /\ UNCHANGED raising
       ELSE ui' = "stopping" /\ raising' = TRUE
    /\ UNCHANGED <<starts, startup, loopRef, serverThread, bound, stopAll, legacyAudio, wpadTaken>>

-----------------------------------------------------------------------------
(* stop(), called by the Stop button, before a restart, or by start(). *)

LegacyStop ==
    /\ ui = "running"
    /\ ui' = "stopping" /\ legacyAudio' = FALSE
    /\ UNCHANGED <<starts, raising, startup, loopRef, serverThread, bound, stopAll, gaveUp, wpadTaken>>

StopServers ==
    /\ ui = "stopping"
    /\ IF loopRef # 0 /\ LoopRunning(loopRef)
       THEN ui' = "awaiting stop" /\ stopAll' = "running"
       ELSE ui' = "stopping WPAD" /\ UNCHANGED stopAll
    /\ UNCHANGED <<starts, raising, startup, loopRef, serverThread, bound, legacyAudio, gaveUp, wpadTaken>>

\* Faulty variant: future.result() has no timeout.
StopAwaited_Forever ==
    /\ ui = "awaiting stop" /\ stopAll = "done"
    /\ ui' = "joining"
    /\ stopAll' = "none"
    /\ serverThread' = [serverThread EXCEPT ![loopRef] = "stopping"]
    /\ UNCHANGED <<starts, raising, startup, loopRef, bound, legacyAudio, gaveUp, wpadTaken>>

\* future.result(timeout=5), then loop.stop().
StopAwaited ==
    /\ ui = "awaiting stop"
    /\ OverOrGivenUp(stopAll = "done")
    /\ ui' = "joining"
    /\ stopAll' = "none"
    /\ serverThread' = [serverThread EXCEPT ![loopRef] = "stopping"]
    /\ UNCHANGED <<starts, raising, startup, loopRef, bound, legacyAudio, wpadTaken>>

ThreadJoined ==
    /\ ui = "joining"
    /\ OverOrGivenUp(ThreadOver(loopRef))
    /\ ui' = "stopping WPAD"
    /\ UNCHANGED <<starts, raising, startup, loopRef, serverThread, bound, stopAll, legacyAudio, wpadTaken>>

\* The end of stop(): shutdown() waits, without a limit, for the request that the
\* WPAD server is reading.  A start() that called it raises, and start_server()
\* stops the audio.
StopWpad ==
    /\ ui = "stopping WPAD" /\ ~wpadTaken
    /\ bound' = [s \in Starts |-> bound[s] \ {"WPAD"}]
    /\ loopRef' = 0
    /\ raising' = FALSE /\ ui' = "stopped"
    /\ legacyAudio' = (legacyAudio /\ ~raising)
    /\ UNCHANGED <<starts, startup, serverThread, stopAll, gaveUp, wpadTaken>>

\* A client connects to the WPAD server, which serves one at a time and waits for
\* each as long as it takes; he is done, or gone.
WpadClient ==
    /\ wpadTaken' = ~wpadTaken /\ (wpadTaken' => \E s \in Starts : "WPAD" \in bound[s])
    /\ UNCHANGED <<uiVars, startup, loopRef, serverThread, bound, stopAll, gaveUp>>

-----------------------------------------------------------------------------
(* The loop's thread. *)

GoTo(s, place) == serverThread' = [serverThread EXCEPT ![s] = place]
StartupFails == startupError' = TRUE /\ startupEvent' = TRUE

\* _run_loop() reads self._loop, which a stop() that found the loop not yet
\* running has set to None: then the thread ends with an AttributeError.
RunLoop(s) ==
    /\ serverThread[s] = "starting"
    /\ \/ loopRef = s /\ GoTo(s, "entering")
       \/ loopRef # s /\ GoTo(s, "over")
    /\ UNCHANGED <<uiVars, startup, loopRef, bound, stopAll, gaveUp, wpadTaken>>

EnterLoop(s) ==
    /\ serverThread[s] = "entering"
    /\ GoTo(s, "binding SOCKS")
    /\ UNCHANGED <<uiVars, startup, loopRef, bound, stopAll, gaveUp, wpadTaken>>

\* _serve() finds self._socks_server, or None when stop() has been through.
BindSocksPort(s) ==
    /\ serverThread[s] = "binding SOCKS"
    /\ \/ /\ loopRef = s /\ Bind(s, "SOCKS")
          /\ GoTo(s, "binding HTTP") /\ UNCHANGED startup
       \/ StartupFails /\ GoTo(s, "failed") /\ UNCHANGED bound
    /\ UNCHANGED <<uiVars, loopRef, stopAll, gaveUp, wpadTaken>>

\* When HTTP cannot be bound the SOCKS listener is stopped; when stop() has
\* been through, that too fails, and nobody is told.
BindHttpPort(s) ==
    /\ serverThread[s] = "binding HTTP"
    /\ \/ /\ loopRef = s /\ Bind(s, "HTTP")
          /\ startupEvent' = TRUE /\ GoTo(s, "serving") /\ UNCHANGED startupError
       \/ /\ loopRef = s
          /\ StartupFails /\ GoTo(s, "failed")
          /\ bound' = [bound EXCEPT ![s] = @ \ {"SOCKS"}]
       \/ /\ loopRef # s
          /\ startupError' = TRUE /\ GoTo(s, "failed")
          /\ UNCHANGED <<startupEvent, bound>>
    /\ UNCHANGED <<uiVars, loopRef, stopAll, gaveUp, wpadTaken>>

\* _stop_all() closes the listeners that there are; it may wait for ever for
\* a client that does not close its connection.
StopAllEnds ==
    /\ stopAll = "running" /\ LoopRunning(loopRef)
    /\ bound' = [bound EXCEPT ![loopRef] = @ \ {"SOCKS", "HTTP"}]
    /\ stopAll' = "done"
    /\ UNCHANGED <<uiVars, startup, loopRef, serverThread, gaveUp, wpadTaken>>

\* The end of _run_loop(): the tasks are cancelled, serve_forever() closes
\* its listener.  A thread that nobody waits for finds no loop any more; its
\* listeners go with the loop's objects.
LoopEnds(s) ==
    /\ serverThread[s] = "stopping"
    /\ GoTo(s, "over")
    /\ bound' = [bound EXCEPT ![s] = @ \ {"SOCKS", "HTTP"}]
    /\ UNCHANGED <<uiVars, startup, loopRef, stopAll, gaveUp, wpadTaken>>

ServerThreadStep(s) ==
    RunLoop(s) \/ EnterLoop(s) \/ BindSocksPort(s) \/ BindHttpPort(s) \/ LoopEnds(s)

UiStep ==
    \/ ServersRejected \/ LaunchLoop \/ StartupAwaited
    \/ StopServers \/ StopAwaited \/ ThreadJoined \/ StopWpad
=============================================================================
