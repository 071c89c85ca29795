----------------------------- MODULE StableView -----------------------------
(***************************************************************************)
(* lib/stable_ui_view.py: the view that starts and stops the runtime.  Its *)
(* callbacks run in the UI thread, one after the other; what takes long    *)
(* runs in a background thread, and ui.delay() brings its completion back  *)
(* to the UI thread.  Of StableServerManager this module takes what its    *)
(* start(), stop() and running are seen to do; StableRuntime has the rest. *)
(***************************************************************************)
EXTENDS Naturals

VARIABLES
    busy,          \* _busy
    refreshing,    \* _refreshing: refresh_interfaces() runs in its thread
    enabled,       \* per control, whether it can be pressed
    title,         \* of the start button
    worker,        \* the background thread of start() or stop(), [op, at, ok]
    runtimeThread, \* the manager's thread: "none" or "alive"
    view           \* "open", or how it was closed: "exit" or "left"

viewVars == <<busy, refreshing, enabled, title, worker, runtimeThread, view>>

Controls == {"start", "recover", "refresh", "proxy", "outbound", "exit"}
NoWorker == [op |-> "none", at |-> "none", ok |-> TRUE]
ManagerRunning == runtimeThread = "alive"

ViewInit ==
    /\ busy = FALSE /\ refreshing = TRUE
    /\ enabled = [c \in Controls |-> c # "refresh"]
    /\ title = "Start"
    /\ worker = NoWorker
    /\ runtimeThread = "none"
    /\ view = "open"

\* _set_busy(); a title of None leaves the one there is.
SetBusy(b, t) ==
    /\ busy' = b
    /\ enabled' = [c \in Controls |-> ~b /\ (c = "refresh" => ~refreshing)]
    /\ title' = t

RunBackground(op) == worker' = [op |-> op, at |-> "called", ok |-> TRUE]

-----------------------------------------------------------------------------
(* The UI thread. *)

\* A control that is disabled takes no touch; a touch that was queued before
\* it was disabled is why the callbacks look at _busy as well.
Pressed(c) == view = "open" /\ (enabled[c] \/ c \in {"start", "exit", "refresh"})

Refresh ==
    /\ Pressed("refresh") /\ ~busy /\ ~refreshing
    /\ refreshing' = TRUE
    /\ enabled' = [enabled EXCEPT !["refresh"] = FALSE]
    /\ UNCHANGED <<busy, title, worker, runtimeThread, view>>

InterfacesRefreshed ==
    /\ refreshing /\ refreshing' = FALSE
    /\ enabled' = [enabled EXCEPT !["refresh"] = ~busy]
    /\ UNCHANGED <<busy, title, worker, runtimeThread, view>>

Toggle ==
    /\ Pressed("start") /\ ~busy
    /\ IF ManagerRunning
       THEN SetBusy(TRUE, "Stopping") /\ RunBackground("stop")
       ELSE SetBusy(TRUE, "Starting") /\ RunBackground("start")
    /\ UNCHANGED <<refreshing, runtimeThread, view>>

\* Faulty variant: _busy is not looked at.
ExitAllowed_Always == TRUE

ExitAllowed == ~busy

Exit ==
    /\ Pressed("exit") /\ ExitAllowed
    /\ IF ManagerRunning
       THEN SetBusy(TRUE, "Stopping") /\ RunBackground("exit") /\ UNCHANGED view
       ELSE view' = "exit" /\ UNCHANGED <<busy, enabled, title, worker>>
    /\ UNCHANGED <<refreshing, runtimeThread>>

\* will_close() without Exit: the proxy is left as it is.
LeaveView ==
    /\ view = "open" /\ view' = "left"
    /\ UNCHANGED <<busy, refreshing, enabled, title, worker, runtimeThread>>

\* update(), once a second.
UpdatedTitle == IF ManagerRunning THEN "Stop" ELSE "Start"
Update ==
    /\ view = "open" /\ ~busy /\ title' = UpdatedTitle
    /\ UNCHANGED <<busy, refreshing, enabled, worker, runtimeThread, view>>

\* _started(), _stopped() and _exited(), each with the update() it ends with.
Completed ==
    /\ worker.at = "returned" /\ worker' = NoWorker
    /\ IF worker.op = "exit" /\ worker.ok
       THEN view' = "exit" /\ UNCHANGED <<busy, enabled, title>>
       ELSE SetBusy(FALSE, UpdatedTitle) /\ UNCHANGED view
    /\ UNCHANGED <<refreshing, runtimeThread>>

-----------------------------------------------------------------------------
(* The background thread, in the manager. *)

WorkerAt(at, thread, ok) ==
    /\ worker' = [worker EXCEPT !.at = at, !.ok = ok]
    /\ runtimeThread' = thread
    /\ UNCHANGED <<busy, refreshing, enabled, title, view>>

\* start() raises when the runtime runs, and launches its thread otherwise.
StartCalled ==
    /\ worker.op = "start" /\ worker.at = "called"
    /\ IF ManagerRunning THEN WorkerAt("returned", runtimeThread, FALSE)
                         ELSE WorkerAt("launched", "alive", TRUE)

\* It returns when the listeners are up; when they do not come up it calls
\* stop(), which may time out as well, and raises.
StartReturns ==
    /\ worker.op = "start" /\ worker.at = "launched"
    /\ \/ WorkerAt("returned", runtimeThread, TRUE)
       \/ \E thread \in {"none", runtimeThread} : WorkerAt("returned", thread, FALSE)

\* stop() returns True when the thread is over, and False when it gives up.
StopReturns ==
    /\ worker.op \in {"stop", "exit"} /\ worker.at = "called"
    /\ \/ WorkerAt("returned", "none", TRUE)
       \/ ManagerRunning /\ WorkerAt("returned", runtimeThread, FALSE)

\* The runtime's thread ends: a late answer to stop(), or a start that failed.
RuntimeThreadEnds ==
    /\ ManagerRunning /\ runtimeThread' = "none"
    /\ UNCHANGED <<busy, refreshing, enabled, title, worker, view>>

ViewUnderway == InterfacesRefreshed \/ StartCalled \/ StartReturns \/ StopReturns \/ Completed

ViewNext == Refresh \/ Toggle \/ Exit \/ LeaveView \/ Update \/ RuntimeThreadEnds \/ ViewUnderway

\* Background threads run, and the UI thread takes what they delay()ed.
ViewSpec == ViewInit /\ [][ViewNext]_viewVars /\ WF_viewVars(ViewUnderway)

-----------------------------------------------------------------------------
(* Properties. *)

\* A view that Exit closed leaves no runtime behind, whatever was under way
\* when it was pressed and however stop() ended; a view that can be operated
\* has no call of start() or stop() under way, and no second refresh can begin
\* before the first is over.
ExitLeavesNothing ==
    /\ view = "exit" => runtimeThread = "none" /\ worker.op # "start"
    /\ (enabled["start"] /\ view # "exit") => worker = NoWorker
    /\ enabled["refresh"] => ~refreshing

\* The view can be operated again after every start() and stop(), also when it
\* raises or gives up.
ViewFreed == busy ~> (~busy \/ view = "exit")
=============================================================================
