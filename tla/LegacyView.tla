----------------------------- MODULE LegacyView -----------------------------
(***************************************************************************)
(* ProxyUIView (lib/ui_view.py) on top of LegacyServerManager, as          *)
(* run_with_ui() of socks5.py connects them, with the choice of interfaces *)
(* of lib/interfaces.py.  Its callbacks block the UI thread, which draws   *)
(* nothing meanwhile; a dialog does not.                                   *)
(***************************************************************************)
EXTENDS LegacyServerManager, Sequences, SequencesExt

CONSTANTS
    InterfaceLists, \* what get_interfaces() may return: sequences of [kind, ipv4]
    HideAfter,      \* seconds without a touch
    NoInterface     \* None

ASSUME LegacyViewAssumption ==
    HideAfter \in Nat \ {0} /\ \A list \in InterfaceLists : NoInterface \notin Range(list)

VARIABLES
    legacyView,    \* "none", "open", "closed" by Exit, or "left"
    proxyIface, connectIface,
    callback,      \* the callback in the UI thread, "none" between them
    legacyRunning, \* _running, and the title of the button
    startedWith,   \* the interfaces start() was last called with
    idleSeconds, hidden

legacyViewVars == <<legacyVars, legacyView, proxyIface, connectIface, callback,
                    legacyRunning, startedWith, idleSeconds, hidden>>
chosen == <<proxyIface, connectIface>>
shown == <<legacyView, idleSeconds, hidden>>
Dialogs == {"choosing proxy", "choosing connect"}

LegacyViewInit ==
    /\ LegacyInit
    /\ legacyView = "none" /\ callback = "none"
    /\ proxyIface = NoInterface /\ connectIface = NoInterface
    /\ legacyRunning = FALSE /\ startedWith = << >>
    /\ idleSeconds = 0 /\ hidden = FALSE

-----------------------------------------------------------------------------
(* The interfaces. *)

\* get_labeled_interfaces().
Labeled(list) == SelectSeq(list, LAMBDA i : i.ipv4 /\ i.kind \notin {"lo", "ipsec"})

FirstOf(labeled, kinds) ==
    LET those == {i \in DOMAIN labeled : labeled[i].kind \in kinds}
    IN  IF those = {} THEN 0 ELSE CHOOSE i \in those : \A j \in those : i <= j
FirstFound(indices) == IF \E i \in DOMAIN indices : indices[i] # 0
                       THEN SelectSeq(indices, LAMBDA i : i # 0)[1] ELSE 0

\* get_default_selections(), and what _refresh_and_set_defaults() takes when it
\* finds nothing: the first, and the second whatever it is.
DefaultProxy(labeled) ==
    FirstFound(<<FirstOf(labeled, {"bridge"}), FirstOf(labeled, {"en"}), 1>>)
DefaultConnect(labeled) ==
    FirstFound(<<FirstOf(labeled, {"utun"}), FirstOf(labeled, {"pdp_ip"}), FirstOf(labeled, {"other"}),
                 IF Len(labeled) > 1 THEN 2 ELSE 1>>)

\* run_with_ui() and __init__(); the audio is on from here.
OpenLegacyView ==
    /\ legacyView = "none" /\ legacyView' = "open"
    /\ \E list \in InterfaceLists :
         LET labeled == Labeled(list)
         IN  IF labeled = << >> THEN UNCHANGED chosen
             ELSE /\ proxyIface' = labeled[DefaultProxy(labeled)]
                  /\ connectIface' = labeled[DefaultConnect(labeled)]
    /\ UNCHANGED <<legacyVars, callback, legacyRunning, startedWith, idleSeconds, hidden>>

-----------------------------------------------------------------------------
(* The callbacks. *)

Operable == legacyView = "open" /\ callback = "none" /\ ~hidden

CallStart == LegacyStart /\ startedWith' = chosen
CallStop == LegacyStop /\ UNCHANGED startedWith

\* _toggle_server(); with an interface missing it only says so.
ToggleServer ==
    /\ Operable /\ callback' = "toggle"
    /\ IF legacyRunning THEN CallStop ELSE NoInterface \notin Range(chosen) /\ CallStart
    /\ UNCHANGED <<chosen, legacyRunning, shown>>

\* _change_proxy() and _change_connect(), up to the dialog.
OpenDialog(dialog) ==
    /\ Operable /\ callback' = dialog
    /\ UNCHANGED <<legacyVars, chosen, legacyRunning, startedWith, shown>>

\* A choice restarts the servers that run; what the dialog lists may be gone.
ChooseInterface ==
    /\ callback \in Dialogs /\ (legacyRunning => starts < MaxStarts)
    /\ \E list \in InterfaceLists : \E interface \in Range(Labeled(list)) :
         IF callback = "choosing proxy"
         THEN proxyIface' = interface /\ UNCHANGED connectIface
         ELSE connectIface' = interface /\ UNCHANGED proxyIface
    /\ IF legacyRunning THEN callback' = "restart" /\ CallStop
       ELSE callback' = "none" /\ UNCHANGED <<legacyVars, startedWith>>
    /\ UNCHANGED <<legacyRunning, shown>>

CancelDialog ==
    /\ callback \in Dialogs /\ callback' = "none"
    /\ UNCHANGED <<legacyVars, chosen, legacyRunning, startedWith, shown>>

\* _restart_server(), after stop_server(); the interfaces cannot be missing.
RestartServer ==
    /\ callback = "restart" /\ ui = "stopped"
    /\ callback' = "restarting" /\ CallStart
    /\ UNCHANGED <<chosen, legacyRunning, shown>>

\* Faulty variant: a restart that fails leaves the view as it was.
CallbackReturns_RestartUnseen ==
    /\ callback \in {"toggle", "restarting", "exit"} /\ ui \in {"stopped", "running"}
    /\ callback' = "none"
    /\ legacyRunning' = (ui = "running" \/ callback = "restarting")
    /\ legacyView' = IF callback = "exit" THEN "closed" ELSE legacyView
    /\ UNCHANGED <<legacyVars, chosen, startedWith, idleSeconds, hidden>>

\* start_server() or stop_server() has returned or raised.
CallbackReturns ==
    /\ callback \in {"toggle", "restarting", "exit"} /\ ui \in {"stopped", "running"}
    /\ callback' = "none"
    /\ legacyRunning' = (ui = "running")
    /\ legacyView' = IF callback = "exit" THEN "closed" ELSE legacyView
    /\ UNCHANGED <<legacyVars, chosen, startedWith, idleSeconds, hidden>>

\* _exit_app(): servers that do not run are not stopped, nor is the audio.
ExitApp ==
    /\ Operable
    /\ IF legacyRunning THEN callback' = "exit" /\ CallStop /\ UNCHANGED legacyView
       ELSE legacyView' = "closed" /\ UNCHANGED <<legacyVars, callback, startedWith>>
    /\ UNCHANGED <<chosen, legacyRunning, idleSeconds, hidden>>

\* The view is closed in another way: the servers go on.
LeaveLegacyView ==
    /\ legacyView = "open" /\ callback = "none" /\ legacyView' = "left"
    /\ UNCHANGED <<legacyVars, chosen, callback, legacyRunning, startedWith, idleSeconds, hidden>>

\* update(), as far as it hides the view, and touch_began().
HideIdle ==
    /\ legacyView = "open" /\ callback \in {"none"} \cup Dialogs
    /\ legacyRunning /\ ~hidden
    /\ idleSeconds' = idleSeconds + 1 /\ hidden' = (idleSeconds' >= HideAfter)
    /\ UNCHANGED <<legacyVars, legacyView, chosen, callback, legacyRunning, startedWith>>

TouchBegan ==
    /\ legacyView = "open" /\ callback = "none" /\ idleSeconds > 0
    /\ idleSeconds' = 0 /\ hidden' = FALSE
    /\ UNCHANGED <<legacyVars, legacyView, chosen, callback, legacyRunning, startedWith>>

\* What the manager and its threads do meanwhile.
ManagerStep == UiStep \/ \E s \in Starts : ServerThreadStep(s)
InManager(A) == A /\ UNCHANGED <<chosen, callback, legacyRunning, startedWith, shown>>

LegacyViewUnderway == InManager(ManagerStep) \/ RestartServer \/ CallbackReturns

LegacyViewNext ==
    \/ OpenLegacyView \/ ToggleServer \/ \E dialog \in Dialogs : OpenDialog(dialog)
    \/ ChooseInterface \/ CancelDialog \/ ExitApp \/ LeaveLegacyView
    \/ HideIdle \/ TouchBegan \/ InManager(StopAllEnds \/ WpadClient) \/ LegacyViewUnderway

LegacyViewSpec == LegacyViewInit /\ [][LegacyViewNext]_legacyViewVars

-----------------------------------------------------------------------------
(* Properties. *)

\* Between its callbacks the view says what is: while it shows that the proxy
\* runs, all three ports listen, for the interfaces that it shows; when it does
\* not, because of a stop, a start or a restart that failed, or Exit, no port,
\* thread or audio of a start is left.  Those are in other threads, which stop()
\* and start() wait for with a limit: gaveUp is where they reached it.
LegacyViewTruthful ==
    callback \in {"none"} \cup Dialogs /\ ~gaveUp =>
        IF legacyRunning
        THEN bound[starts] = LegacyPorts /\ (callback = "none" => startedWith = chosen)
        ELSE starts > 0 => ~legacyAudio /\ \A s \in Starts : bound[s] = {} /\ ThreadOver(s)

\* Each callback ends, also when a listener's stop() waits for ever for one of
\* its clients: the view is not drawn meanwhile.  Only a client of the WPAD server
\* can keep it, as long as he leaves his request unfinished when stop() gets there.
WpadKeepsStop == ui = "stopping WPAD" /\ wpadTaken
LegacyButtonsReturn ==
    callback \notin {"none"} \cup Dialogs ~>
        (callback = "none" \/ (callback = "restart" /\ gaveUp) \/ WpadKeepsStop)
=============================================================================
