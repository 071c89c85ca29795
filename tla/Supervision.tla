---------------------------- MODULE Supervision ----------------------------
(***************************************************************************)
(* What stands around the runtime, each by itself: the health monitor of a *)
(* generation, the keepalive with its supervisor threads, the view that    *)
(* starts and stops the runtime, the log of its interfaces, and the Legacy *)
(* Mode that has none of them.  They share no state; part says which one   *)
(* takes the steps.                                                        *)
(***************************************************************************)
EXTENDS HealthMonitor, Keepalive, StableView, DiagnosticMonitor, LegacyView

VARIABLE part

supervisionVars == <<part, vars, keepaliveVars, viewVars, diagnosticVars, legacyViewVars>>

SupervisionInit ==
    /\ part \in {"health", "keepalive", "view", "diagnostics", "legacy"}
    /\ Init /\ KeepaliveInit /\ ViewInit /\ DiagnosticInit /\ LegacyViewInit

\* All but part stay as they are.
OthersUnchanged ==
    /\ UNCHANGED part
    /\ part # "health"      => UNCHANGED vars
    /\ part # "keepalive"   => UNCHANGED keepaliveVars
    /\ part # "view"        => UNCHANGED viewVars
    /\ part # "diagnostics" => UNCHANGED diagnosticVars
    /\ part # "legacy"      => UNCHANGED legacyViewVars

OfHealth(A)      == part = "health"      /\ A /\ OthersUnchanged
OfKeepalive(A)   == part = "keepalive"   /\ A /\ OthersUnchanged
OfView(A)        == part = "view"        /\ A /\ OthersUnchanged
OfDiagnostics(A) == part = "diagnostics" /\ A /\ OthersUnchanged
OfLegacy(A)      == part = "legacy"      /\ A /\ OthersUnchanged

SupervisionNext ==
    \/ OfHealth(Next)
    \/ OfKeepalive(KeepaliveNext)
    \/ OfView(ViewNext)
    \/ OfDiagnostics(DiagnosticNext)
    \/ OfLegacy(LegacyViewNext)

\* A thread or a task that can go on does: the monitor, which iOS lets come
\* back, the supervisor of the session, for whom an interruption ends, the
\* background threads of the view and its completions, and, of Legacy Mode's
\* threads that take finitely many steps, one.  Only the part that takes the
\* steps has any, so that these are the fairness conditions of each part.
SupervisionFairSpec ==
    /\ SupervisionInit /\ [][SupervisionNext]_supervisionVars
    /\ WF_vars(part = "health" /\ Monitor)
    /\ WF_vars(part = "health" /\ EntersForeground)
    /\ WF_keepaliveVars(part = "keepalive" /\ SupervisorsTurn)
    /\ WF_keepaliveVars(part = "keepalive" /\ InterruptionEnds)
    /\ WF_viewVars(part = "view" /\ ViewUnderway)
    /\ WF_legacyViewVars(part = "legacy" /\ LegacyViewUnderway)

-----------------------------------------------------------------------------
(* Properties. *)

\* Whatever start() and stop() of either mode do, the view can be operated again.
ViewsFreed == ViewFreed /\ LegacyButtonsReturn
=============================================================================
