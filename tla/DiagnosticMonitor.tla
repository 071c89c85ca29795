------------------------- MODULE DiagnosticMonitor -------------------------
(***************************************************************************)
(* En2DiagnosticMonitor: the thread that samples the interfaces once a     *)
(* second and logs what it sees, started and stopped with each session of  *)
(* StableServerManager.  The log is one sequence here: a file is opened    *)
(* for each entry, and begins at a START.  Each entry is appended by       *)
(* itself, and any append may fail; events come between any two.           *)
(***************************************************************************)
EXTENDS Naturals, Sequences

CONSTANTS
    Topologies,          \* what a scan can return, errors included
    MaxLog,              \* bound: entries in the log
    DiagnosticJoinTimesOut,  \* stop() can give up on the thread
    NoSignature          \* None

ASSUME DiagnosticAssumption ==
    /\ Topologies # {} /\ NoSignature \notin Topologies
    /\ MaxLog \in Nat /\ DiagnosticJoinTimesOut \in BOOLEAN

VARIABLES
    watched,       \* the session: "off", "on", or "stopping" while stop() waits
    monitor,       \* the thread: "none", "begins", "runs", in sample_once()
                   \* "found change", "found same" or "announces", "errs" with
                   \* an exception to log, or "over"
    stopFlag,      \* _stop is set
    topology,      \* of the interfaces now
    lastSignature, \* _last_signature
    log,           \* what has been appended
    leftBehind     \* stop() has given up on a thread, or one has died (not in
                   \* the code)

diagnosticVars == <<watched, monitor, stopFlag, topology, lastSignature, log, leftBehind>>

DiagnosticInit ==
    /\ watched = "off" /\ monitor = "none" /\ stopFlag = FALSE
    /\ topology = CHOOSE t \in Topologies : TRUE
    /\ lastSignature = NoSignature
    /\ log = << >> /\ leftBehind = FALSE

Logged(entries) == Len(log) + Len(entries) <= MaxLog /\ log' = log \o entries
Entry(kind, value) == [kind |-> kind, value |-> value]
MonitorRunning == monitor \notin {"none", "over"}

\* Faulty variant: the event of the session before stays set.
Launched_StopStaysSet == monitor' = "begins" /\ lastSignature' = NoSignature /\ UNCHANGED stopFlag

Launched == monitor' = "begins" /\ lastSignature' = NoSignature /\ stopFlag' = FALSE

\* start(): a thread that is still alive is taken for the session's.
StartDiagnostics ==
    /\ watched = "off" /\ watched' = "on"
    /\ IF MonitorRunning THEN UNCHANGED <<monitor, lastSignature, stopFlag>> ELSE Launched
    /\ UNCHANGED <<topology, log, leftBehind>>

\* note(), by any thread of the manager.
Note ==
    /\ watched # "off" /\ Logged(<<Entry("EVENT", NoSignature)>>)
    /\ UNCHANGED <<watched, monitor, stopFlag, topology, lastSignature, leftBehind>>

StopDiagnostics ==
    /\ watched = "on" /\ watched' = "stopping" /\ stopFlag' = TRUE
    /\ UNCHANGED <<monitor, topology, lastSignature, log, leftBehind>>

JoinDiagnostics ==
    /\ watched = "stopping" /\ watched' = "off"
    /\ \/ ~MonitorRunning /\ UNCHANGED leftBehind
       \/ MonitorRunning /\ DiagnosticJoinTimesOut /\ leftBehind' = TRUE
    /\ UNCHANGED <<monitor, stopFlag, topology, lastSignature, log>>

-----------------------------------------------------------------------------
(* The thread. *)

MonitorBegins ==
    /\ monitor = "begins" /\ monitor' = "runs" /\ Logged(<<Entry("START", NoSignature)>>)
    /\ UNCHANGED <<watched, stopFlag, topology, lastSignature, leftBehind>>

\* sample_once(), up to the signature.
TakeSignature ==
    /\ monitor = "runs" /\ ~stopFlag
    /\ monitor' = IF topology # lastSignature THEN "found change" ELSE "found same"
    /\ lastSignature' = topology
    /\ UNCHANGED <<watched, stopFlag, topology, log, leftBehind>>

AppendSample ==
    /\ monitor \in {"found change", "found same"}
    /\ monitor' = IF monitor = "found change" THEN "announces" ELSE "runs"
    /\ Logged(<<Entry("sample", lastSignature)>>)
    /\ UNCHANGED <<watched, stopFlag, topology, lastSignature, leftBehind>>

AppendTransition ==
    /\ monitor = "announces" /\ monitor' = "runs" /\ Logged(<<Entry("TRANSITION", lastSignature)>>)
    /\ UNCHANGED <<watched, stopFlag, topology, lastSignature, leftBehind>>

\* An exception in the formatting or in an append: the signature has been taken,
\* and what was to be appended is lost.
SampleFails ==
    /\ monitor \in {"found change", "found same", "announces"} /\ monitor' = "errs"
    /\ UNCHANGED <<watched, stopFlag, topology, lastSignature, log, leftBehind>>

\* The entry does not say what the scan saw; its value here does.
AppendError ==
    /\ monitor = "errs" /\ monitor' = "runs" /\ Logged(<<Entry("MONITOR_ERROR", lastSignature)>>)
    /\ UNCHANGED <<watched, stopFlag, topology, lastSignature, leftBehind>>

MonitorEnds ==
    /\ monitor = "runs" /\ stopFlag
    /\ monitor' = "over" /\ Logged(<<Entry("STOP", NoSignature)>>)
    /\ UNCHANGED <<watched, stopFlag, topology, lastSignature, leftBehind>>

\* START, STOP or an error cannot be appended: the thread dies.
MonitorDies ==
    /\ monitor \in {"begins", "errs"} \/ (monitor = "runs" /\ stopFlag)
    /\ monitor' = "over" /\ leftBehind' = TRUE
    /\ UNCHANGED <<watched, stopFlag, topology, lastSignature, log>>

TopologyChanges ==
    /\ topology' \in Topologies
    /\ UNCHANGED <<watched, monitor, stopFlag, lastSignature, log, leftBehind>>

DiagnosticNext ==
    \/ StartDiagnostics \/ Note \/ StopDiagnostics \/ JoinDiagnostics
    \/ MonitorBegins \/ TakeSignature \/ AppendSample \/ AppendTransition
    \/ SampleFails \/ AppendError \/ MonitorEnds \/ MonitorDies \/ TopologyChanges

DiagnosticSpec == DiagnosticInit /\ [][DiagnosticNext]_diagnosticVars

-----------------------------------------------------------------------------
(* Properties. *)

\* Where the log has what a thread has written, which is all but the events, and
\* where before i.
Written == {i \in DOMAIN log : log[i].kind # "EVENT"}
WrittenBefore(i) == {j \in Written : j < i}

Scanned(e) == e.kind \in {"sample", "MONITOR_ERROR"}
LastOf(S) == CHOOSE i \in S : \A j \in S : j <= i

\* As long as no thread was given up or died, a session is watched from its
\* start to its end, and what the log has of it begins with START and ends with
\* STOP.  Whatever fails and whoever else appends, a transition stands only after
\* a sample that differs from what the thread saw before, and names what that
\* sample has; and such a sample is never passed over in silence: its transition,
\* an error or the START of another thread comes next.
DiagnosticsComplete ==
    /\ ~leftBehind =>
         /\ watched = "on" => MonitorRunning /\ ~stopFlag
         /\ watched = "off" => ~MonitorRunning /\ (Written # {} => log[LastOf(Written)].kind = "STOP")
         /\ \A i \in Written : log[i].kind = "START" /\ WrittenBefore(i) # {} =>
              log[LastOf(WrittenBefore(i))].kind = "STOP"
    /\ \A i \in Written : WrittenBefore(i) # {} =>
         LET before  == LastOf(WrittenBefore(i))
             earlier == {j \in WrittenBefore(before) : Scanned(log[j]) /\ \A k \in j..before : log[k].kind # "START"}
             changed == earlier # {} => log[LastOf(earlier)].value # log[before].value
         IN  /\ log[i].kind = "TRANSITION" =>
                  log[before].kind = "sample" /\ changed /\ log[i].value = log[before].value
             /\ log[before].kind = "sample" /\ changed => log[i].kind \in {"TRANSITION", "MONITOR_ERROR", "START"}
=============================================================================
