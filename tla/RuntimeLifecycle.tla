-------------------------- MODULE RuntimeLifecycle ----------------------------
(***************************************************************************)
(* The life of a runtime between initialize and the end of its process, as *)
(* its operational telemetry (OperationalTelemetry) and its log (Logging)  *)
(* see it: both fetch their setting after the same change notification of  *)
(* the client, and an uncaught exception is reported twice before it is    *)
(* handled, to the client (setupCrashMonitoring of standalone.ts) and as   *)
(* an event (setServerCrashTelemetryListeners of telemetryLspServer.ts).   *)
(*                                                                         *)
(* Node runs the listeners of uncaughtExceptionMonitor before those of     *)
(* uncaughtException, all in one turn.  A rejected promise that nobody     *)
(* handles is an uncaught exception.  (Every initialize that is retried    *)
(* adds a listener: the event is recorded once for each of them.)          *)
(***************************************************************************)
EXTENDS OperationalTelemetry, Logging

VARIABLES
    told,      \* the client was sent runtime_processCrash
    report,    \* the provider that has recorded the event of the crash
    lost,      \* history: nobody recorded it although telemetry is opted in
    untidy     \* history: a shutdown failed, or was in flight at an opt-in

monitors == <<told, report, lost>>
varsLife == <<vars, logVars, monitors, untidy>>

-----------------------------------------------------------------------------

(* Mutant of uncaughtExceptionMonitor: the event is emitted by a listener  *)
(* of uncaughtException, behind the one that shuts telemetry down.         *)
uncaughtExceptionMonitor_late ==
    /\ told' = TRUE
    /\ report' = IF global \in running' THEN global ELSE None
    /\ lost' = (~optOut /\ global \notin running')

(* Both monitors.  The event goes to the registered provider, which drops  *)
(* it when it was told to shut down.                                       *)
uncaughtExceptionMonitor ==
    /\ told' = TRUE
    /\ report' = IF global \in running THEN global ELSE None
    /\ lost' = (~optOut /\ global \notin running)

InitLife ==
    /\ Init /\ InitLogging
    /\ told = FALSE /\ report = None /\ lost = FALSE
    /\ untidy = FALSE

(* One notification; either setting may have changed, or another one.      *)
didChangeConfiguration(v, l) ==
    /\ ChangeSetting(v)
    /\ wanted' = l
    /\ AskLevel
    /\ UNCHANGED <<monitors, untidy>>

Log ==
    /\ Alive
    /\ AnswerLevel \/ HandleLevel
    /\ UNCHANGED <<vars, monitors, untidy>>

Optel ==
    /\ \/ AnswerConfiguration /\ UNCHANGED untidy
       \/ HandleAnswer /\ untidy' = (untidy \/ (optOut /\ ~optOut' /\ flushing # {}))
       \/ \E p \in flushing : ShutdownDone(p) /\ UNCHANGED untidy
       \/ \E p \in flushing : ShutdownFails(p) /\ untidy' = TRUE
       \/ Exit /\ UNCHANGED untidy
    /\ UNCHANGED <<logVars, monitors>>

(* Some code of the runtime or a server throws, or one of the two requests *)
(* of didChangeConfiguration is refused by the client.                     *)
UncaughtException ==
    /\ \/ Crash /\ UNCHANGED logVars
       \/ ConfigurationRefused /\ UNCHANGED logVars
       \/ Crash /\ LevelRefused
    /\ uncaughtExceptionMonitor
    /\ UNCHANGED untidy

NextLife ==
    \/ \E v \in Settings, l \in Wishes : didChangeConfiguration(v, l)
    \/ Log
    \/ Optel
    \/ UncaughtException

SpecLife == InitLife /\ [][NextLife]_varsLife

(* The client answers, and what has arrived is handled.                    *)
FairSpecLife ==
    /\ SpecLife
    /\ Fairness
    /\ WF_varsLife(Log)

-----------------------------------------------------------------------------
(* Properties *)

TypeOKLife ==
    /\ TypeOK /\ LoggingOK
    /\ told \in BOOLEAN /\ lost \in BOOLEAN /\ untidy \in BOOLEAN
    /\ report \in 0 .. started

(* A crash is reported before the process goes, however opt-ins, opt-outs  *)
(* and their shutdowns interleave with it: the client is told, the event   *)
(* is recorded if telemetry is opted in, and by the very provider whose    *)
(* flush the exit waits for.  Only an opt-in that finds an earlier         *)
(* shutdown in flight, or failed, leaves nobody to record it: its new      *)
(* provider is not registered then.                                        *)
CrashIsReported ==
    /\ process # "up" => told
    /\ lost => untidy
    /\ report # None => awaited = report

(* Events are recorded and the gauges exported, by the provider that the   *)
(* service knows.                                                          *)
Recording == provider = global /\ provider \in running \cap gauges

(* README.md, "Logging", operational-telemetry/README.md (opting in and    *)
(* out), and the handlers of didChangeConfiguration: the client decides.   *)
(* Whatever the order of notifications, requests and answers, telemetry    *)
(* ends up as the client has chosen last, and the log shows the messages   *)
(* of the level it has chosen last and those that are graver (a value that *)
(* is no level changes nothing).  Opted out for good, nothing is collected *)
(* any more, unless shutdowns have overlapped; opted in for good, events   *)
(* and gauges are recorded, unless a shutdown has failed or was in flight  *)
(* at an opt-in: its end unregisters the new provider.                     *)
SettingsAreFollowed ==
    /\ <>[](Alive /\ setting = "out") => <>[](optOut /\ (overlapped \/ Collecting = {}))
    /\ <>[](Alive /\ setting = "in") => <>[](~optOut /\ (untidy \/ Recording))
    /\ \A i \in DOMAIN LOG_LEVELS :
           <>[](Alive /\ wanted = LOG_LEVELS[i]) => <>[](Shown = 1 .. i)

=============================================================================
