------------------------ MODULE OperationalTelemetry ------------------------
(***************************************************************************)
(* Opting in and out of the operational telemetry of a runtime:            *)
(* operational-telemetry/operational-telemetry-service.ts and its caller,  *)
(* util/telemetryLspServer.ts.                                             *)
(*                                                                         *)
(* The client notifies a change of its settings; the handler asks it for   *)
(* the value of aws.optOutTelemetry and hands the answer to toggleOptOut.  *)
(* Opting in creates a meter provider and a logger provider; opting out    *)
(* shuts them down.  The two are created, registered, captured, disabled   *)
(* and forgotten together, so one number stands for both: the n-th start.  *)
(* shutdownApi awaits the flush of the providers it captured and THEN      *)
(* unregisters the global providers and forgets the current ones, whoever  *)
(* they are by then; toggleOptOut does not await it.                       *)
(*                                                                         *)
(* The OpenTelemetry API is external: a global provider is registered only *)
(* if there is none, and a provider that was told to shut down records and *)
(* exports nothing from then on but what it has already collected.         *)
(***************************************************************************)
EXTENDS Naturals, Sequences

CONSTANTS
    InitialOptOut,  \* initializationOptions.telemetryOptOut ?? true
    MaxChanges      \* bound on the changes of the client's setting

ASSUME InitialOptOutAssumption == InitialOptOut \in BOOLEAN
ASSUME BoundAssumption == MaxChanges \in Nat

None == 0

Settings == {"in", "out", "unset"}

VARIABLES
    optOut,     \* telemetryOptOut of the service
    provider,   \* loggerProvider and meterProvider of the service
    global,     \* the globally registered providers
    started,    \* how many providers were ever started
    running,    \* the providers that were not told to shut down
    gauges,     \* the providers on which the memory gauges are registered
    flushing,   \* the captured providers of the shutdowns in flight
    overlapped, \* history: two shutdowns were in flight at a time
    process,    \* the state of the process
    awaited,    \* the shutdown that a crash waits for
    setting,    \* aws.optOutTelemetry at the client
    changes,    \* how often the client changed it
    asked,      \* getConfiguration requests the client has not answered
    replies     \* its answers, on their way

api == <<provider, global, started, running, flushing>>
service == <<optOut, gauges, api, overlapped>>
crash == <<process, awaited>>
client == <<setting, changes, asked, replies>>
vars == <<service, crash, client>>

-----------------------------------------------------------------------------

Alive == process # "exited"

(* What leaves the process: periodically what the gauges of a running      *)
(* provider report, and the events emitted through the global provider.    *)
Collecting == { p \in running : p \in gauges \/ p = global }

(* setMemoryUsageTelemetry with g registered globally: a provider that was *)
(* shut down takes no gauges.                                              *)
RegisterGauges(g) == gauges' = IF g \in running' THEN gauges \cup {g} ELSE gauges

startApi ==
    /\ started' = started + 1
    /\ running' = running \cup {started'}
    /\ provider' = started'
    /\ global' = IF global = None THEN started' ELSE global
    /\ UNCHANGED flushing

(* The rest of shutdownApi after its await.                                *)
UnregisterAll == global' = None /\ provider' = None

(* Mutant of shutdownApi: unregisters without shutting anything down.      *)
shutdownApi_noShutdown ==
    /\ UnregisterAll
    /\ UNCHANGED <<running, flushing, started>>

(* Mutant of shutdownApi: waits for providers it never told to shut down.  *)
shutdownApi_onlyWaits ==
    /\ \/ provider = None /\ UnregisterAll /\ UNCHANGED flushing
       \/ /\ provider # None
          /\ flushing' = flushing \cup {provider}
          /\ UNCHANGED <<provider, global>>
    /\ UNCHANGED <<running, started>>

(* shutdownApi up to its await.  With nothing to shut down the rest runs   *)
(* in the same turn of the event loop.                                     *)
shutdownApi ==
    /\ \/ /\ provider = None
          /\ UnregisterAll
          /\ UNCHANGED <<running, flushing>>
       \/ /\ provider # None
          /\ flushing' = flushing \cup {provider}
          /\ running' = running \ {provider}
          /\ UNCHANGED <<provider, global>>
    /\ UNCHANGED started

RecordOverlap ==
    overlapped' = (overlapped \/ \E p, q \in flushing' : p # q)

(* toggleOptOut with the answer v of the client, then the registration of  *)
(* the gauges (before the rest of a shutdown can run); a value that is not *)
(* a boolean is ignored.                                                   *)
toggleOptOut(v) ==
    \/ /\ v = "unset"
       /\ UNCHANGED <<optOut, gauges, api>>
    \/ /\ v = IF optOut THEN "out" ELSE "in"
       /\ UNCHANGED <<optOut, api>>
       /\ RegisterGauges(global)
    \/ /\ v = "out" /\ ~optOut
       /\ optOut' = TRUE
       /\ shutdownApi
       /\ RegisterGauges(global)
    \/ /\ v = "in" /\ optOut
       /\ optOut' = FALSE
       /\ startApi
       /\ RegisterGauges(global')

-----------------------------------------------------------------------------

(* The service is created in a turn of its own right after initialize, and *)
(* registers the gauges.                                                   *)
Init ==
    /\ optOut = InitialOptOut
    /\ started = IF InitialOptOut THEN 0 ELSE 1
    /\ provider = started
    /\ global = started
    /\ running = {started} \ {None}
    /\ gauges = running
    /\ flushing = {}
    /\ overlapped = FALSE
    /\ process = "up"
    /\ awaited = None
    /\ setting = IF InitialOptOut THEN "out" ELSE "in"
    /\ changes = 0
    /\ asked = 0
    /\ replies = << >>

(* The user changes the setting; the didChangeConfiguration handler sends  *)
(* a getConfiguration request.                                             *)
ChangeSetting(v) ==
    /\ Alive
    /\ changes < MaxChanges
    /\ setting' = v
    /\ changes' = changes + 1
    /\ asked' = asked + 1
    /\ UNCHANGED <<service, crash, replies>>

(* The client answers with the value it has at that moment.                *)
AnswerConfiguration ==
    /\ Alive
    /\ asked > 0
    /\ asked' = asked - 1
    /\ replies' = Append(replies, setting)
    /\ UNCHANGED <<service, crash, setting, changes>>

(* Mutant of HandleAnswer: takes the newest answer first.                  *)
HandleAnswer_newestFirst ==
    /\ Alive
    /\ replies # << >>
    /\ toggleOptOut(replies[Len(replies)])
    /\ RecordOverlap
    /\ replies' = SubSeq(replies, 1, Len(replies) - 1)
    /\ UNCHANGED <<crash, setting, changes, asked>>

(* The rest of the didChangeConfiguration handler.                         *)
HandleAnswer ==
    /\ Alive
    /\ replies # << >>
    /\ toggleOptOut(Head(replies))
    /\ RecordOverlap
    /\ replies' = Tail(replies)
    /\ UNCHANGED <<crash, setting, changes, asked>>

(* Mutant of HandleException: does not await the shutdown.                 *)
HandleException_doesNotWait ==
    /\ process = "up"
    /\ shutdownApi
    /\ RecordOverlap
    /\ awaited' = provider
    /\ process' = "exiting"
    /\ UNCHANGED <<optOut, gauges>>

(* The handler of uncaughtException starts a shutdown of its own and waits *)
(* for it; with nothing to flush it arms the exit timer at once.           *)
(* (Bound: one uncaught exception.)                                        *)
HandleException ==
    /\ process = "up"
    /\ shutdownApi
    /\ RecordOverlap
    /\ awaited' = provider
    /\ process' = IF provider = None THEN "exiting" ELSE "crashing"
    /\ UNCHANGED <<optOut, gauges>>

Crash == HandleException /\ UNCHANGED client

(* The client refuses the request for its setting: the rejection of the    *)
(* handler's promise, which nobody handles, is an uncaught exception.      *)
ConfigurationRefused ==
    /\ asked > 0
    /\ asked' = asked - 1
    /\ HandleException
    /\ UNCHANGED <<setting, changes, replies>>

(* The crash handler that waited for the shutdown of p goes on.            *)
WakeCrash(p) ==
    /\ process' = IF process = "crashing" /\ awaited = p THEN "exiting" ELSE process
    /\ UNCHANGED awaited

(* The providers captured by a shutdown have flushed.                      *)
ShutdownDone(p) ==
    /\ Alive
    /\ p \in flushing
    /\ flushing' = flushing \ {p}
    /\ UnregisterAll
    /\ WakeCrash(p)
    /\ UNCHANGED <<optOut, gauges, started, running, overlapped, client>>

(* Mutant of ShutdownFails: the error is not caught.                       *)
ShutdownFails_uncaught(p) ==
    /\ Alive
    /\ p \in flushing
    /\ flushing' = flushing \ {p}
    /\ UNCHANGED <<optOut, gauges, provider, global, started, running, overlapped, crash, client>>

(* ... or failed to: the error is caught, and nothing is unregistered.     *)
ShutdownFails(p) ==
    /\ Alive
    /\ p \in flushing
    /\ flushing' = flushing \ {p}
    /\ WakeCrash(p)
    /\ UNCHANGED <<optOut, gauges, provider, global, started, running, overlapped, client>>

(* The timer armed by a crash: exit with code 5.                           *)
Exit ==
    /\ process = "exiting"
    /\ process' = "exited"
    /\ UNCHANGED <<service, awaited, client>>

Settle(p) == ShutdownDone(p) \/ ShutdownFails(p)

Next ==
    \/ \E v \in Settings : ChangeSetting(v)
    \/ AnswerConfiguration
    \/ HandleAnswer
    \/ Crash
    \/ ConfigurationRefused
    \/ \E p \in flushing : Settle(p)
    \/ Exit

Spec == Init /\ [][Next]_vars

(* The client answers, the event loop handles what has arrived, the flush  *)
(* of a provider ends (its exporters have timeouts), timers fire.          *)
Fairness ==
    /\ WF_vars(AnswerConfiguration)
    /\ WF_vars(HandleAnswer)
    /\ \A p \in 1 .. MaxChanges + 1 : WF_vars(Settle(p))
    /\ WF_vars(Exit)

-----------------------------------------------------------------------------
(* Properties *)

(* Providers are numbered by their start, and one whose shutdown is in     *)
(* flight was told to shut down.                                           *)
TypeOK ==
    /\ optOut \in BOOLEAN
    /\ started \in Nat
    /\ provider \in 0 .. started
    /\ global \in 0 .. started
    /\ running \subseteq 1 .. started
    /\ gauges \subseteq 1 .. started
    /\ flushing \subseteq (1 .. started) \ running
    /\ overlapped \in BOOLEAN
    /\ process \in {"up", "crashing", "exiting", "exited"}
    /\ awaited \in 0 .. started
    /\ setting \in Settings
    /\ changes \in 0 .. MaxChanges
    /\ asked \in Nat
    /\ replies \in Seq(Settings)

(* Once telemetry is opted out no event emitted by a server is recorded,   *)
(* however opt-ins, opt-outs, crashes and the ends of their shutdowns      *)
(* interleave: the globally registered provider is never one that still    *)
(* runs.  (toggleOptOut sets the flag before anything is unregistered.)    *)
EventsStopAtOptOut == optOut => global \notin running

(* ... and the periodic export of the gauges stops as well: nothing at all *)
(* is collected once telemetry is opted out.                               *)
NothingCollectedAfterOptOut == optOut => Collecting = {}

(* That holds, and nothing is ever collected twice, as long as no shutdown *)
(* starts before the previous one is over.  (The tail of a shutdown        *)
(* forgets the current providers, not those it has captured.)              *)
ApartShutdownsStopAll ==
    ~overlapped => NothingCollectedAfterOptOut /\ \A p, q \in Collecting : p = q

(* A crash arms its exit timer only when the shutdown it waits for has     *)
(* flushed the telemetry or failed to, also when that shutdown was in      *)
(* flight already or the user toggles the setting meanwhile.               *)
ExitWaitsForFlush ==
    [][ process' = "exiting" /\ process # "exiting" =>
            awaited' = None \/ awaited' \notin flushing' ]_vars

(* A crash ends the process even if the telemetry cannot be flushed.       *)
CrashExits == process = "crashing" ~> process = "exited"

=============================================================================
