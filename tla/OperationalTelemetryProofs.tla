--------------------- MODULE OperationalTelemetryProofs ---------------------
(***************************************************************************)
(* Proofs about OperationalTelemetry and the RuntimeLifecycle around it,   *)
(* for every number of setting changes and of overlapping shutdowns.       *)
(*                                                                         *)
(* That no event is recorded after an opt-out is not inductive: a shutdown *)
(* captures the CURRENT provider, so the invariant also has to say that    *)
(* the registered provider, as long as it runs, is the current one.  That  *)
(* nothing at all is collected needs two facts more, which hold only as    *)
(* long as shutdowns do not overlap: the tail of a shutdown never finds a  *)
(* running provider registered, and gauges run on no other.                *)
(***************************************************************************)
EXTENDS RuntimeLifecycle, TLAPS

(* Only the current provider can be both registered and running, and only  *)
(* while opted in.                                                         *)
Registered == global \in running => provider = global /\ ~optOut

(* The current provider came with a registration.                          *)
BothOrNone == provider # None => global # None

(* A shutdown in flight has found a current provider, which stays until    *)
(* its end, and left no running one registered.                            *)
TailIsHarmless ==
  ~overlapped => /\ \A p, q \in flushing : p = q
                 /\ flushing # {} => provider # None /\ global \notin running

(* Gauges are registered on the registered provider.                       *)
GaugesOnRegistered ==
  ~overlapped => \A p \in running : p \in gauges => p = global

Apart == BothOrNone /\ TailIsHarmless /\ GaugesOnRegistered

IInv == TypeOK /\ Registered

LEMMA InitInvariant == Init => IInv /\ Apart
<1> SUFFICES ASSUME Init PROVE IInv /\ Apart
  OBVIOUS
<1>1. IInv
  <2>1. optOut \in BOOLEAN /\ overlapped \in BOOLEAN
    BY InitialOptOutAssumption, Zenon DEF Init
  <2>2. started \in {0, 1} /\ provider = started /\ global = started
    BY DEF Init
  <2>3. running \subseteq 1 .. started /\ gauges = running /\ flushing = {}
    BY <2>2 DEF Init, None
  <2>4. started = 1 => ~optOut
    BY DEF Init
  <2>5. replies \in Seq(Settings) /\ asked \in Nat
    BY DEF Init
  <2> QED
    BY <2>1, <2>2, <2>3, <2>4, <2>5, BoundAssumption
       DEF Init, IInv, TypeOK, Registered, None, Settings
<1>2. Apart
  BY DEF Init, None, Apart, BothOrNone, TailIsHarmless, GaugesOnRegistered
<1> QED BY <1>1, <1>2

LEMMA OverlapType ==
  ASSUME RecordOverlap, overlapped \in BOOLEAN
  PROVE  overlapped' \in BOOLEAN
  BY Zenon DEF RecordOverlap

(* A shutdown, up to its await.                                            *)
LEMMA ShutdownStep ==
  ASSUME IInv, shutdownApi
  PROVE  /\ started' = started
         /\ provider' \in 0 .. started
         /\ global' \in 0 .. started
         /\ running' \subseteq running
         /\ flushing' \subseteq (1 .. started) \ running'
         /\ global' \notin running'
<1> USE DEF IInv, TypeOK, None
<1>1. CASE provider = None /\ UnregisterAll /\ UNCHANGED <<running, flushing>>
  BY <1>1 DEF UnregisterAll, shutdownApi
<1>2. CASE /\ provider # None
           /\ flushing' = flushing \cup {provider}
           /\ running' = running \ {provider}
           /\ UNCHANGED <<provider, global>>
  <2>1. global' \notin running'
    BY <1>2 DEF Registered
  <2>2. started' = started
    BY DEF shutdownApi
  <2> QED BY <1>2, <2>1, <2>2
<1> QED BY <1>1, <1>2 DEF shutdownApi

(* A start while opted out.                                                *)
LEMMA StartStep ==
  ASSUME IInv, optOut, startApi
  PROVE  /\ started' \in Nat
         /\ started < started'
         /\ provider' \in 0 .. started'
         /\ global' \in 0 .. started'
         /\ running' \subseteq 1 .. started'
         /\ flushing' \subseteq (1 .. started') \ running'
         /\ global' \in running' => provider' = global'
  BY DEF startApi, IInv, TypeOK, Registered, None

LEMMA ToggleStep ==
  ASSUME IInv, NEW v \in Settings, toggleOptOut(v), UNCHANGED crash
  PROVE  /\ optOut' \in BOOLEAN
         /\ started' \in Nat
         /\ provider' \in 0 .. started'
         /\ global' \in 0 .. started'
         /\ running' \subseteq 1 .. started'
         /\ gauges' \subseteq 1 .. started'
         /\ flushing' \subseteq (1 .. started') \ running'
         /\ awaited' \in 0 .. started'
         /\ Registered'
<1>0. \/ UNCHANGED <<optOut, gauges, api>>
      \/ UNCHANGED <<optOut, api>> /\ RegisterGauges(global)
      \/ optOut' = TRUE /\ shutdownApi /\ RegisterGauges(global)
      \/ optOut /\ optOut' = FALSE /\ startApi /\ RegisterGauges(global')
  BY Zenon DEF toggleOptOut
<1> USE DEF IInv, TypeOK, crash
<1>1. CASE UNCHANGED <<optOut, gauges, api>>
  BY <1>1 DEF api, Registered
<1>2. CASE UNCHANGED <<optOut, api>> /\ RegisterGauges(global)
  BY <1>2 DEF api, RegisterGauges, Registered
<1>3. CASE optOut' = TRUE /\ shutdownApi /\ RegisterGauges(global)
  <2>1. /\ started' = started
        /\ provider' \in 0 .. started
        /\ global' \in 0 .. started
        /\ running' \subseteq running
        /\ flushing' \subseteq (1 .. started) \ running'
        /\ global' \notin running'
    BY <1>3, ShutdownStep
  <2> QED BY <1>3, <2>1 DEF RegisterGauges, Registered
<1>4. CASE optOut /\ optOut' = FALSE /\ startApi /\ RegisterGauges(global')
  <2>1. /\ started' \in Nat
        /\ started < started'
        /\ provider' \in 0 .. started'
        /\ global' \in 0 .. started'
        /\ running' \subseteq 1 .. started'
        /\ flushing' \subseteq (1 .. started') \ running'
        /\ global' \in running' => provider' = global'
    BY <1>4, StartStep
  <2>2. awaited' \in 0 .. started' /\ gauges \subseteq 1 .. started'
    BY <2>1
  <2>3. gauges' \subseteq 1 .. started'
    BY <1>4, <2>1, <2>2 DEF RegisterGauges
  <2>4. Registered'
    BY <1>4, <2>1 DEF Registered
  <2> QED BY <1>4, <2>1, <2>2, <2>3, <2>4
<1> HIDE DEF IInv, TypeOK, crash
<1> QED BY <1>0, <1>1, <1>2, <1>3, <1>4, Zenon

LEMMA StepInvariant == IInv /\ [Next]_vars => IInv'
<1> SUFFICES ASSUME IInv, [Next]_vars PROVE IInv'
  OBVIOUS
<1> USE DEF IInv
<1>1. ASSUME NEW v \in Settings, ChangeSetting(v) PROVE IInv'
  BY <1>1, BoundAssumption
     DEF ChangeSetting, service, api, crash, TypeOK, Registered
<1>2. CASE AnswerConfiguration
  BY <1>2 DEF AnswerConfiguration, service, api, crash, TypeOK, Registered
<1>3. CASE HandleAnswer
  <2>1. Head(replies) \in Settings /\ Tail(replies) \in Seq(Settings)
    BY <1>3 DEF HandleAnswer, TypeOK
  <2>2. toggleOptOut(Head(replies)) /\ UNCHANGED crash
    BY <1>3 DEF HandleAnswer
  <2>3. overlapped' \in BOOLEAN
    BY <1>3, OverlapType DEF HandleAnswer, TypeOK
  <2> QED BY <1>3, <2>1, <2>2, <2>3, ToggleStep DEF HandleAnswer, TypeOK, crash
<1>4. ASSUME HandleException, UNCHANGED setting, changes' = changes,
             replies' = replies, asked' \in Nat
      PROVE  IInv'
  <2>1. /\ started' = started
        /\ provider' \in 0 .. started
        /\ global' \in 0 .. started
        /\ running' \subseteq running
        /\ flushing' \subseteq (1 .. started) \ running'
        /\ global' \notin running'
    BY <1>4, ShutdownStep DEF HandleException
  <2>2. overlapped' \in BOOLEAN
    BY <1>4, OverlapType DEF HandleException, TypeOK
  <2> QED BY <1>4, <2>1, <2>2 DEF HandleException, TypeOK, Registered
<1>9. CASE Crash \/ ConfigurationRefused
  BY <1>4, <1>9 DEF Crash, ConfigurationRefused, client, TypeOK
<1>5. ASSUME NEW p \in flushing, ShutdownDone(p) PROVE IInv'
  BY <1>5 DEF ShutdownDone, UnregisterAll, WakeCrash, client, None, TypeOK, Registered
<1>6. ASSUME NEW p \in flushing, ShutdownFails(p) PROVE IInv'
  BY <1>6 DEF ShutdownFails, WakeCrash, client, TypeOK, Registered
<1>7. CASE Exit
  BY <1>7 DEF Exit, service, api, client, TypeOK, Registered
<1>8. CASE UNCHANGED vars
  BY <1>8 DEF vars, service, api, crash, client, TypeOK, Registered
<1> QED
  BY <1>1, <1>2, <1>3, <1>9, <1>5, <1>6, <1>7, <1>8 DEF Next, Settle

LEMMA Invariant == Spec => []IInv
<1>1. Init => IInv
  BY InitInvariant
<1> QED BY <1>1, StepInvariant, PTL DEF Spec

(* What a shutdown does to Apart, up to its await.                         *)
LEMMA ShutdownApart ==
  ASSUME IInv, Apart, shutdownApi, RecordOverlap
  PROVE  /\ BothOrNone'
         /\ TailIsHarmless'
         /\ ~overlapped' => \A p \in running' : p \notin gauges
<1> USE DEF IInv, TypeOK, Apart, Registered, BothOrNone, TailIsHarmless,
            GaugesOnRegistered, RecordOverlap, None
<1>1. CASE provider = None /\ UnregisterAll /\ UNCHANGED <<running, flushing>>
  BY <1>1 DEF UnregisterAll
<1>2. CASE /\ provider # None
           /\ flushing' = flushing \cup {provider}
           /\ running' = running \ {provider}
           /\ UNCHANGED <<provider, global>>
  BY <1>2
<1> QED BY <1>1, <1>2 DEF shutdownApi

LEMMA ToggleApart ==
  ASSUME IInv, Apart, NEW v \in Settings, toggleOptOut(v), RecordOverlap
  PROVE  Apart'
<1>0. \/ UNCHANGED <<optOut, gauges, api>>
      \/ UNCHANGED <<optOut, api>> /\ RegisterGauges(global)
      \/ optOut' = TRUE /\ shutdownApi /\ RegisterGauges(global)
      \/ optOut /\ optOut' = FALSE /\ startApi /\ RegisterGauges(global')
  BY Zenon DEF toggleOptOut
<1> USE DEF IInv, TypeOK
<1>1. CASE UNCHANGED <<optOut, gauges, api>>
  BY <1>1 DEF api, RecordOverlap, Apart, BothOrNone, TailIsHarmless, GaugesOnRegistered
<1>2. CASE UNCHANGED <<optOut, api>> /\ RegisterGauges(global)
  BY <1>2 DEF api, RegisterGauges, RecordOverlap, Apart, BothOrNone, TailIsHarmless,
              GaugesOnRegistered
<1>3. CASE optOut' = TRUE /\ shutdownApi /\ RegisterGauges(global)
  <2>1. BothOrNone' /\ TailIsHarmless' /\ (~overlapped' => \A p \in running' : p \notin gauges)
    BY <1>3, ShutdownApart
  <2>2. global \notin running'
    BY <1>3 DEF shutdownApi, Registered, None
  <2>3. gauges' = gauges
    BY <1>3, <2>2 DEF RegisterGauges
  <2>4. GaugesOnRegistered'
    BY <2>1, <2>3 DEF GaugesOnRegistered
  <2> QED BY <2>1, <2>4 DEF Apart
<1>4. CASE optOut /\ optOut' = FALSE /\ startApi /\ RegisterGauges(global')
  BY <1>4 DEF startApi, RegisterGauges, RecordOverlap, Registered, None,
              Apart, BothOrNone, TailIsHarmless, GaugesOnRegistered
<1> HIDE DEF IInv, TypeOK
<1> QED BY <1>0, <1>1, <1>2, <1>3, <1>4, Zenon

LEMMA StepApart == IInv /\ Apart /\ [Next]_vars => Apart'
<1> SUFFICES ASSUME IInv, Apart, [Next]_vars PROVE Apart'
  OBVIOUS
<1> USE DEF IInv
<1>1. ASSUME NEW v \in Settings, ChangeSetting(v) PROVE Apart'
  BY <1>1 DEF ChangeSetting, service, api, Apart, BothOrNone, TailIsHarmless, GaugesOnRegistered
<1>2. CASE AnswerConfiguration
  BY <1>2 DEF AnswerConfiguration, service, api, Apart, BothOrNone, TailIsHarmless,
              GaugesOnRegistered
<1>3. CASE HandleAnswer
  <2>1. Head(replies) \in Settings
    BY <1>3 DEF HandleAnswer, TypeOK
  <2> QED BY <1>3, <2>1, ToggleApart DEF HandleAnswer
<1>4. CASE Crash \/ ConfigurationRefused
  <2>1. BothOrNone' /\ TailIsHarmless' /\ (~overlapped' => \A p \in running' : p \notin gauges)
    BY <1>4, ShutdownApart DEF Crash, ConfigurationRefused, HandleException
  <2> QED BY <1>4, <2>1
          DEF Crash, ConfigurationRefused, HandleException, Apart, GaugesOnRegistered
<1>5. ASSUME NEW p \in flushing, ShutdownDone(p) PROVE Apart'
  BY <1>5 DEF ShutdownDone, UnregisterAll, None, TypeOK,
              Apart, BothOrNone, TailIsHarmless, GaugesOnRegistered
<1>6. ASSUME NEW p \in flushing, ShutdownFails(p) PROVE Apart'
  BY <1>6 DEF ShutdownFails, Apart, BothOrNone, TailIsHarmless, GaugesOnRegistered
<1>7. CASE Exit
  BY <1>7 DEF Exit, service, api, Apart, BothOrNone, TailIsHarmless, GaugesOnRegistered
<1>8. CASE UNCHANGED vars
  BY <1>8 DEF vars, service, api, Apart, BothOrNone, TailIsHarmless, GaugesOnRegistered
<1> QED
  BY <1>1, <1>2, <1>3, <1>4, <1>5, <1>6, <1>7, <1>8 DEF Next, Settle

(* After an opt-out no event is recorded, in every interleaving of         *)
(* opt-ins, opt-outs, crashes and ends of shutdowns.                       *)
THEOREM OptOutStopsEvents == Spec => []EventsStopAtOptOut
<1>1. IInv => EventsStopAtOptOut
  BY DEF IInv, Registered, EventsStopAtOptOut
<1> QED BY <1>1, Invariant, PTL

(* As long as shutdowns do not overlap, nothing at all is collected after  *)
(* an opt-out, and never by two providers.                                 *)
THEOREM ApartOptOutStopsAll == Spec => []ApartShutdownsStopAll
<1>1. IInv /\ Apart => ApartShutdownsStopAll
  BY DEF IInv, Registered, Apart, GaugesOnRegistered, ApartShutdownsStopAll,
         NothingCollectedAfterOptOut, Collecting
<1> QED BY <1>1, InitInvariant, StepInvariant, StepApart, PTL DEF Spec

-----------------------------------------------------------------------------
(* The life of the runtime.                                                *)

LEMMA LifeRefines == SpecLife => Spec
<1>1. InitLife => Init
  BY DEF InitLife
<1>2. [NextLife]_varsLife => [Next]_vars
  BY DEF NextLife, varsLife, didChangeConfiguration, Log, Optel, UncaughtException, Next, Settle
<1> QED BY <1>1, <1>2, PTL DEF SpecLife, Spec

(* While telemetry is opted in and no shutdown was untidy, the current     *)
(* provider is registered and runs, with the gauges, and nothing is in     *)
(* flight; while it is opted out and nothing is in flight, none is         *)
(* registered.                                                             *)
Tidy ==
    /\ process # "up" => told
    /\ lost => untidy
    /\ report # None => awaited = report
    /\ process = "up" => report = None /\ ~lost
    /\ ~untidy /\ process = "up" =>
           /\ ~optOut => global \in running \cap gauges /\ flushing = {}
           /\ optOut /\ flushing = {} => global = None

LEMMA LifeInit == InitLife => Tidy
  BY InitialOptOutAssumption DEF InitLife, Init, Tidy, None

LEMMA LifeToggle ==
  ASSUME IInv, Tidy, process = "up", process' = process, NEW v \in Settings, toggleOptOut(v),
         untidy' = (untidy \/ (optOut /\ ~optOut' /\ flushing # {})),
         UNCHANGED <<told, report, lost, awaited>>
  PROVE  Tidy'
<1>0. \/ UNCHANGED <<optOut, gauges, api>>
      \/ UNCHANGED <<optOut, api>> /\ RegisterGauges(global)
      \/ ~optOut /\ optOut' = TRUE /\ shutdownApi /\ RegisterGauges(global)
      \/ optOut /\ optOut' = FALSE /\ startApi /\ RegisterGauges(global')
  BY Zenon DEF toggleOptOut
<1> USE DEF IInv, TypeOK, Tidy, Registered, None
<1>1. CASE UNCHANGED <<optOut, api>> /\ (UNCHANGED gauges \/ RegisterGauges(global))
  BY <1>1 DEF api, RegisterGauges
<1>3. CASE ~optOut /\ optOut' = TRUE /\ shutdownApi
  BY <1>3 DEF shutdownApi, UnregisterAll
<1>4. CASE optOut /\ optOut' = FALSE /\ startApi /\ RegisterGauges(global')
  BY <1>4 DEF startApi, RegisterGauges
<1> QED BY <1>0, <1>1, <1>3, <1>4, Zenon DEF api

LEMMA LifeStep == IInv /\ Tidy /\ [NextLife]_varsLife => Tidy'
<1> SUFFICES ASSUME IInv, Tidy, [NextLife]_varsLife PROVE Tidy'
  OBVIOUS
<1>1. ASSUME UNCHANGED <<optOut, gauges, global, running, flushing, process, awaited, monitors, untidy>>
      PROVE  Tidy'
  BY <1>1 DEF Tidy, monitors
<1>2. ASSUME NEW v \in Settings, NEW l \in Wishes, didChangeConfiguration(v, l) PROVE Tidy'
  BY <1>1, <1>2 DEF didChangeConfiguration, ChangeSetting, service, api, crash
<1>3. CASE Log
  BY <1>1, <1>3 DEF Log, vars, service, api, crash
<1>4. CASE AnswerConfiguration /\ UNCHANGED <<untidy, monitors>>
  BY <1>1, <1>4 DEF AnswerConfiguration, service, api, crash
<1>5. CASE /\ HandleAnswer
           /\ untidy' = (untidy \/ (optOut /\ ~optOut' /\ flushing # {}))
           /\ UNCHANGED monitors
  <2>1. CASE process = "up"
    <3>1. Head(replies) \in Settings
      BY <1>5 DEF HandleAnswer, IInv, TypeOK
    <3> QED BY <1>5, <2>1, <3>1, LifeToggle DEF HandleAnswer, crash, monitors
  <2>2. CASE process # "up"
    <3>1. UNCHANGED <<process, awaited, told, report, lost>> /\ (untidy => untidy')
      BY <1>5 DEF HandleAnswer, crash, monitors
    <3> QED BY <2>2, <3>1 DEF Tidy
  <2> QED BY <2>1, <2>2
<1>6. ASSUME NEW p \in flushing, ShutdownDone(p), UNCHANGED <<untidy, monitors>> PROVE Tidy'
  BY <1>6 DEF ShutdownDone, UnregisterAll, WakeCrash, monitors, Tidy
<1>7. ASSUME NEW p \in flushing, ShutdownFails(p), untidy' = TRUE, UNCHANGED monitors PROVE Tidy'
  BY <1>7 DEF ShutdownFails, WakeCrash, monitors, Tidy
<1>8. CASE Exit /\ UNCHANGED <<untidy, monitors>>
  BY <1>8 DEF Exit, service, api, monitors, Tidy
<1>9. CASE UncaughtException
  <2>1. /\ process = "up" /\ process' # "up" /\ awaited' = provider
        /\ uncaughtExceptionMonitor /\ UNCHANGED untidy
    BY <1>9 DEF UncaughtException, Crash, ConfigurationRefused, HandleException
  <2> QED BY <2>1 DEF uncaughtExceptionMonitor, Tidy, IInv, Registered, None
<1>10. CASE UNCHANGED varsLife
  BY <1>1, <1>10 DEF varsLife, vars, service, api, crash
<1>11. CASE Optel
  <2>1. UNCHANGED monitors
    BY <1>11 DEF Optel
  <2> QED BY <1>4, <1>5, <1>6, <1>7, <1>8, <1>11, <2>1 DEF Optel
<1> QED BY <1>2, <1>3, <1>9, <1>10, <1>11 DEF NextLife

(* A crash is told and recorded before the exit, by the provider whose     *)
(* flush the exit waits for, unless an opt-in found a shutdown in flight   *)
(* or one has failed.                                                      *)
THEOREM CrashReported == SpecLife => []CrashIsReported
<1>1. Tidy => CrashIsReported
  BY DEF Tidy, CrashIsReported
<1> QED BY <1>1, Invariant, LifeRefines, LifeInit, LifeStep, PTL DEF SpecLife

(* What is proved of the telemetry holds of the whole runtime.             *)
THEOREM OptOutInLife == SpecLife => [](EventsStopAtOptOut /\ ApartShutdownsStopAll)
BY LifeRefines, OptOutStopsEvents, ApartOptOutStopsAll, PTL

-----------------------------------------------------------------------------
(* Types, in the telemetry and in the life around it.                      *)

(* Type correctness: a provider whose shutdown is in flight is one that    *)
(* was started and told to shut down.                                      *)
THEOREM TypeCorrect == Spec => []TypeOK
<1>1. IInv => TypeOK
  BY DEF IInv
<1> QED BY <1>1, Invariant, PTL

(* Providers are never taken back.                                         *)
LEMMA StartedGrows == IInv /\ [Next]_vars => started' \in Nat /\ started <= started'
<1> SUFFICES ASSUME IInv, [Next]_vars PROVE started' \in Nat /\ started <= started'
  OBVIOUS
<1>1. started \in Nat
  BY DEF IInv, TypeOK
<1>2. started' = started \/ started' = started + 1
  <2>1. ASSUME HandleAnswer PROVE started' = started \/ started' = started + 1
    BY <2>1, Zenon DEF HandleAnswer, toggleOptOut, shutdownApi, startApi, api
  <2> QED
    BY <2>1 DEF Next, ChangeSetting, AnswerConfiguration, Crash, ConfigurationRefused,
                HandleException, shutdownApi, Settle, ShutdownDone, ShutdownFails, Exit,
                vars, service, api
<1> QED BY <1>1, <1>2

LEMMA LoggingStep ==
  ASSUME LoggingOK, AnswerLevel \/ HandleLevel \/ LevelRefused
  PROVE  LoggingOK'
<1> USE DEF LoggingOK
<1>1. CASE AnswerLevel
  BY <1>1 DEF AnswerLevel
<1>2. CASE HandleLevel
  <2>1. Head(levelReplies) \in Wishes /\ Tail(levelReplies) \in Seq(Wishes)
    BY <1>2 DEF HandleLevel
  <2> QED BY <1>2, <2>1 DEF HandleLevel
<1>3. CASE LevelRefused
  BY <1>3 DEF LevelRefused
<1> QED BY <1>1, <1>2, <1>3

LEMMA LifeTypeStep == IInv /\ IInv' /\ TypeOKLife /\ [NextLife]_varsLife => TypeOKLife'
<1> SUFFICES ASSUME IInv, IInv', TypeOKLife, [NextLife]_varsLife PROVE TypeOKLife'
  OBVIOUS
<1>1. /\ TypeOK /\ TypeOK' /\ LoggingOK /\ report \in 0 .. started
      /\ told \in BOOLEAN /\ lost \in BOOLEAN /\ untidy \in BOOLEAN
  BY DEF IInv, TypeOKLife
<1>2. started \in Nat /\ started' \in Nat /\ started <= started'
  <2>1. [Next]_vars
    BY DEF NextLife, varsLife, didChangeConfiguration, Log, Optel, UncaughtException, Next, Settle
  <2> QED BY <2>1, <1>1, StartedGrows DEF TypeOK
<1>3. LoggingOK'
  <2>1. CASE UNCHANGED logVars
    BY <1>1, <2>1 DEF logVars, LoggingOK
  <2>2. ASSUME NEW v \in Settings, NEW l \in Wishes, didChangeConfiguration(v, l) PROVE LoggingOK'
    BY <1>1, <2>2 DEF didChangeConfiguration, AskLevel, LoggingOK
  <2>3. CASE AnswerLevel \/ HandleLevel \/ LevelRefused
    BY <1>1, <2>3, LoggingStep
  <2> QED
    BY <2>1, <2>2, <2>3 DEF NextLife, Log, Optel, UncaughtException, varsLife
<1>4. told' \in BOOLEAN /\ lost' \in BOOLEAN /\ untidy' \in BOOLEAN
  <2>1. CASE UNCHANGED <<told, lost>>
    <3>1. untidy' = untidy \/ untidy' = TRUE \/ untidy' = (untidy \/ (optOut /\ ~optOut' /\ flushing # {}))
      BY Zenon DEF NextLife, Log, Optel, UncaughtException, didChangeConfiguration, varsLife
    <3> QED BY <1>1, <2>1, <3>1, Zenon
  <2>2. CASE UncaughtException
    <3>1. told' = TRUE /\ lost' = (~optOut /\ global \notin running) /\ untidy' = untidy
      BY <2>2, Zenon DEF UncaughtException, uncaughtExceptionMonitor
    <3> QED BY <1>1, <3>1, Zenon
  <2> QED
    BY <2>1, <2>2 DEF NextLife, Log, Optel, didChangeConfiguration, varsLife, monitors
<1>5. report' \in 0 .. started'
  <2>1. CASE report' = report
    BY <1>1, <1>2, <2>1
  <2>2. CASE UncaughtException
    <3>1. report' = global \/ report' = None
      BY <2>2 DEF UncaughtException, uncaughtExceptionMonitor
    <3> QED BY <1>1, <1>2, <3>1 DEF TypeOK, None
  <2> QED
    BY <2>1, <2>2 DEF NextLife, Log, Optel, didChangeConfiguration, varsLife, monitors
<1> QED BY <1>1, <1>3, <1>4, <1>5 DEF TypeOKLife

(* Type correctness of telemetry, log and monitors together.               *)
THEOREM LifeTypeCorrect == SpecLife => []TypeOKLife
<1>1. InitLife => TypeOKLife
  <2> SUFFICES ASSUME InitLife PROVE TypeOKLife
    OBVIOUS
  <2>1. TypeOK
    BY InitInvariant DEF InitLife, IInv
  <2>2. level \in Wishes \cup {"log"} /\ wanted \in Wishes /\ levelAsked \in Nat
        /\ levelReplies \in Seq(Wishes)
    BY DEF InitLife, InitLogging
  <2>3. told \in BOOLEAN /\ lost \in BOOLEAN /\ untidy \in BOOLEAN
    BY Zenon DEF InitLife
  <2>4. report \in 0 .. started
    BY <2>1 DEF InitLife, TypeOK, None
  <2> QED BY <2>1, <2>2, <2>3, <2>4 DEF TypeOKLife, LoggingOK
<1> QED BY <1>1, Invariant, LifeRefines, LifeTypeStep, PTL DEF SpecLife

-----------------------------------------------------------------------------
(* The exit waits.                                                         *)

LEMMA ExitStep ==
  ASSUME [Next]_vars, process' = "exiting", process # "exiting"
  PROVE  awaited' = None \/ awaited' \notin flushing'
<1>1. CASE HandleException
  BY <1>1 DEF HandleException, None
<1>2. ASSUME NEW p \in flushing, Settle(p)
      PROVE  awaited' \notin flushing'
  BY <1>2 DEF Settle, ShutdownDone, ShutdownFails, WakeCrash
<1>3. CASE UNCHANGED process
  BY <1>3
<1>4. CASE Exit
  BY <1>4 DEF Exit
<1> QED
  BY <1>1, <1>2, <1>3, <1>4
     DEF Next, ChangeSetting, AnswerConfiguration, HandleAnswer, Crash,
         ConfigurationRefused, vars, crash

(* A crash arms its exit timer only when nothing had to be flushed or the  *)
(* flush it waits for has ended (ExitWaitsForFlush), whatever toggles and  *)
(* other shutdowns come between; also in the whole life of the runtime.    *)
THEOREM ExitWaits == (Spec => ExitWaitsForFlush) /\ (SpecLife => ExitWaitsForFlush)
<1>1. [Next]_vars =>
        [ process' = "exiting" /\ process # "exiting" =>
              awaited' = None \/ awaited' \notin flushing' ]_vars
  BY ExitStep
<1>2. Spec => ExitWaitsForFlush
  BY <1>1, PTL DEF Spec, ExitWaitsForFlush
<1> QED BY <1>2, LifeRefines, PTL

-----------------------------------------------------------------------------
(* Settings.                                                               *)

(* What is applied is what was asked for last, once nothing is on its way. *)
SettingsSettle ==
    process = "up" =>
        /\ asked = 0 /\ replies = << >> =>
              /\ setting = "out" => optOut /\ (overlapped \/ Collecting = {})
              /\ setting = "in" => ~optOut /\ (untidy \/ Recording)
        /\ levelAsked = 0 /\ levelReplies = << >> /\ isValidLogLevel(wanted) => level = wanted

(* Every change is followed by a question, so that the last answer says    *)
(* what the client has now.                                                *)
Follows ==
    process = "up" =>
        /\ asked = 0 =>
              /\ replies = << >> /\ setting # "unset" => (optOut <=> setting = "out")
              /\ replies # << >> => replies[Len(replies)] = setting
        /\ levelAsked = 0 =>
              /\ levelReplies = << >> /\ isValidLogLevel(wanted) => level = wanted
              /\ levelReplies # << >> => levelReplies[Len(levelReplies)] = wanted

(* The last answer stays the last one until it is read.                    *)
LEMMA LastOfTail ==
  ASSUME NEW S, NEW seq \in Seq(S), seq # << >>
  PROVE  /\ Tail(seq) = << >> => Head(seq) = seq[Len(seq)]
         /\ Tail(seq) # << >> => Tail(seq)[Len(Tail(seq))] = seq[Len(seq)]
<1> DEFINE rest == Tail(seq)
<1>1. /\ rest \in Seq(S) /\ Len(rest) = Len(seq) - 1 /\ Len(seq) \in Nat \ {0}
      /\ \A i \in 1 .. Len(seq) - 1 : rest[i] = seq[i + 1]
      /\ Head(seq) = seq[1]
  OBVIOUS
<1> HIDE DEF rest
<1>2. rest = << >> <=> Len(rest) = 0
  BY <1>1
<1>3. Len(rest) = 0 => Head(seq) = seq[Len(seq)]
  <2>1. PICK n \in Nat : n = Len(seq)
    BY <1>1
  <2>2. Len(rest) = n - 1 /\ Head(seq) = seq[1]
    BY <1>1, <2>1
  <2>3. Len(rest) = 0 => n = 1
    BY <2>2
  <2> QED BY <2>1, <2>2, <2>3
<1>4. Len(rest) # 0 => rest[Len(rest)] = seq[Len(seq)]
  BY <1>1
<1> QED BY <1>2, <1>3, <1>4 DEF rest

LEMMA FollowsToggle ==
  ASSUME IInv, NEW v \in Settings, toggleOptOut(v), v # "unset"
  PROVE  optOut' <=> v = "out"
<1>0. optOut \in BOOLEAN
  BY DEF IInv, TypeOK
<1>1. CASE v = IF optOut THEN "out" ELSE "in"
  <2>1. optOut' = optOut
    <3>1. (v = "out" /\ ~optOut) = FALSE /\ (v = "in" /\ optOut) = FALSE
      BY <1>1
    <3> QED BY <1>1, <3>1, Zenon DEF toggleOptOut
  <2> QED BY <1>0, <1>1, <2>1
<1>2. CASE v = "out" /\ optOut' = TRUE
  BY <1>2
<1>3. CASE v = "in" /\ optOut' = FALSE
  BY <1>3
<1> QED BY <1>1, <1>2, <1>3, Zenon DEF toggleOptOut

LEMMA FollowsStep == IInv /\ TypeOKLife /\ Follows /\ [NextLife]_varsLife => Follows'
<1> SUFFICES ASSUME IInv, TypeOKLife, Follows, [NextLife]_varsLife, process' = "up"
             PROVE  Follows'
  BY DEF Follows
<1>0. /\ asked \in Nat /\ replies \in Seq(Settings) /\ setting \in Settings
      /\ levelAsked \in Nat /\ levelReplies \in Seq(Wishes)
      /\ level \in Wishes \cup {"log"} /\ wanted \in Wishes
  BY DEF IInv, TypeOK, TypeOKLife, LoggingOK
<1>1. process = "up"
  BY DEF NextLife, didChangeConfiguration, ChangeSetting, Log, Optel, UncaughtException,
         AnswerConfiguration, HandleAnswer, ShutdownDone, ShutdownFails, WakeCrash, Exit,
         Crash, ConfigurationRefused, HandleException, varsLife, vars, crash
<1>2. ASSUME NEW v \in Settings, NEW l \in Wishes, didChangeConfiguration(v, l) PROVE Follows'
  BY <1>0, <1>2 DEF didChangeConfiguration, ChangeSetting, AskLevel, Follows
<1>3. CASE AnswerLevel /\ UNCHANGED vars
  BY <1>0, <1>1, <1>3 DEF AnswerLevel, vars, client, service, Follows
<1>4. CASE HandleLevel /\ UNCHANGED vars
  BY <1>0, <1>1, <1>4, LastOfTail DEF HandleLevel, vars, client, service, Follows
<1>5. CASE AnswerConfiguration /\ UNCHANGED logVars
  BY <1>0, <1>1, <1>5 DEF AnswerConfiguration, logVars, service, Follows
<1>6. CASE HandleAnswer /\ UNCHANGED logVars
  <2>1. Head(replies) \in Settings
    BY <1>0, <1>6 DEF HandleAnswer
  <2>2. Head(replies) # "unset" => (optOut' <=> Head(replies) = "out")
    BY <1>6, <2>1, FollowsToggle DEF HandleAnswer
  <2> QED BY <1>0, <1>1, <1>6, <2>2, LastOfTail DEF HandleAnswer, logVars, Follows
<1>7. CASE /\ \/ \E p \in flushing : ShutdownDone(p) \/ ShutdownFails(p)
              \/ Exit \/ UNCHANGED vars
           /\ UNCHANGED logVars
  BY <1>1, <1>7 DEF ShutdownDone, ShutdownFails, Exit, client, service, vars, logVars, Follows
<1>8. CASE UncaughtException
  BY <1>8 DEF UncaughtException, Crash, ConfigurationRefused, HandleException
<1> QED
  BY <1>2, <1>3, <1>4, <1>5, <1>6, <1>7, <1>8 DEF NextLife, Log, Optel, varsLife

(* The safe half of SettingsAreFollowed: while the process is up and no    *)
(* question or answer is on its way, the log level is the client's and the *)
(* opt-out flag is as the client has it, for any number of changes, also   *)
(* when they overtake the answers to questions about earlier ones.  Opted  *)
(* out, nothing is collected if no two shutdowns have overlapped; opted    *)
(* in, events and gauges are recorded if no shutdown has failed and none   *)
(* was in flight at an opt-in.                                             *)
THEOREM SettingsApply == SpecLife => []SettingsSettle
<1>1. InitLife => Follows
  BY InitialOptOutAssumption DEF InitLife, Init, InitLogging, Follows, isValidLogLevel, LOG_LEVELS
<1>2. IInv /\ Apart /\ Tidy /\ Follows => SettingsSettle
  <2> SUFFICES ASSUME IInv, Apart, Tidy, Follows, process = "up" PROVE SettingsSettle
    BY DEF SettingsSettle
  <2>1. ASSUME asked = 0, replies = << >>, setting = "out"
        PROVE  optOut /\ (overlapped \/ Collecting = {})
    <3>1. optOut
      BY <2>1 DEF Follows
    <3>2. ApartShutdownsStopAll
      BY DEF IInv, Registered, Apart, GaugesOnRegistered, ApartShutdownsStopAll,
             NothingCollectedAfterOptOut, Collecting
    <3> QED BY <3>1, <3>2, Zenon DEF ApartShutdownsStopAll, NothingCollectedAfterOptOut
  <2>2. ASSUME asked = 0, replies = << >>, setting = "in"
        PROVE  ~optOut /\ (untidy \/ Recording)
    <3>1. ~optOut
      BY <2>2 DEF Follows
    <3> QED BY <3>1 DEF Tidy, IInv, Registered, Recording
  <2>3. levelAsked = 0 /\ levelReplies = << >> /\ isValidLogLevel(wanted) => level = wanted
    BY DEF Follows
  <2> QED BY <2>1, <2>2, <2>3 DEF SettingsSettle
<1>3. SpecLife => [](IInv /\ Apart)
  BY LifeRefines, InitInvariant, StepInvariant, StepApart, PTL DEF Spec
<1>4. SpecLife => []Tidy
  BY Invariant, LifeRefines, LifeInit, LifeStep, PTL DEF SpecLife
<1> QED
  BY <1>1, <1>2, <1>3, <1>4, FollowsStep, LifeTypeCorrect, PTL DEF SpecLife

=============================================================================
