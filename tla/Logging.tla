------------------------------- MODULE Logging --------------------------------
(***************************************************************************)
(* The log level of a runtime: lsp/router/loggingServer.ts and             *)
(* util/loggingUtil.ts.  initialize sets it as the client asks, without a  *)
(* look at it; a change of the configuration makes the handler fetch       *)
(* aws.logLevel, which counts only if it is a level.  A component without  *)
(* a specification of its own: RuntimeLifecycle composes it with the       *)
(* operational telemetry, which hears of the same notifications.           *)
(***************************************************************************)
EXTENDS Naturals, Sequences

CONSTANT Wishes   \* what a client may have as its log level: levels and other values

LOG_LEVELS == <<"error", "warn", "info", "log", "debug">>

VARIABLES
    level,         \* level of the logger
    wanted,        \* aws.logLevel at the client
    levelAsked,    \* getConfiguration requests the client has not answered
    levelReplies   \* its answers, on their way

logVars == <<level, wanted, levelAsked, levelReplies>>

Rank(l) == CHOOSE i \in DOMAIN LOG_LEVELS : LOG_LEVELS[i] = l

isValidLogLevel(l) == \E i \in DOMAIN LOG_LEVELS : LOG_LEVELS[i] = l

(* A level that is none compares with undefined: nothing is enabled.       *)
isLogLevelEnabled(l, severity) == isValidLogLevel(l) /\ Rank(l) >= Rank(severity)

(* What sendToLog passes on to the client.                                 *)
Shown == { i \in DOMAIN LOG_LEVELS : isLogLevelEnabled(level, LOG_LEVELS[i]) }

-----------------------------------------------------------------------------

(* After initialize, with the level of the client or "log" if it has none. *)
InitLogging ==
    /\ wanted \in Wishes
    /\ level = IF wanted = "absent" THEN "log" ELSE wanted
    /\ levelAsked = 0
    /\ levelReplies = << >>

(* didChangeConfiguration, up to its request.                              *)
AskLevel ==
    /\ levelAsked' = levelAsked + 1
    /\ UNCHANGED <<level, levelReplies>>

AnswerLevel ==
    /\ levelAsked > 0
    /\ levelAsked' = levelAsked - 1
    /\ levelReplies' = Append(levelReplies, wanted)
    /\ UNCHANGED <<level, wanted>>

(* The rest of the handler.                                                *)
HandleLevel ==
    /\ levelReplies # << >>
    /\ level' = IF isValidLogLevel(Head(levelReplies)) THEN Head(levelReplies) ELSE level
    /\ levelReplies' = Tail(levelReplies)
    /\ UNCHANGED <<wanted, levelAsked>>

(* The client refuses the request: the handler's promise is rejected and   *)
(* nobody handles that.                                                    *)
LevelRefused ==
    /\ levelAsked > 0
    /\ levelAsked' = levelAsked - 1
    /\ UNCHANGED <<level, wanted, levelReplies>>

-----------------------------------------------------------------------------
(* The level is one the client has had, or the default.                    *)
LoggingOK ==
    /\ level \in Wishes \cup {"log"}
    /\ wanted \in Wishes
    /\ levelAsked \in Nat
    /\ levelReplies \in Seq(Wishes)

=============================================================================
