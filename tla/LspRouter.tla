----------------------------- MODULE LspRouter ------------------------------
(***************************************************************************)
(* How the runtime makes one language server out of several:               *)
(* lsp/router/lspRouter.ts, the state it keeps per server in               *)
(* lsp/router/lspServer.ts, and the routing of notification follow-ups in  *)
(* lsp/router/routerByServerName.ts.                                       *)
(*                                                                         *)
(* Servers answer asynchronously and one at a time; what the router does   *)
(* when the last awaited answer arrives happens in that same turn.         *)
(* Servers are numbered by their position in the router's list.            *)
(***************************************************************************)
EXTENDS Naturals, FiniteSets

CONSTANTS
    N,              \* the number of servers
    Names,          \* serverInfo names
    NoName,         \* no serverInfo
    Passive,        \* servers without an initialize handler
    Commands,       \* executable commands
    Claims,         \* the commands each server answers initialize with
    Updaters,       \* servers with an updateConfiguration handler
    MaxInitializes  \* bound on the initialize requests of the client

Servers == 1 .. N

ASSUME NAssumption == N \in Nat \ {0}
ASSUME NamesAssumption == NoName \notin Names
ASSUME ServersAssumption == Passive \subseteq Servers /\ Updaters \subseteq Servers
ASSUME ClaimsAssumption == Claims \in [Servers -> SUBSET Commands]
ASSUME BoundAssumption == MaxInitializes \in Nat

VARIABLES
    named,     \* the serverInfo name each server answers initialize with
    phase,     \* what the client knows: its last initialize request
    rounds,    \* how many it has sent
    reply,     \* the answer of each server to it
    ready,     \* the servers with an initializeResult
    executors, \* the servers with an executeCommandHandler
    router,    \* the notificationRouter of each server: the name it goes by
    shows,     \* clientSupportsNotifications
    shown,     \* notifications at the client: who sent it, under which name
    followup,  \* the last follow-up: who sent the notification, who was told
    running,   \* the server that executes each command, 0 if none
    update,    \* what each server makes of the updateConfiguration request
    answer     \* what the client is told of it

init == <<named, phase, rounds, reply, ready, router, shows>>
notif == <<shown, followup>>
commands == <<executors, running>>
config == <<update, answer>>
vars == <<init, notif, commands, config>>

NoServer == 0

-----------------------------------------------------------------------------
(* initialize *)

(* The answers that carry a name.                                          *)
Named(replies) == { s \in Servers \ Passive : replies[s] = "ok" /\ named[s] # NoName }

(* Mutant of findDuplicates: compares a server with the next one only.     *)
findDuplicates_neighbours(replies) ==
    \E s \in Named(replies) : s + 1 \in Named(replies) /\ named[s] = named[s + 1]

(* findDuplicates: two answers carry the same name.                        *)
findDuplicates(replies) ==
    \E s, t \in Named(replies) : s # t /\ named[s] = named[t]

(* Mutant of Verdict: the first answer without error is enough.            *)
Verdict_anyServer(replies) ==
    IF \A s \in Servers : replies[s] = "waiting" THEN "initializing"
    ELSE IF \E s \in Servers : replies[s] = "error" THEN "refused" ELSE "initialized"

(* Mutant of Verdict: waits for every server to initialize, not to answer. *)
Verdict_onlyOk(replies) ==
    IF \E s \in Servers : replies[s] # "ok" THEN "initializing"
    ELSE IF findDuplicates(replies) THEN "refused" ELSE "initialized"

(* The router goes on when every server has answered: an error of a server *)
(* or a name used twice is the answer to the client.                       *)
Verdict(replies) ==
    IF \E s \in Servers : replies[s] = "waiting" THEN "initializing"
    ELSE IF (\E s \in Servers : replies[s] = "error") \/ findDuplicates(replies)
         THEN "refused" ELSE "initialized"

(* The client may try again after an error, and says in every request      *)
(* whether it can show notifications; a server without initialize handler  *)
(* answers undefined.                                                      *)
Initialize ==
    /\ phase \in {"new", "refused"}
    /\ rounds < MaxInitializes
    /\ rounds' = rounds + 1
    /\ reply' = [s \in Servers |-> IF s \in Passive THEN "ok" ELSE "waiting"]
    /\ phase' = Verdict(reply')
    /\ shows' \in BOOLEAN
    /\ UNCHANGED <<named, ready, router, notif, commands, config>>

(* A server answers (its serverInfo is the same in every request): its     *)
(* result and its notification router are kept, whatever becomes of the    *)
(* request as a whole.                                                     *)
ServerInitialized(s) ==
    /\ reply[s] = "waiting"
    /\ reply' = [reply EXCEPT ![s] = "ok"]
    /\ phase' = Verdict(reply')
    /\ ready' = ready \cup {s}
    /\ router' = IF named[s] # NoName THEN [router EXCEPT ![s] = named[s]] ELSE router
    /\ UNCHANGED <<named, rounds, shows, notif, commands, config>>

(* It answers with a ResponseError, or throws.                             *)
ServerRefuses(s) ==
    /\ reply[s] = "waiting"
    /\ reply' = [reply EXCEPT ![s] = "error"]
    /\ phase' = Verdict(reply')
    /\ UNCHANGED <<named, rounds, shows, ready, router, notif, commands, config>>

-----------------------------------------------------------------------------
(* Notifications and their follow-ups *)

(* Mutant of ShowNotification: sends without asking for the router.        *)
ShowNotification_unguarded(s) ==
    /\ shows
    /\ shown' = shown \cup {[from |-> s, name |-> router[s]]}
    /\ UNCHANGED <<init, followup, commands, config>>

(* showNotification: sent under the name of the router, if there is one.   *)
(* (Notifications that have an id; the others cannot be followed up.)      *)
ShowNotification(s) ==
    /\ shows
    /\ router[s] # NoName
    /\ shown' = shown \cup {[from |-> s, name |-> router[s]]}
    /\ UNCHANGED <<init, followup, commands, config>>

(* processFollowup: the servers that find their own name in the source id  *)
(* (every server has a follow-up handler).                                 *)
Addressees(name) == { s \in Servers : router[s] = name }

(* The client follows up on a notification, as often as it likes.          *)
Followup(n) ==
    /\ n \in shown
    /\ followup' = [from |-> n.from, to |-> Addressees(n.name), in |-> phase]
    /\ UNCHANGED <<init, shown, commands, config>>

-----------------------------------------------------------------------------
(* Commands *)

(* onExecuteCommand: a server says that it executes commands, while it is  *)
(* constructed or later.  (One without initialize handler claims none, and *)
(* what it says is left out.)                                              *)
SetExecuteCommandHandler(s) ==
    /\ s \notin Passive \cup executors
    /\ executors' = executors \cup {s}
    /\ UNCHANGED <<init, notif, running, config>>

(* tryExecuteCommand: the server claims the command and has a handler.     *)
Capable(c) == { s \in ready \cap executors : c \in Claims[s] }

FirstCapable(c) == CHOOSE s \in Capable(c) : \A t \in Capable(c) : s <= t

(* executeCommand: handed to the first server that is capable; undefined   *)
(* is the answer when there is none.  (Bound: one request per command.)    *)
ExecuteCommand(c) ==
    /\ running[c] = NoServer
    /\ Capable(c) # {}
    /\ running' = [running EXCEPT ![c] = FirstCapable(c)]
    /\ UNCHANGED <<init, notif, executors, config>>

(* Its handler settles, and that is the answer.                            *)
CommandDone(c) ==
    /\ running[c] # NoServer
    /\ running' = [running EXCEPT ![c] = NoServer]
    /\ UNCHANGED <<init, notif, executors, config>>

-----------------------------------------------------------------------------
(* updateConfiguration *)

(* The request goes to all servers; those without a handler answer at once.*)
(* (Bound: one request at a time, once the answer to the previous one has  *)
(* come and its handlers are done.)                                        *)
UpdateConfiguration ==
    /\ \A s \in Servers : update[s] # "running"
    /\ update' = [s \in Servers |-> IF s \in Updaters THEN "running" ELSE "nothing"]
    /\ answer' = IF Updaters = {} THEN "null" ELSE "pending"
    /\ UNCHANGED <<init, notif, commands>>

(* Mutant of Collected: looks at the first answer only.                    *)
Collected_first(updates) ==
    IF \E s \in Servers : updates[s] = "applied" THEN "null" ELSE "pending"

(* Promise.all over the servers: pending until all have answered, and then *)
(* an error if there is one among the answers.                             *)
Collected(updates) ==
    IF \E s \in Servers : updates[s] = "running" THEN "pending"
    ELSE IF \E s \in Servers : updates[s] = "failed" THEN "error" ELSE "null"

(* A handler answers, with a ResponseError or not.                         *)
UpdateAnswered(s, result) ==
    /\ update[s] = "running"
    /\ update' = [update EXCEPT ![s] = result]
    /\ answer' = IF answer = "pending" THEN Collected(update') ELSE answer
    /\ UNCHANGED <<init, notif, commands>>

(* A handler throws: the client gets an error without waiting for others.  *)
UpdateThrows(s) ==
    /\ update[s] = "running"
    /\ update' = [update EXCEPT ![s] = "failed"]
    /\ answer' = IF answer = "pending" THEN "error" ELSE answer
    /\ UNCHANGED <<init, notif, commands>>

-----------------------------------------------------------------------------

Init ==
    /\ named \in [Servers -> Names \cup {NoName}]
    /\ \A s \in Passive : named[s] = NoName
    /\ phase = "new"
    /\ rounds = 0
    /\ reply = [s \in Servers |-> "none"]
    /\ ready = {}
    /\ router = [s \in Servers |-> NoName]
    /\ shows = FALSE
    /\ shown = {}
    /\ followup = [from |-> NoServer, to |-> {}, in |-> "new"]
    /\ executors = {}
    /\ running = [c \in Commands |-> NoServer]
    /\ update = [s \in Servers |-> "nothing"]
    /\ answer = "none"

UpdateStep(s) ==
    \/ \E result \in {"applied", "failed"} : UpdateAnswered(s, result)
    \/ UpdateThrows(s)

Next ==
    \/ Initialize
    \/ \E s \in Servers : ServerInitialized(s) \/ ServerRefuses(s)
    \/ \E s \in Servers : ShowNotification(s)
    \/ \E n \in shown : Followup(n)
    \/ \E s \in Servers : SetExecuteCommandHandler(s)
    \/ \E c \in Commands : ExecuteCommand(c) \/ CommandDone(c)
    \/ UpdateConfiguration
    \/ \E s \in Servers : UpdateStep(s)

Spec == Init /\ [][Next]_vars

(* The handlers of the servers settle.                                     *)
Fairness ==
    /\ \A s \in 1 .. N : WF_vars(ServerInitialized(s) \/ ServerRefuses(s))
    /\ \A s \in 1 .. N : WF_vars(UpdateStep(s))
    /\ \A c \in Commands : WF_vars(CommandDone(c))

FairSpec == Spec /\ Fairness

-----------------------------------------------------------------------------
(* Properties *)

Phases == {"new", "initializing", "refused", "initialized"}

TypeOK ==
    /\ named \in [Servers -> Names \cup {NoName}]
    /\ phase \in Phases
    /\ rounds \in 0 .. MaxInitializes
    /\ reply \in [Servers -> {"none", "waiting", "ok", "error"}]
    /\ ready \subseteq Servers
    /\ executors \subseteq Servers
    /\ router \in [Servers -> Names \cup {NoName}]
    /\ shows \in BOOLEAN
    /\ shown \subseteq [from : Servers, name : Names]
    /\ followup \in [from : 0 .. N, to : SUBSET Servers, in : Phases]
    /\ running \in [Commands -> 0 .. N]
    /\ update \in [Servers -> {"nothing", "running", "applied", "failed"}]
    /\ answer \in {"none", "pending", "null", "error"}

(* Once the client was told that the runtime is initialized, a follow-up   *)
(* reaches the server that sent the notification and no other, also for a  *)
(* notification sent during an earlier initialize request that failed.     *)
(* (The names that route follow-ups are kept per server whatever the       *)
(* outcome; only the check for duplicates makes them addresses.)           *)
FollowupGoesHome ==
    followup.in = "initialized" => followup.to = {followup.from}

RoutesToFirst ==
    \A c \in Commands, s \in executors \ Passive :
        /\ phase = "initialized" /\ c \in Claims[s]
        /\ running[c] = NoServer /\ running'[c] # NoServer
        => running'[c] <= s

(* Which server executes a command does not depend on which server was     *)
(* quicker to initialize: once the client was told that the runtime is     *)
(* initialized, a command goes to the first of all the servers that claim  *)
(* it and have a handler, not only of those that are ready.  (A server     *)
(* that claims it without having a handler is passed over.)                *)
StableRouting == [][RoutesToFirst]_vars

(* The client is told that a configuration update succeeded only if every  *)
(* server that takes updates has applied it.                               *)
UpdateSucceedsAsAWhole ==
    answer = "null" => \A s \in Updaters : update[s] = "applied"

(* A client that waits for initialize or for a configuration update is     *)
(* answered, whichever servers fail.                                       *)
ClientIsAnswered ==
    /\ phase = "initializing" ~> phase # "initializing"
    /\ answer = "pending" ~> answer # "pending"

=============================================================================
