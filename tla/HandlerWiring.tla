---------------------------- MODULE HandlerWiring ----------------------------
(***************************************************************************)
(* How the handlers of several servers share one connection, and how the   *)
(* runtime's copy of the open documents follows the client: the            *)
(* construction of a runtime (standalone.ts, base-runtime.ts), the         *)
(* observer of document events (lsp/textDocuments/textDocumentConnection   *)
(* .ts) and the handlers that LspRouter registers for all servers.         *)
(*                                                                         *)
(* A connection has ONE handler per method; registering another one        *)
(* displaces it.  A server's handler gets there in one of three ways:      *)
(*   - straight: it is registered as it is (nearly every chat method);     *)
(*   - fanned: LspRouter is the handler, and hands the message over to the *)
(*     LspServer of each server;                                           *)
(*   - observed: an rxjs observable is the handler, and hands the message  *)
(*     over to its subscribers, the runtime's TextDocuments among them.    *)
(***************************************************************************)
EXTENDS Naturals, Sequences

CONSTANTS
    N,            \* the number of servers
    Wishes,       \* the handlers servers may register: pairs <<server, method>>
    Straight,     \* the methods whose handlers go straight to the connection
    Unheard,      \* the methods whose handlers do not get there at all
    Events,       \* what a workspace folders event may say
    Docs,         \* documents
    MaxVersion,   \* bound: edits of a document
    MaxInFlight   \* bound: messages sent and not yet handled

DocEvents == {"didOpen", "didChange", "didClose", "didSave"}

Fanned == {"didChangeWorkspaceFolders"}

(* Chat requests and chat notifications.                                   *)
Asked == {"chatPrompt"}

Noted == {"pinnedContextAdd"}

Methods == DocEvents \cup Fanned \cup Asked \cup Noted

Servers == 1 .. N

ASSUME NAssumption == N \in Nat
ASSUME WishesAssumption == Wishes \subseteq Servers \X Methods
ASSUME StraightAssumption ==
    Asked \subseteq Straight /\ Straight \subseteq Asked \cup Noted \cup DocEvents
ASSUME UnheardAssumption == Unheard = Noted \ Straight
ASSUME BoundsAssumption == MaxVersion \in Nat \ {0} /\ MaxInFlight \in Nat

(* The methods that go straight in a standalone runtime, where all         *)
(* document events are observed, and in a webworker, where didClose is     *)
(* not, and onPinnedContextAdd sends a notification instead of taking the  *)
(* handler.                                                                *)
Standalone == Asked \cup Noted
Webworker == Asked \cup {"didClose"}

(* What can be the handler of a method at the connection: nobody, a        *)
(* server, the observer, the router.  Documents is the runtime's own       *)
(* subscriber of the observer.                                             *)
Nobody == 0
Observer == N + 1
Router == N + 2
Documents == 0

VARIABLES
    building,    \* the server being constructed, N + 1 once all are
    listening,   \* documents.listen and lspConnection.listen were called
    slot,        \* the handler of each method at the connection
    subs,        \* the subscribers of each document event
    registered,  \* the servers that have registered a handler for a method
    docs,        \* TextDocuments: the version of each document, 0 if not open
    client,      \* the same at the client
    wire,        \* messages of the client on their way
    missed       \* history: <<server, method>> of handlers that were passed over

wiring == <<building, listening, slot, subs, registered>>
vars == <<wiring, docs, client, wire, missed>>

-----------------------------------------------------------------------------
(* Construction *)

Init ==
    /\ building = 1
    /\ listening = FALSE
    /\ slot = [m \in Methods |-> IF m \in Fanned \cup {"didSave"} THEN Router ELSE Nobody]
    /\ subs = [m \in Methods |-> {}]
    /\ registered = [m \in Methods |-> {}]
    /\ docs = [d \in Docs |-> 0]
    /\ client = [d \in Docs |-> 0]
    /\ wire = <<>>
    /\ missed = {}

Subscribe(m, who) ==
    /\ slot' = IF subs[m] = {} THEN [slot EXCEPT ![m] = Observer] ELSE slot
    /\ subs' = [subs EXCEPT ![m] = @ \cup {who}]

(* lspConnection.onRequest(..., handler) and the like.                     *)
GoesStraight(s, m) ==
    /\ m \in Straight
    /\ slot' = [slot EXCEPT ![m] = s]
    /\ UNCHANGED subs

(* The setters of LspServer: the handler is kept for the router.           *)
IsKept(m) == m \in Fanned /\ UNCHANGED <<slot, subs>>

IsLost(m) == m \in Unheard /\ UNCHANGED <<slot, subs>>

(* A server registers a handler, while it is constructed or later.         *)
Register(s, m) ==
    /\ building = s \/ listening
    /\ registered' = [registered EXCEPT ![m] = @ \cup {s}]
    /\ \/ GoesStraight(s, m)
       \/ m \in DocEvents \ Straight /\ Subscribe(m, s)
       \/ IsKept(m)
       \/ IsLost(m)
    /\ UNCHANGED <<building, listening, docs, client, wire, missed>>

(* Mutant of Constructed: one server too many.                             *)
Constructed_oneMore ==
    /\ building <= N + 1
    /\ building' = building + 1
    /\ UNCHANGED <<listening, slot, subs, registered, docs, client, wire, missed>>

Constructed ==
    /\ building <= N
    /\ building' = building + 1
    /\ UNCHANGED <<listening, slot, subs, registered, docs, client, wire, missed>>

(* Mutant of Listen: the documents replace whoever observes an event.      *)
Listen_anew ==
    /\ building = N + 1 /\ ~listening
    /\ listening' = TRUE
    /\ slot' = [m \in Methods |-> IF m \in DocEvents THEN Observer ELSE slot[m]]
    /\ subs' = [m \in Methods |-> IF m \in DocEvents THEN {Documents} ELSE subs[m]]
    /\ UNCHANGED <<building, registered, docs, client, wire, missed>>

(* Mutant of Listen: the documents join only events that nobody observes.  *)
Listen_onlyFree ==
    /\ building = N + 1 /\ ~listening
    /\ listening' = TRUE
    /\ slot' = [m \in Methods |->
                   IF m \in DocEvents /\ subs[m] = {} THEN Observer ELSE slot[m]]
    /\ subs' = [m \in Methods |->
                   IF m \in DocEvents /\ subs[m] = {} THEN {Documents} ELSE subs[m]]
    /\ UNCHANGED <<building, registered, docs, client, wire, missed>>

(* documents.listen: TextDocuments subscribes to every document event,     *)
(* after the servers; then the connection starts.                          *)
Listen ==
    /\ building = N + 1 /\ ~listening
    /\ listening' = TRUE
    /\ slot' = [m \in Methods |->
                   IF m \in DocEvents /\ subs[m] = {} THEN Observer ELSE slot[m]]
    /\ subs' = [m \in Methods |->
                   IF m \in DocEvents THEN subs[m] \cup {Documents} ELSE subs[m]]
    /\ UNCHANGED <<building, registered, docs, client, wire, missed>>

-----------------------------------------------------------------------------
(* The client *)

Message ==
    [method : DocEvents, doc : Docs, version : 0 .. MaxVersion]
        \cup [method : Fanned, event : Events]
        \cup [method : Asked \cup Noted]

Send(message) ==
    /\ listening
    /\ Len(wire) < MaxInFlight
    /\ wire' = Append(wire, message)
    /\ UNCHANGED <<wiring, docs, missed>>

(* The client opens, edits, saves and closes documents and tells of it.    *)
ClientDoes(method, d, version) ==
    /\ client' = [client EXCEPT ![d] = version]
    /\ Send([method |-> method, doc |-> d, version |-> version])

Edit(d) ==
    \/ client[d] = 0 /\ ClientDoes("didOpen", d, 1)
    \/ client[d] \in 1 .. MaxVersion - 1 /\ ClientDoes("didChange", d, client[d] + 1)
    \/ client[d] # 0 /\ ClientDoes("didSave", d, client[d])
    \/ client[d] # 0 /\ ClientDoes("didClose", d, 0)

Chat == \E method \in Asked \cup Noted : Send([method |-> method]) /\ UNCHANGED client

Tell(event) ==
    Send([method |-> "didChangeWorkspaceFolders", event |-> event]) /\ UNCHANGED client

-----------------------------------------------------------------------------
(* The connection hands over a message *)

(* Who is called for a message: Documents and servers.                     *)
Called(m) ==
    IF slot[m] = Observer THEN subs[m]
    ELSE IF slot[m] = Router /\ m \in Fanned THEN registered[m]
    ELSE {slot[m]} \cap Servers

(* Whom a message has passed over: of a request one handler is to answer,  *)
(* of a notification every handler is to hear.                             *)
PassedOver(m) ==
    IF m \in Asked /\ Called(m) # {} THEN {}
    ELSE { <<s, m>> : s \in registered[m] \ Called(m) }

(* What TextDocuments makes of `open` when it is told: a change of a        *)
(* document that is not open is ignored, and saving changes nothing.       *)
Applied(message, open) ==
    IF \/ message.method \in {"didOpen", "didClose"}
       \/ message.method = "didChange" /\ open[message.doc] # 0
    THEN [open EXCEPT ![message.doc] = message.version]
    ELSE open

Handle ==
    /\ wire # <<>>
    /\ LET message == Head(wire) IN
        /\ docs' = IF Documents \in Called(message.method) THEN Applied(message, docs) ELSE docs
        /\ missed' = missed \cup PassedOver(message.method)
    /\ wire' = Tail(wire)
    /\ UNCHANGED <<wiring, client>>

Next ==
    \/ \E wish \in Wishes : Register(wish[1], wish[2])
    \/ Constructed
    \/ Listen
    \/ \E d \in Docs : Edit(d)
    \/ Chat
    \/ \E event \in Events : Tell(event)
    \/ Handle

Spec == Init /\ [][Next]_vars

-----------------------------------------------------------------------------
(* Properties *)

WiringOK ==
    /\ building \in 1 .. N + 1
    /\ listening \in BOOLEAN
    /\ slot \in [Methods -> 0 .. N + 2]
    /\ subs \in [Methods -> SUBSET (0 .. N)]
    /\ registered \in [Methods -> SUBSET Servers]
    /\ missed \subseteq Servers \X Methods

TypeOK ==
    /\ WiringOK
    /\ docs \in [Docs -> 0 .. MaxVersion]
    /\ client \in [Docs -> 0 .. MaxVersion]
    /\ wire \in Seq(Message)

(* Whatever the order in which servers register, at construction or later, *)
(* each of them hears every event it has a handler for, and a request is   *)
(* answered by one of those who have registered: nobody takes the place of *)
(* somebody else at the connection (unless two servers want one chat       *)
(* notification).  "does not overwrite each callback with the next"        *)
(* (textDocumentConnection.ts:33).                                         *)
NoneMissed == missed = {}

(* When all messages are handled, workspace.getTextDocument shows servers  *)
(* what the client has.  It takes the runtime to stay subscribed to all    *)
(* four events for as long as it runs.                                     *)
DocumentsFollowClient == wire = <<>> => docs = client

=============================================================================
