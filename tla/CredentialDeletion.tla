------------------------- MODULE CredentialDeletion -------------------------
(***************************************************************************)
(* The credential store of Auth together with the servers that use it:     *)
(* how they register for deletions while the runtime constructs them       *)
(* (standalone.ts, base-runtime.ts), and how a deletion reaches them       *)
(* through the router (lsp/router/lspRouter.ts, lspServer.ts).             *)
(*                                                                         *)
(* Every server is given the same two providers.  The runtime points the   *)
(* onCredentialsDeleted of the credentials provider at the LspServer of    *)
(* each server in turn, just before it constructs that server: whoever     *)
(* calls it later reaches the LspServer of the last one.  That of the      *)
(* provider of alternate tokens sets a field that nobody calls.            *)
(***************************************************************************)
EXTENDS Auth

CONSTANTS
    N,                 \* the number of servers
    MayRegisterLate,   \* servers that may register once the runtime is running
    MayRegisterAtAtx,  \* servers that may register at the ATX provider
    MayThrow,          \* servers whose handlers may throw
    ExitsOnRejection   \* an unhandled rejection ends the process (Node)

Servers == 1 .. N

Types == {"iam", "bearer"}

(* What a server may read: alternate tokens too, from a provider of their  *)
(* own; they are deleted with the bearer token.                            *)
Kinds == Types \cup {"atx"}

DeletedAs(kind) == IF kind = "atx" THEN "bearer" ELSE kind

ASSUME NAssumption == N \in Nat \ {0}
ASSUME LateAssumption == MayRegisterLate \subseteq Servers
ASSUME AtAtxAssumption == MayRegisterAtAtx \subseteq Servers
ASSUME ThrowAssumption == MayThrow \subseteq Servers
ASSUME ExitAssumption == ExitsOnRejection \in BOOLEAN

VARIABLES
    built,       \* how many servers are constructed
    slot,        \* whose handler the credentialsDeleteHandler of each LspServer is
    registered,  \* the servers that have registered a handler there
    ownHandler,  \* whose handler the credentialsDeleteHandler of Auth itself is
    held,        \* the credential each server keeps, of each kind
    alive,       \* no handler has ended the process yet
    gone         \* history: the updates answered before the last deletion

servers == <<built, slot, registered, ownHandler>>
allVars == <<vars, servers, held, alive, gone>>

NoServer == 0

Listening == alive /\ built = N

Provided(kind) == IF kind = "atx" THEN getAtxCredentials ELSE getCredentials(kind)

-----------------------------------------------------------------------------

(* onCredentialsDeleted, as the credentials provider holds it at the       *)
(* moment.                                                                 *)
onCredentialsDeleted(target, s) ==
    /\ slot' = [slot EXCEPT ![target] = s]
    /\ registered' = registered \cup {s}

(* Mutant of ConstructServer: one LspServer for all registrations.         *)
ConstructServer_firstSlot ==
    /\ built < N
    /\ built' = built + 1
    /\ \/ onCredentialsDeleted(1, built + 1)
       \/ UNCHANGED <<slot, registered>>
    /\ UNCHANGED <<vars, ownHandler, held, alive, gone>>

(* Mutant of ConstructServer: one server too many.                         *)
ConstructServer_oneMore ==
    /\ built <= N
    /\ built' = built + 1
    /\ \/ onCredentialsDeleted(built + 1, built + 1)
       \/ UNCHANGED <<slot, registered>>
    /\ UNCHANGED <<vars, ownHandler, held, alive, gone>>

(* The runtime constructs the next server, which registers at once or not. *)
ConstructServer ==
    /\ built < N
    /\ built' = built + 1
    /\ \/ onCredentialsDeleted(built + 1, built + 1)
       \/ UNCHANGED <<slot, registered>>
    /\ UNCHANGED <<vars, ownHandler, held, alive, gone>>

(* A server registers later, say when it is initialized, and looks at the  *)
(* providers again in case it has missed a deletion.                       *)
RegisterLate(s) ==
    /\ Listening
    /\ s \in MayRegisterLate
    /\ onCredentialsDeleted(N, s)
    /\ held' = [held EXCEPT ![s] = [kind \in Kinds |-> Provided(kind)]]
    /\ UNCHANGED <<vars, built, ownHandler, alive, gone>>

(* A server calls onCredentialsDeleted of the provider of alternate        *)
(* tokens, while it is constructed or later.                               *)
RegisterAtAtx(s) ==
    /\ alive
    /\ s <= built
    /\ s \in MayRegisterAtAtx
    /\ ownHandler' = s
    /\ UNCHANGED <<vars, built, slot, registered, held, alive, gone>>

(* A server reads a credential and keeps it, in a client of some service.  *)
ReadCredentials(s, kind) ==
    /\ Listening
    /\ held' = [held EXCEPT ![s][kind] = Provided(kind)]
    /\ UNCHANGED <<vars, servers, alive, gone>>

(* Credentials are updated: no server hears of it.                         *)
Update ==
    /\ Listening
    /\ \E r \in Requests : ReceiveUpdate(r) \/ Decode(r) \/ AnswerMetadata(r)
    /\ UNCHANGED <<servers, held, alive, gone>>

(* The servers whose handlers are called when the one in slot `last` is    *)
(* the last to be called.                                                  *)
Told(last) == { slot[i] : i \in 1 .. last } \ {NoServer}

(* notifyCredentialsDeletion of the LspServers up to `last`: the handlers  *)
(* look again at what is deleted under that type, in both providers.       *)
notifyCredentialsDeletion(type, last) ==
    held' = [s \in Servers |->
                IF s \in Told(last)
                THEN [kind \in Kinds |->
                         IF DeletedAs(kind) = type THEN Provided(kind)' ELSE held[s][kind]]
                ELSE held[s]]

(* onCredentialsDeletion: the LspServers in their order, in one turn.  A   *)
(* handler that throws ends the loop and rejects the promise of            *)
(* routeNotificationToAllServers, which nobody handles; the server it      *)
(* belongs to has done its part first.                                     *)
onCredentialsDeletion(type) ==
    /\ \/ notifyCredentialsDeletion(type, N) /\ UNCHANGED alive
       \/ \E i \in Servers :
            /\ slot[i] \in MayThrow
            /\ notifyCredentialsDeletion(type, i)
            /\ alive' = ~ExitsOnRejection
    /\ gone' = [gone EXCEPT ![type] = { r \in Requests : Answered(r) }]
    /\ UNCHANGED servers

(* The delete notifications of Auth, with all that follows from them.      *)
DeleteIamEverywhere ==
    Listening /\ DeleteIam /\ onCredentialsDeletion("iam")

DeleteBearerEverywhere ==
    Listening /\ DeleteBearer /\ onCredentialsDeletion("bearer")

-----------------------------------------------------------------------------

InitAll ==
    /\ Init
    /\ built = 0
    /\ slot = [i \in Servers |-> NoServer]
    /\ registered = {}
    /\ ownHandler = NoServer
    /\ held = [s \in Servers |-> [kind \in Kinds |-> None]]
    /\ alive = TRUE
    /\ gone = [type \in Types |-> {}]

NextAll ==
    \/ ConstructServer
    \/ \E s \in Servers : RegisterLate(s) \/ RegisterAtAtx(s)
    \/ \E s \in Servers, kind \in Kinds : ReadCredentials(s, kind)
    \/ Update
    \/ DeleteIamEverywhere
    \/ DeleteBearerEverywhere

SpecAll == InitAll /\ [][NextAll]_allVars

-----------------------------------------------------------------------------
(* Properties *)

TypeOKAll ==
    /\ built \in 0 .. N
    /\ slot \in [Servers -> 0 .. N]
    /\ registered \subseteq Servers
    /\ ownHandler \in 0 .. N
    /\ held \in [Servers -> [Kinds -> Requests \cup {None}]]
    /\ alive \in BOOLEAN
    /\ gone \in [Types -> SUBSET Requests]

(* After `aws/credentials/.../delete` no server that registered for        *)
(* deletions at the credentials provider keeps a credential whose update   *)
(* was answered before it, an alternate token included, nor reads it again *)
(* later from a provider, as long as the process goes on.  It takes the    *)
(* registration of every server to be in a slot of its own, the loop over  *)
(* the slots to reach all of them, and a store in which no late            *)
(* continuation of an update brings back what was deleted.  (Nothing of    *)
(* the kind is true of a server that registered at the ATX provider only.) *)
NoneIsKept ==
    alive => \A s \in registered, kind \in Kinds :
                 held[s][kind] \notin gone[DeletedAs(kind)]

=============================================================================
