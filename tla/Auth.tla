-------------------------------- MODULE Auth --------------------------------
(***************************************************************************)
(* The credential store of a runtime: src/runtimes/runtimes/auth/auth.ts.  *)
(*                                                                         *)
(* The client sends `aws/credentials/{iam,token}/update` requests and      *)
(* `.../delete` notifications.  The connection hands over one message per  *)
(* turn of the event loop, so a handler is atomic up to its next pending   *)
(* promise.  Two promises can be pending in an update handler:             *)
(*   - jwtDecrypt, for an encrypted request        (pc = "decoding");      *)
(*   - the getConnectionMetadata request that the handler of a bearer      *)
(*     update sends BACK to the client when the update came without        *)
(*     metadata                                    (pc = "fetching").      *)
(* Other messages are handled between those points.                        *)
(*                                                                         *)
(* A credential, and the connection metadata that describes it, is named   *)
(* by the update request that carried it.                                  *)
(***************************************************************************)
EXTENDS Naturals

CONSTANTS
    Requests,    \* the update requests the client may send, each once
    None,        \* `undefined`
    Payloads,    \* what the data of a request may hold
    CanDecrypt,  \* a key was given to the constructor, with encoding JWT
    StartUrl     \* the kind of SSO start URL of each request's connection

PayloadKinds == {"iam", "bearer", "both", "neither"}

UrlKinds == {"absent", "builderId", "unparsable", "awsHost", "otherHost"}

ASSUME NoneAssumption == None \notin Requests
ASSUME PayloadsAssumption == Payloads \subseteq PayloadKinds
ASSUME CanDecryptAssumption == CanDecrypt \in BOOLEAN
ASSUME StartUrlAssumption == StartUrl \in [Requests -> UrlKinds]

VARIABLES
    iam,      \* iamCredentials
    bearer,   \* bearerCredentials
    atx,      \* atxCredentials
    meta,     \* connectionMetadata
    pc,       \* where the handler of each request stands
    msg       \* the request itself, once it was sent

store == <<iam, bearer, atx, meta>>
vars == <<iam, bearer, atx, meta, pc, msg>>

-----------------------------------------------------------------------------

(* An update request.  `atx` stands for credentialkey = 'atx-bearer' and   *)
(* `supplied` for a metadata member; the IAM handler reads neither.        *)
Message ==
    { m \in [channel : {"iam", "bearer"}, encrypted : BOOLEAN,
             data : Payloads, atx : BOOLEAN, supplied : BOOLEAN] :
        m.channel = "iam" => ~m.atx /\ ~m.supplied }

isIamCredentials(data) == data \in {"iam", "both"}

isBearerCredentials(data) == data \in {"bearer", "both"}

(* "stored" and "bare" are both an answer without error; "bare" is that of *)
(* a bearer update whose metadata the client failed to deliver.            *)
States == {"unsent", "decoding", "fetching", "stored", "bare", "rejected"}

InFlight(r) == pc[r] \in {"decoding", "fetching"}

Answered(r) == pc[r] \in {"stored", "bare", "rejected"}

Goto(r, state) == pc' = [pc EXCEPT ![r] = state]

-----------------------------------------------------------------------------

(* Mutant of setCredentials: keeps the payload in its raw form.            *)
setCredentials_raw(r, data) ==
    IF isIamCredentials(data)
    THEN iam' = data /\ UNCHANGED bearer
    ELSE bearer' = data /\ UNCHANGED iam

(* setCredentials: access keys are looked for first, whichever the handler *)
(* that calls it.                                                          *)
setCredentials(r, data) ==
    IF isIamCredentials(data)
    THEN iam' = r /\ UNCHANGED bearer
    ELSE bearer' = r /\ UNCHANGED iam

(* The rest of the IAM update handler once the credentials are readable.   *)
FinishIamUpdate(r, m) ==
    \/ /\ isIamCredentials(m.data)
       /\ setCredentials(r, m.data)
       /\ Goto(r, "stored")
       /\ UNCHANGED <<atx, meta>>
    \/ /\ ~isIamCredentials(m.data)
       /\ iam' = None
       /\ Goto(r, "rejected")
       /\ UNCHANGED <<bearer, atx, meta>>

(* An alternate token, with credentialkey 'atx-bearer'.                    *)
StoreAtx(r) ==
    /\ atx' = r
    /\ Goto(r, "stored")
    /\ UNCHANGED <<iam, bearer, meta>>

(* A token that came with its metadata.                                    *)
StoreBearer(r, data) ==
    /\ meta' = r
    /\ setCredentials(r, data)
    /\ Goto(r, "stored")
    /\ UNCHANGED atx

(* Mutant of AskForMetadata: makes the token visible before its metadata.  *)
AskForMetadata_storesFirst(r) ==
    /\ bearer' = r
    /\ Goto(r, "fetching")
    /\ UNCHANGED <<iam, atx, meta>>

(* A token without: requestConnectionMetadata up to its await.             *)
AskForMetadata(r) ==
    /\ Goto(r, "fetching")
    /\ UNCHANGED store

(* Mutant of RefuseBearer: clears every slot.                              *)
RefuseBearer_clearsAll(r) ==
    /\ iam' = None
    /\ bearer' = None
    /\ atx' = None
    /\ Goto(r, "rejected")
    /\ UNCHANGED meta

(* No token at all: both bearer slots are cleared.                         *)
RefuseBearer(r) ==
    /\ bearer' = None
    /\ atx' = None
    /\ Goto(r, "rejected")
    /\ UNCHANGED <<iam, meta>>

(* The rest of the bearer update handler once the credentials are          *)
(* readable, up to the request for metadata it may have to send.           *)
FinishBearerUpdate(r, m) ==
    \/ isBearerCredentials(m.data) /\ m.atx /\ StoreAtx(r)
    \/ isBearerCredentials(m.data) /\ ~m.atx /\ m.supplied /\ StoreBearer(r, m.data)
    \/ isBearerCredentials(m.data) /\ ~m.atx /\ ~m.supplied /\ AskForMetadata(r)
    \/ ~isBearerCredentials(m.data) /\ RefuseBearer(r)

FinishUpdate(r, m) ==
    \/ m.channel = "iam" /\ FinishIamUpdate(r, m)
    \/ m.channel = "bearer" /\ FinishBearerUpdate(r, m)

(* decodeCredentialsRequestToken throws at once without a usable key, and  *)
(* leaves the store alone.                                                 *)
RejectUndecodable(r) ==
    /\ Goto(r, "rejected")
    /\ UNCHANGED store

-----------------------------------------------------------------------------

Init ==
    /\ iam = None
    /\ bearer = None
    /\ atx = None
    /\ meta = None
    /\ pc = [r \in Requests |-> "unsent"]
    /\ msg = [r \in Requests |-> None]

(* An update request arrives.                                              *)
ReceiveUpdate(r) ==
    /\ pc[r] = "unsent"
    /\ \E m \in Message :
        /\ msg' = [msg EXCEPT ![r] = m]
        /\ \/ ~m.encrypted /\ FinishUpdate(r, m)
           \/ m.encrypted /\ CanDecrypt /\ Goto(r, "decoding") /\ UNCHANGED store
           \/ m.encrypted /\ ~CanDecrypt /\ RejectUndecodable(r)

(* jwtDecrypt delivers the payload of an encrypted request.                *)
Decoded(r) ==
    /\ pc[r] = "decoding"
    /\ FinishUpdate(r, msg[r])
    /\ UNCHANGED msg

(* jwtDecrypt rejects the token, or its payload has no data.               *)
DecodeFailed(r) ==
    /\ pc[r] = "decoding"
    /\ RejectUndecodable(r)
    /\ UNCHANGED msg

(* Mutant of MetadataArrives: takes an answer that comes after the failure *)
(* was already reported.                                                   *)
MetadataArrives_late(r) ==
    /\ pc[r] \in {"fetching", "bare"}
    /\ meta' = r
    /\ setCredentials(r, msg[r].data)
    /\ Goto(r, "stored")
    /\ UNCHANGED <<atx, msg>>

(* The client answers getConnectionMetadata: metadata and credentials are  *)
(* set in the same turn.                                                   *)
MetadataArrives(r) ==
    /\ pc[r] = "fetching"
    /\ meta' = r
    /\ setCredentials(r, msg[r].data)
    /\ Goto(r, "stored")
    /\ UNCHANGED <<atx, msg>>

(* Mutant of MetadataFails: keeps the metadata of the previous connection. *)
MetadataFails_keepsMetadata(r) ==
    /\ pc[r] = "fetching"
    /\ setCredentials(r, msg[r].data)
    /\ Goto(r, "bare")
    /\ UNCHANGED <<atx, meta, msg>>

(* Mutant of MetadataFails: starts the handler over instead of giving up.  *)
MetadataFails_retries(r) ==
    /\ pc[r] = "fetching"
    /\ meta' = None
    /\ Goto(r, "decoding")
    /\ UNCHANGED <<iam, bearer, atx, msg>>

(* The client answers it with an error, or with nothing: the credentials   *)
(* are stored all the same.                                                *)
MetadataFails(r) ==
    /\ pc[r] = "fetching"
    /\ meta' = None
    /\ setCredentials(r, msg[r].data)
    /\ Goto(r, "bare")
    /\ UNCHANGED <<atx, msg>>

(* The delete notifications.  The router then tells the servers, which     *)
(* LspRouter models: that call changes nothing here.                       *)
DeleteIam ==
    /\ iam' = None
    /\ UNCHANGED <<bearer, atx, meta, pc, msg>>

(* Mutant of DeleteBearer: forgets the metadata.                           *)
DeleteBearer_keepsMetadata ==
    /\ bearer' = None
    /\ atx' = None
    /\ UNCHANGED <<iam, meta, pc, msg>>

(* ... and when a bearer token is deleted, its alternate and its metadata. *)
DeleteBearer ==
    /\ bearer' = None
    /\ atx' = None
    /\ meta' = None
    /\ UNCHANGED <<iam, pc, msg>>

Decode(r) == Decoded(r) \/ DecodeFailed(r)

AnswerMetadata(r) == MetadataArrives(r) \/ MetadataFails(r)

Next ==
    \/ \E r \in Requests :
        ReceiveUpdate(r) \/ Decode(r) \/ AnswerMetadata(r)
    \/ DeleteIam
    \/ DeleteBearer

Spec == Init /\ [][Next]_vars

(* Promises of the crypto library settle, and a client answers the         *)
(* requests it is sent, as JSON-RPC obliges it to.  Nothing in the code    *)
(* bounds the wait for that answer, so the second conjunct is a premise    *)
(* about the client and not a fact about the runtime.                      *)
Fairness ==
    \A r \in Requests : WF_vars(Decode(r)) /\ WF_vars(AnswerMetadata(r))

FairSpec == Spec /\ Fairness

-----------------------------------------------------------------------------
(* What the servers read: getCredentialsProvider, getAtxCredentialsProvider *)

getCredentials(type) == IF type = "iam" THEN iam ELSE bearer

getAtxCredentials == atx

hasCredentials(type) == getCredentials(type) # None

(* The classification of an SSO start URL made by getConnectionType.       *)
ConnectionTypeOf(url) ==
    CASE url \in {"absent", "unparsable"} -> "none"
      [] url = "builderId" -> "builderId"
      [] url = "awsHost" -> "identityCenter"
      [] url = "otherHost" -> "external_idp"

getConnectionType ==
    IF meta = None THEN "none" ELSE ConnectionTypeOf(StartUrl[meta])

-----------------------------------------------------------------------------
(* Properties *)

(* Every slot holds a request's credential or nothing, and a message is    *)
(* known exactly for the requests that were sent.                          *)
TypeOK ==
    /\ iam \in Requests \cup {None}
    /\ bearer \in Requests \cup {None}
    /\ atx \in Requests \cup {None}
    /\ meta \in Requests \cup {None}
    /\ pc \in [Requests -> States]
    /\ msg \in [Requests -> Message \cup {None}]
    /\ \A r \in Requests : pc[r] # "unsent" => msg[r] \in Message

(* The connection that the store describes is that of its bearer token, or *)
(* none when the client failed to deliver the metadata: whatever the order *)
(* in which updates are decoded, metadata requests are answered and        *)
(* deletions arrive, no bearer token is ever seen beside the metadata of   *)
(* another connection.  (auth.ts sets the metadata and the token in one    *)
(* turn, on three paths, and deletes them together.)  Metadata are those   *)
(* of an accepted bearer update at all times: an alternate token has none, *)
(* and its provider describes whatever the bearer connection is or was.    *)
BearerHasItsConnection ==
    /\ bearer # None =>
        /\ pc[bearer] = "stored" =>
                /\ meta = bearer
                /\ getConnectionType = ConnectionTypeOf(StartUrl[bearer])
        /\ pc[bearer] = "bare" =>
                /\ meta = None
                /\ getConnectionType = "none"
    /\ meta # None =>
        /\ pc[meta] = "stored"
        /\ msg[meta].channel = "bearer" /\ ~msg[meta].atx

(* Servers never read from a slot a credential of the other kind, nor one  *)
(* whose update has not been answered with success: neither an update that *)
(* was refused, nor one that still waits for its metadata, is visible.     *)
OnlyAcceptedIsVisible ==
    /\ hasCredentials("iam") =>
            /\ isIamCredentials(msg[getCredentials("iam")].data)
            /\ pc[getCredentials("iam")] \in {"stored", "bare"}
    /\ hasCredentials("bearer") =>
            /\ isBearerCredentials(msg[getCredentials("bearer")].data)
            /\ pc[getCredentials("bearer")] \in {"stored", "bare"}
    /\ getAtxCredentials # None =>
            /\ isBearerCredentials(msg[getAtxCredentials].data)
            /\ msg[getAtxCredentials].atx
            /\ pc[getAtxCredentials] = "stored"

(* A credential enters a slot only in the turn that answers its own        *)
(* update: once an update was answered, deleting its credential or         *)
(* replacing it is final, and no late continuation brings it back.         *)
AnsweredNeverReturns ==
    [][ \A r \in Requests :
            Answered(r) => /\ iam' = r => iam = r
                           /\ bearer' = r => bearer = r
                           /\ atx' = r => atx = r ]_vars

(* A token that cannot be decrypted changes nothing the servers can read,  *)
(* even though its payload would have been accepted; a readable payload of *)
(* the wrong kind clears slots of its own channel and nothing else.  So no *)
(* failed update of one channel logs the user out of the other.            *)
RefusalStaysInItsChannel ==
    [][ \A r \in Requests :
            pc'[r] = "rejected" /\ pc[r] # "rejected" =>
                LET m == msg'[r] IN
                /\ meta' = meta
                /\ m.channel = "iam" =>
                        /\ bearer' = bearer /\ atx' = atx
                        /\ isIamCredentials(m.data) => iam' = iam
                /\ m.channel = "bearer" =>
                        /\ iam' = iam
                        /\ isBearerCredentials(m.data) =>
                                bearer' = bearer /\ atx' = atx ]_vars

(* The handlers, with their promises, behave like the atomic store.        *)
StatusOf ==
    [unsent |-> "new", decoding |-> "pending", fetching |-> "pending",
     stored |-> "accepted", bare |-> "accepted", rejected |-> "refused"]

Status == [r \in Requests |-> StatusOf[pc[r]]]

Store == INSTANCE CredentialStore WITH status <- Status

(* Every update takes effect in one turn between its arrival and its       *)
(* answer, in one slot, as CredentialStore says.                           *)
ImplementsStore == Store!Spec

(* Every update whose handler has started is answered, whether or not the  *)
(* token can be decrypted and the client has metadata to give.             *)
EveryUpdateIsAnswered ==
    \A r \in Requests : InFlight(r) ~> Answered(r)

=============================================================================
