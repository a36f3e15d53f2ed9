--------------------------- MODULE EncryptedSession ---------------------------
(***************************************************************************)
(* The requests of a client to a standalone runtime that was started with  *)
(* an encryption key, and the answers of its servers: prompts of the chat  *)
(* (chat/encryptedChat.ts), with the progress sent while they are handled  *)
(* and the tools of AgentTools run for them, and the requests for SSO      *)
(* tokens and IAM credentials (standalone.ts), whose results are encrypted *)
(* member by member in the object that the server has returned             *)
(* (auth/standalone/encryption.ts).                                        *)
(*                                                                         *)
(* Decryption and encryption are awaited, the handlers of servers too.     *)
(* A promise of the crypto library may settle at any time.                 *)
(***************************************************************************)
EXTENDS AgentTools

CONSTANTS
    Requests,   \* the requests of the client, each sent once
    Results,    \* the objects that servers return
    Of,         \* which request each of them is a result of: "sso" or "iam"
    Temporary,  \* those that have a session token
    None,       \* nothing
    Awaiting,   \* the requests whose handlers await the progress they send
    MaxParts,   \* bound: progress sent for a request
    MaxCalls    \* bound: calls of the model for a request

Kinds == {"chat", "sso", "iam"}

ASSUME ResultsAssumption ==
    /\ Of \in [Results -> {"sso", "iam"}]
    /\ Temporary \subseteq {o \in Results : Of[o] = "iam"}
    /\ None \notin Results
ASSUME RequestsAssumption == Awaiting \subseteq Requests
ASSUME BoundsAssumption == MaxParts \in Nat /\ MaxCalls \in Nat

VARIABLES
    kind,      \* what each request asks for, once it was sent
    phase,     \* where its handler stands
    answer,    \* what the client got
    known,     \* chat: the inputs of each tool, as the model was told
    calls,     \* chat: how often the model was asked
    parts,     \* chat: how many parts of progress were sent
    pending,   \* chat: those that are still being encrypted
    object,    \* identity: the object the server has returned
    field,     \* identity: the member that is being encrypted
    taken,     \* identity: the members as they were read, or encrypted
    seals,     \* how often each member of each object was encrypted
    sealed     \* updateCredentialsParams.encrypted of each object

chatVars == <<known, calls, parts, pending>>
resultVars == <<object, field, taken, seals, sealed>>
vars == <<agent, kind, phase, answer, chatVars, resultVars>>

-----------------------------------------------------------------------------

Goto(r, p) == phase' = [phase EXCEPT ![r] = p]

(* The request is answered, and its handler is through.                    *)
Reply(r, what) ==
    /\ Goto(r, "done")
    /\ answer' = [answer EXCEPT ![r] = what]

(* A chat request that is no JWE is refused; the others go to the decoder  *)
(* or, an identity request, to the handler of the server.                  *)
Receive(r, k) ==
    /\ phase[r] = "unsent"
    /\ kind' = [kind EXCEPT ![r] = k]
    /\ \/ k = "chat" /\ Reply(r, "error")
       \/ k = "chat" /\ Goto(r, "decoding") /\ UNCHANGED answer
       \/ k # "chat" /\ Goto(r, "handling") /\ UNCHANGED answer
    /\ UNCHANGED <<agent, chatVars, resultVars>>

(* jwtDecrypt delivers the request.                                        *)
Decoded(r) ==
    /\ phase[r] = "decoding"
    /\ Goto(r, "handling")
    /\ UNCHANGED <<agent, kind, answer, chatVars, resultVars>>

(* ... or rejects it.                                                      *)
DecodeFailed(r) ==
    /\ phase[r] = "decoding"
    /\ Reply(r, "error")
    /\ UNCHANGED <<agent, kind, chatVars, resultVars>>

(* A handler returns nothing or a ResponseError, or throws: sent as it is. *)
Fail(r, what) ==
    /\ phase[r] = "handling"
    /\ Reply(r, what)
    /\ UNCHANGED <<agent, kind, chatVars, resultVars>>

-----------------------------------------------------------------------------
(* Chat *)

Untold == [name \in Names |-> {}]

(* The handler of a prompt hands the tools to a model, and waits for it.   *)
ListTools(r) ==
    /\ kind[r] = "chat" /\ phase[r] = "handling"
    /\ calls[r] < MaxCalls
    /\ known' = [known EXCEPT ![r] =
                    [name \in Names |-> IF tools[name] = NoTool THEN {} ELSE tools[name].accepts]]
    /\ calls' = [calls EXCEPT ![r] = @ + 1]
    /\ Goto(r, "thinking")
    /\ UNCHANGED <<agent, kind, answer, parts, pending, resultVars>>

(* The model asks for one of the tools it was told of, with an input that  *)
(* suits it.  Meanwhile it may have been removed or replaced: runTool then *)
(* throws, and the handler goes on without it.                             *)
RunTool(r, name, input) ==
    /\ phase[r] = "thinking"
    /\ input \in known[r][name]
    /\ known' = [known EXCEPT ![r] = Untold]
    /\ Goto(r, IF CanRun(name, input) THEN "tool" ELSE "handling")
    /\ UNCHANGED <<agent, kind, answer, calls, parts, pending, resultVars>>

(* The model asks for none.                                                *)
RunNone(r) ==
    /\ phase[r] = "thinking"
    /\ Goto(r, "handling")
    /\ known' = [known EXCEPT ![r] = Untold]
    /\ UNCHANGED <<agent, kind, answer, calls, parts, pending, resultVars>>

(* The tool that ran is done.                                              *)
ToolDone(r) ==
    /\ phase[r] = "tool"
    /\ Goto(r, "handling")
    /\ UNCHANGED <<agent, kind, answer, chatVars, resultVars>>

(* Mutant of SendProgress: the promise of the encryption is not returned.  *)
SendProgress_notReturned(r) ==
    /\ kind[r] = "chat" /\ phase[r] = "handling"
    /\ parts[r] < MaxParts
    /\ parts' = [parts EXCEPT ![r] = @ + 1]
    /\ pending' = [pending EXCEPT ![r] = @ + 1]
    /\ UNCHANGED <<agent, kind, phase, answer, known, calls, resultVars>>

(* lsp.sendProgress up to its await; the handler awaits it or goes on.     *)
SendProgress(r) ==
    /\ kind[r] = "chat" /\ phase[r] = "handling"
    /\ parts[r] < MaxParts
    /\ parts' = [parts EXCEPT ![r] = @ + 1]
    /\ pending' = [pending EXCEPT ![r] = @ + 1]
    /\ IF r \in Awaiting THEN Goto(r, "reporting") ELSE UNCHANGED phase
    /\ UNCHANGED <<agent, kind, answer, known, calls, resultVars>>

(* Mutant of PartSent: sendProgress made of callbacks, without one for a   *)
(* failed encryption: the handler waits for good.                          *)
PartSent_neverRejects(r) ==
    /\ pending[r] > 0
    /\ pending' = [pending EXCEPT ![r] = @ - 1]
    /\ \/ UNCHANGED phase
       \/ phase[r] = "reporting" /\ Goto(r, "handling")
    /\ UNCHANGED <<agent, kind, answer, known, calls, parts, resultVars>>

(* The part is encrypted and sent, or sendProgress throws: either way the  *)
(* handler that has awaited it goes on.                                    *)
PartSent(r) ==
    /\ pending[r] > 0
    /\ pending' = [pending EXCEPT ![r] = @ - 1]
    /\ IF phase[r] = "reporting" THEN Goto(r, "handling") ELSE UNCHANGED phase
    /\ UNCHANGED <<agent, kind, answer, known, calls, parts, resultVars>>

(* The handler returns its result, which is encrypted as a whole.          *)
Respond(r) ==
    /\ kind[r] = "chat" /\ phase[r] = "handling"
    /\ Goto(r, "encrypting")
    /\ UNCHANGED <<agent, kind, answer, chatVars, resultVars>>

Encrypted(r) ==
    /\ phase[r] = "encrypting"
    /\ Reply(r, "once")
    /\ UNCHANGED <<agent, kind, chatVars, resultVars>>

-----------------------------------------------------------------------------
(* Identity: encryptSsoResultWithKey and encryptIamResultWithKey *)

(* The keys of a result: the access token, or the access key id (also      *)
(* called token here), the secret access key and the session token.  Each  *)
(* result has the data of updateCredentialsParams, too.                    *)
Keys == {"token", "secret", "session"}
Fields == Keys \cup {"data"}

Members(o) ==
    {"token", "data"} \cup (IF Of[o] = "iam" THEN {"secret"} ELSE {})
                      \cup (IF o \in Temporary THEN {"session"} ELSE {})

(* Mutant of LastKey: does not look whether there is a session token.      *)
LastKey_session(o) == IF Of[o] = "sso" THEN "token" ELSE "session"

LastKey(o) ==
    IF Of[o] = "sso" THEN "token" ELSE IF o \in Temporary THEN "session" ELSE "secret"

Earlier == [token |-> {}, secret |-> {"token"}, session |-> {"token", "secret"}]

(* `await encryptObjectWithKey(member)`: the member is read now.           *)
Read(r, f, values) ==
    /\ Goto(r, "sealing")
    /\ field' = [field EXCEPT ![r] = f]
    /\ taken' = [taken EXCEPT ![r][f] = values[f]]

(* The handler of the server returns an object, maybe one that it has      *)
(* returned before, or that is being encrypted for another request.        *)
Return(r, o) ==
    /\ phase[r] = "handling"
    /\ kind[r] = Of[o]
    /\ object' = [object EXCEPT ![r] = o]
    /\ Read(r, "token", seals[o])
    /\ UNCHANGED <<agent, kind, answer, chatVars, seals, sealed>>

TakenNext(r, next) ==
    [taken[r] EXCEPT ![field[r]] = @ + 1, ![next] = seals[object[r]][next]]

(* A key of an IAM result is encrypted, and kept for the time being; the   *)
(* next one is read.                                                       *)
SealKey(r, next) ==
    /\ phase[r] = "sealing" /\ field[r] \in Keys \ {LastKey(object[r])}
    /\ Earlier[next] = Earlier[field[r]] \cup {field[r]}
    /\ field' = [field EXCEPT ![r] = next]
    /\ taken' = [taken EXCEPT ![r] = TakenNext(r, next)]
    /\ UNCHANGED <<agent, kind, phase, answer, chatVars, object, seals, sealed>>

(* Mutant of FinishOrSealData: does not look whether the data is encrypted. *)
FinishOrSealData_always(r) == Read(r, "data", seals'[object[r]])

(* The data is encrypted too unless the object says that it is already.    *)
FinishOrSealData(r) ==
    \/ /\ sealed[object[r]]
       /\ Goto(r, "returning")
       /\ UNCHANGED <<field, taken>>
    \/ /\ ~sealed[object[r]]
       /\ Read(r, "data", seals'[object[r]])

(* The members of an object, with those in fs replaced by what the request *)
(* has taken, of which the last was not encrypted so far.                  *)
Replaced(r, fs, last) ==
    [f \in Fields |-> IF f \notin fs THEN seals[object[r]][f]
                      ELSE IF f = last THEN taken[r][f] + 1 ELSE taken[r][f]]

(* Mutant of SealLastKey: the other keys are not replaced.                 *)
SealLastKey_alone(r) ==
    /\ phase[r] = "sealing" /\ field[r] = LastKey(object[r])
    /\ seals' = [seals EXCEPT ![object[r]] = Replaced(r, {field[r]}, field[r])]
    /\ FinishOrSealData(r)
    /\ UNCHANGED <<agent, kind, answer, chatVars, object, sealed>>

(* The last key is encrypted: now all are replaced in the object.          *)
SealLastKey(r) ==
    /\ phase[r] = "sealing" /\ field[r] = LastKey(object[r])
    /\ seals' = [seals EXCEPT ![object[r]] =
                    Replaced(r, Members(object[r]) \ {"data"}, field[r])]
    /\ FinishOrSealData(r)
    /\ UNCHANGED <<agent, kind, answer, chatVars, object, sealed>>

(* The data is encrypted and replaced, and the object says so.             *)
SealData(r) ==
    /\ phase[r] = "sealing" /\ field[r] = "data"
    /\ seals' = [seals EXCEPT ![object[r]] = Replaced(r, {"data"}, "data")]
    /\ sealed' = [sealed EXCEPT ![object[r]] = TRUE]
    /\ Goto(r, "returning")
    /\ UNCHANGED <<agent, kind, answer, chatVars, object, field, taken>>

(* An encryption fails, say because the key has not the right length: the  *)
(* request is answered with an error.                                      *)
EncryptionFails(r) ==
    /\ phase[r] \in {"encrypting", "sealing"}
    /\ Reply(r, "error")
    /\ UNCHANGED <<agent, kind, chatVars, resultVars>>

(* How well the members of an object are encrypted that is sent now.       *)
Quality(o) ==
    LET members == Members(o) IN
    IF \E f \in members : seals[o][f] = 0 THEN "plain"
    ELSE IF \E f \in members : seals[o][f] > 1 THEN "twice" ELSE "once"

(* The connection serializes the object, some turns later.                 *)
SendResult(r) ==
    /\ phase[r] = "returning"
    /\ Reply(r, Quality(object[r]))
    /\ UNCHANGED <<agent, kind, chatVars, resultVars>>

-----------------------------------------------------------------------------

(* The data of an object may come encrypted from the server.               *)
Init ==
    /\ InitAgent
    /\ kind = [r \in Requests |-> None]
    /\ phase = [r \in Requests |-> "unsent"]
    /\ answer = [r \in Requests |-> "none"]
    /\ known = [r \in Requests |-> Untold]
    /\ calls = [r \in Requests |-> 0]
    /\ parts = [r \in Requests |-> 0]
    /\ pending = [r \in Requests |-> 0]
    /\ object = [r \in Requests |-> None]
    /\ field = [r \in Requests |-> "token"]
    /\ taken = [r \in Requests |-> [f \in Fields |-> 0]]
    /\ sealed \in [Results -> BOOLEAN]
    /\ seals = [o \in Results |->
                    [f \in Fields |-> IF f = "data" /\ sealed[o] THEN 1 ELSE 0]]

ServerChangesTools ==
    ChangeTools /\ UNCHANGED <<kind, phase, answer, chatVars, resultVars>>

Decode(r) == Decoded(r) \/ DecodeFailed(r)

HandleChat(r) ==
    \/ ListTools(r)
    \/ \E name \in Names, input \in Inputs : RunTool(r, name, input)
    \/ RunNone(r) \/ ToolDone(r)
    \/ SendProgress(r)
    \/ Respond(r)

Handle(r) ==
    \/ \E what \in {"error", "null"} : Fail(r, what)
    \/ HandleChat(r)
    \/ \E o \in Results : Return(r, o)

Encrypt(r) ==
    \/ Encrypted(r)
    \/ \E next \in Keys : SealKey(r, next)
    \/ SealLastKey(r) \/ SealData(r)
    \/ EncryptionFails(r)

Next ==
    \/ ServerChangesTools
    \/ \E r \in Requests :
        \/ \E k \in Kinds : Receive(r, k)
        \/ Decode(r) \/ Handle(r) \/ PartSent(r) \/ Encrypt(r) \/ SendResult(r)

Spec == Init /\ [][Next]_vars

(* Promises of the crypto library settle, and so do handlers of servers,   *)
(* which come to an end and do not only list tools and send progress.      *)
Fairness ==
    \A r \in Requests :
        /\ WF_vars(Decode(r)) /\ WF_vars(Handle(r)) /\ WF_vars(PartSent(r))
        /\ WF_vars(Encrypt(r)) /\ WF_vars(SendResult(r))

FairSpec == Spec /\ Fairness

-----------------------------------------------------------------------------
(* Properties *)

Phases ==
    {"unsent", "decoding", "handling", "thinking", "tool", "reporting",
     "encrypting", "sealing", "returning", "done"}

SessionOK ==
    /\ AgentOK
    /\ kind \in [Requests -> Kinds \cup {None}]
    /\ phase \in [Requests -> Phases]
    /\ answer \in [Requests -> {"none", "error", "null", "plain", "once", "twice"}]
    /\ known \in [Requests -> [Names -> SUBSET Inputs]]
    /\ calls \in [Requests -> 0 .. MaxCalls]
    /\ parts \in [Requests -> 0 .. MaxParts]
    /\ pending \in [Requests -> Nat]
    /\ object \in [Requests -> Results \cup {None}]
    /\ field \in [Requests -> Fields]
    /\ taken \in [Requests -> [Fields -> Nat]]
    /\ seals \in [Results -> [Fields -> Nat]]
    /\ sealed \in [Results -> BOOLEAN]

(* What is being encrypted for a request is a member of its object.        *)
TypeOK ==
    /\ SessionOK
    /\ \A r \in Requests : phase[r] = "sealing" => field[r] \in Members(object[r])

(* No credential leaves the runtime in plain text, also when servers       *)
(* return one object for several requests and its members are encrypted    *)
(* for all of them at once.  (The members are read before and replaced     *)
(* after an await; what is replaced is never put back in plain.)           *)
NothingInPlain == \A r \in Requests : answer[r] # "plain"

(* A client that decrypts once gets the credential: nothing was encrypted  *)
(* twice, unless the server has returned the same object for two requests. *)
SealedOnce ==
    \A r \in Requests :
        answer[r] = "twice" => \E q \in Requests \ {r} : object[q] = object[r]

(* The client gets all progress of a prompt before its answer, if the      *)
(* handler awaits the progress it sends.                                   *)
NoPartAfterAnswer ==
    \A r \in Awaiting : answer[r] # "none" => pending[r] = 0

(* Every request is answered, also one that cannot be decrypted, whichever *)
(* way the encryptions for several requests interleave.                    *)
EveryRequestIsAnswered ==
    \A r \in Requests : phase[r] # "unsent" ~> answer[r] # "none"

=============================================================================
