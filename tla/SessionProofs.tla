---------------------------- MODULE SessionProofs ----------------------------
(***************************************************************************)
(* Theorems about EncryptedSession and the tools of AgentTools, for any    *)
(* number of requests, result objects and tools, without bound on how      *)
(* handlers share the objects they return.                                 *)
(*                                                                         *)
(* What a request does to the members of an object is invisible to the     *)
(* other requests until it replaces them, so the invariants relate the     *)
(* members a request has taken to those that are in the object now:        *)
(*   - Past: what a request has replaced is encrypted, and stays so;       *)
(*   - Exact: in an object that was returned for one request alone, the    *)
(*     members are encrypted as often as that request has got to.          *)
(***************************************************************************)
EXTENDS EncryptedSession, TLAPS

InUse(r) == phase[r] \in {"sealing", "returning"}

(* Only a request whose handler is through has an object, and it is one of *)
(* its kind.                                                               *)
Owned ==
    \A r \in Requests :
        /\ object[r] # None => InUse(r) \/ phase[r] = "done"
        /\ InUse(r) => object[r] \in Results /\ kind[r] = Of[object[r]]

(* A member that a request is past is encrypted, whoever else has replaced *)
(* it meanwhile; so is data that is said to be.                            *)
PastOf(r) ==
    /\ phase[r] = "sealing" /\ field[r] # "data" =>
            /\ field[r] \in Members(object[r])
            /\ \A f \in Earlier[field[r]] : taken[r][f] > 0
    /\ phase[r] = "sealing" /\ field[r] = "data" =>
            \A f \in Members(object[r]) \ {"data"} : seals[object[r]][f] > 0
    /\ phase[r] = "returning" =>
            \A f \in Members(object[r]) : seals[object[r]][f] > 0

SealedData == \A o \in Results : sealed[o] => seals[o]["data"] > 0

Past == SealedData /\ \A r \in Requests : PastOf(r)

Alone(r) == \A q \in Requests \ {r} : object[q] # object[r]

Unreturned(o) == \A r \in Requests : object[r] # o

Pristine(o) ==
    /\ \A f \in Keys : seals[o][f] = 0
    /\ seals[o]["data"] = IF sealed[o] THEN 1 ELSE 0

(* How often members are encrypted in an object that nobody shares.        *)
Counted(r) ==
    /\ phase[r] = "sealing" /\ field[r] # "data" =>
            /\ Pristine(object[r])
            /\ \A f \in Earlier[field[r]] : taken[r][f] = 1
            /\ taken[r][field[r]] = 0
    /\ phase[r] = "sealing" /\ field[r] = "data" =>
            /\ \A f \in Members(object[r]) \ {"data"} : seals[object[r]][f] = 1
            /\ taken[r]["data"] = 0
    /\ phase[r] = "returning" =>
            \A f \in Members(object[r]) : seals[object[r]][f] = 1

ExactFor(r) == InUse(r) /\ Alone(r) => Counted(r)

Exact ==
    /\ \A o \in Results : Unreturned(o) => Pristine(o)
    /\ \A r \in Requests : ExactFor(r)
    /\ \A r \in Requests : answer[r] = "twice" => object[r] # None

(* The handler of a request that awaits its progress waits for each part.  *)
OnePart ==
    \A r \in Awaiting :
        pending[r] = IF phase[r] = "reporting" THEN 1 ELSE 0

(* Only a request whose handler is through is answered.                    *)
DoneIsAnswered == \A r \in Requests : answer[r] # "none" => phase[r] = "done"

ResultsInv ==
    /\ Owned
    /\ Past /\ NothingInPlain
    /\ Exact /\ SealedOnce

IInv ==
    /\ SessionOK
    /\ BuiltInsAreListed
    /\ OnePart /\ DoneIsAnswered
    /\ ResultsInv

-----------------------------------------------------------------------------
(* Types *)

LEMMA MembersOf ==
    ASSUME NEW o \in Results
    PROVE  Members(o) = Earlier[LastKey(o)] \cup {LastKey(o), "data"}
BY ResultsAssumption DEF Members, Earlier, LastKey

LEMMA InitTyped == Init => SessionOK
BY NoToolAssumption, ResultsAssumption, BoundsAssumption
DEF Init, InitAgent, SessionOK, AgentOK, Untold, Phases, Fields, Keys, Kinds

LEMMA ToolsTyped ==
    ASSUME SessionOK, ServerChangesTools
    PROVE  SessionOK'
<1>1. PICK name \in Names :
        \/ \E tool \in Tool : addTool(name, tool)
        \/ removeTool(name)
  BY DEF ServerChangesTools, ChangeTools
<1>2. AgentOK'
  <2>1. CASE \E tool \in Tool : addTool(name, tool)
    BY <1>1, <2>1 DEF addTool, Listed, SessionOK, AgentOK
  <2>2. CASE removeTool(name)
    BY <1>1, <2>2 DEF removeTool, SessionOK, AgentOK
  <2> QED BY <1>1, <2>1, <2>2
<1> QED BY <1>2 DEF ServerChangesTools, SessionOK, chatVars, resultVars

LEMMA ReceiveTyped ==
    ASSUME SessionOK, NEW r \in Requests, NEW k \in Kinds, Receive(r, k)
    PROVE  SessionOK'
BY DEF Receive, Reply, Goto, SessionOK, AgentOK, Phases, agent, chatVars, resultVars

LEMMA DecodeTyped ==
    ASSUME SessionOK, NEW r \in Requests, Decode(r) \/ SendResult(r) \/ PartSent(r)
    PROVE  SessionOK'
<1>1. CASE Decode(r)
  BY <1>1 DEF Decode, Decoded, DecodeFailed, Reply, Goto, SessionOK, AgentOK, Phases,
              agent, chatVars, resultVars
<1>2. CASE SendResult(r)
  BY <1>2 DEF SendResult, Quality, Reply, Goto, SessionOK, AgentOK, Phases,
              agent, chatVars, resultVars
<1>3. CASE PartSent(r)
  <2>1. pending[r] - 1 \in Nat
    BY <1>3, BoundsAssumption DEF PartSent, SessionOK
  <2> QED
    BY <1>3, <2>1 DEF PartSent, Goto, SessionOK, AgentOK, Phases, agent, resultVars
<1> QED BY <1>1, <1>2, <1>3

LEMMA HandleTyped ==
    ASSUME SessionOK, NEW r \in Requests, Handle(r)
    PROVE  SessionOK'
<1>1. ASSUME NEW what \in {"error", "null"}, Fail(r, what) PROVE SessionOK'
  BY <1>1 DEF Fail, Reply, Goto, SessionOK, AgentOK, Phases, agent, chatVars, resultVars
<1>2. CASE ListTools(r)
  <2>1. [name \in Names |-> IF tools[name] = NoTool THEN {} ELSE tools[name].accepts]
            \in [Names -> SUBSET Inputs]
    BY SchemasAssumption DEF SessionOK, AgentOK, Tool
  <2>2. calls[r] + 1 \in 0 .. MaxCalls
    BY <1>2, BoundsAssumption DEF ListTools, SessionOK
  <2> QED
    BY <1>2, <2>1, <2>2 DEF ListTools, Goto, SessionOK, AgentOK, Phases, agent, resultVars
<1>3. ASSUME NEW name \in Names, NEW input \in Inputs, RunTool(r, name, input)
      PROVE  SessionOK'
  <2>1. Untold \in [Names -> SUBSET Inputs]
    BY DEF Untold
  <2>2. phase' \in [Requests -> Phases]
    BY <1>3 DEF RunTool, Goto, SessionOK, Phases
  <2> QED
    BY <1>3, <2>1, <2>2 DEF RunTool, SessionOK, AgentOK, agent, resultVars
<1>4. CASE RunNone(r)
  <2>1. Untold \in [Names -> SUBSET Inputs]
    BY DEF Untold
  <2> QED
    BY <1>4, <2>1 DEF RunNone, Goto, SessionOK, AgentOK, Phases, agent, resultVars
<1>5. CASE ToolDone(r)
  BY <1>5 DEF ToolDone, Goto, SessionOK, AgentOK, Phases, agent, chatVars, resultVars
<1>6. CASE SendProgress(r)
  <2>1. parts[r] + 1 \in 0 .. MaxParts
    BY <1>6, BoundsAssumption DEF SendProgress, SessionOK
  <2> QED
    BY <1>6, <2>1 DEF SendProgress, Goto, SessionOK, AgentOK, Phases, agent, resultVars
<1>7. CASE Respond(r)
  BY <1>7 DEF Respond, Goto, SessionOK, AgentOK, Phases, agent, chatVars, resultVars
<1>8. ASSUME NEW o \in Results, Return(r, o) PROVE SessionOK'
  BY <1>8 DEF Return, Read, Goto, SessionOK, AgentOK, Phases, Fields, Keys, agent, chatVars
<1> QED BY <1>1, <1>2, <1>3, <1>4, <1>5, <1>6, <1>7, <1>8 DEF Handle, HandleChat

LEMMA EncryptTyped ==
    ASSUME SessionOK, Owned, NEW r \in Requests, Encrypt(r)
    PROVE  SessionOK'
<1>0. /\ seals \in [Results -> [Fields -> Nat]]
      /\ taken \in [Requests -> [Fields -> Nat]]
      /\ field \in [Requests -> Fields]
  BY DEF SessionOK
<1>1. CASE Encrypted(r) \/ EncryptionFails(r)
  BY <1>1 DEF Encrypted, EncryptionFails, Reply, Goto, SessionOK, AgentOK, Phases,
              agent, chatVars, resultVars
<1>2. ASSUME phase[r] = "sealing" PROVE object[r] \in Results
  BY <1>2 DEF Owned, InUse
<1>3. ASSUME NEW f \in Fields, NEW values \in [Fields -> Nat],
             taken' = [taken EXCEPT ![r][f] = values[f]]
      PROVE  taken' \in [Requests -> [Fields -> Nat]]
  <2>1. [taken[r] EXCEPT ![f] = values[f]] \in [Fields -> Nat]
    BY DEF SessionOK
  <2> QED BY <1>3, <2>1 DEF SessionOK
<1>4. ASSUME FinishOrSealData(r), seals' \in [Results -> [Fields -> Nat]],
             object[r] \in Results
      PROVE  /\ phase' \in [Requests -> Phases]
             /\ field' \in [Requests -> Fields]
             /\ taken' \in [Requests -> [Fields -> Nat]]
  <2>1. CASE Goto(r, "returning") /\ UNCHANGED <<field, taken>>
    BY <2>1 DEF Goto, SessionOK, Phases
  <2>2. CASE Read(r, "data", seals'[object[r]])
    <3>1. "data" \in Fields /\ seals'[object[r]] \in [Fields -> Nat]
      BY <1>4 DEF Fields, Keys
    <3>2. taken' \in [Requests -> [Fields -> Nat]]
      BY <1>3, <2>2, <3>1 DEF Read
    <3> QED BY <2>2, <3>1, <3>2 DEF Read, Goto, SessionOK, Phases
  <2> QED BY <1>4, <2>1, <2>2 DEF FinishOrSealData
<1>5. ASSUME NEW o \in Results, NEW fs, NEW last, phase[r] = "sealing", o = object[r],
             seals' = [seals EXCEPT ![o] = Replaced(r, fs, last)]
      PROVE  seals' \in [Results -> [Fields -> Nat]]
  <2>1. \A f \in Fields : seals[o][f] \in Nat /\ taken[r][f] \in Nat
    BY <1>0
  <2>2. Replaced(r, fs, last) \in [Fields -> Nat]
    BY <1>5, <2>1 DEF Replaced
  <2> QED BY <1>0, <1>5, <2>2
<1>6. ASSUME NEW next \in Keys, SealKey(r, next) PROVE SessionOK'
  <2>1. object[r] \in Results /\ field[r] \in Fields /\ next \in Fields
    BY <1>2, <1>6 DEF SealKey, Fields, Keys
  <2>2. taken[r][field[r]] + 1 \in Nat /\ seals[object[r]][next] \in Nat
    BY <1>0, <2>1
  <2>3. TakenNext(r, next) \in [Fields -> Nat]
    BY <1>0, <2>1, <2>2 DEF TakenNext
  <2>4. taken' \in [Requests -> [Fields -> Nat]]
    BY <1>0, <1>6, <2>3 DEF SealKey
  <2>5. field' \in [Requests -> Fields]
    BY <1>0, <1>6, <2>1 DEF SealKey
  <2> QED
    BY <1>6, <2>4, <2>5 DEF SealKey, SessionOK, AgentOK, agent, chatVars
<1>7. CASE SealLastKey(r)
  <2>1. seals' \in [Results -> [Fields -> Nat]]
    BY <1>5, <1>7, <1>2 DEF SealLastKey
  <2>2. FinishOrSealData(r) /\ object[r] \in Results
    BY <1>2, <1>7 DEF SealLastKey
  <2>3. /\ phase' \in [Requests -> Phases]
        /\ field' \in [Requests -> Fields]
        /\ taken' \in [Requests -> [Fields -> Nat]]
    BY <1>4, <2>1, <2>2
  <2> QED
    BY <1>7, <2>1, <2>3 DEF SealLastKey, SessionOK, AgentOK, agent, chatVars
<1>8. CASE SealData(r)
  <2>1. seals' \in [Results -> [Fields -> Nat]]
    BY <1>5, <1>8, <1>2 DEF SealData
  <2>2. sealed' \in [Results -> BOOLEAN]
    BY <1>8, Zenon DEF SealData, SessionOK
  <2> QED
    BY <1>8, <2>1, <2>2 DEF SealData, Goto, SessionOK, AgentOK, Phases, agent, chatVars
<1> QED BY <1>1, <1>6, <1>7, <1>8 DEF Encrypt

-----------------------------------------------------------------------------
(* Results *)

(* A step of a request r that does not touch a result.                     *)
Quiet(r) ==
    /\ UNCHANGED resultVars
    /\ \A q \in Requests \ {r} :
            phase'[q] = phase[q] /\ kind'[q] = kind[q] /\ answer'[q] = answer[q]
    /\ phase'[r] \notin {"sealing", "returning"}
    /\ InUse(r) \/ phase[r] = "done" => phase'[r] = "done"
    /\ answer'[r] \in {answer[r], "error", "null", "once"}

LEMMA QuietKeeps ==
    ASSUME SessionOK, ResultsInv, NEW r \in Requests, Quiet(r)
    PROVE  ResultsInv'
<1> USE DEF Quiet, resultVars
<1>1. Owned'
  BY DEF ResultsInv, Owned, InUse
<1>2. Past'
  BY DEF ResultsInv, Past, PastOf, SealedData
<1>3. Exact'
  <2>1. \A q \in Requests : Alone(q)' = Alone(q)
    BY DEF Alone
  <2>2. \A o \in Results : Unreturned(o)' = Unreturned(o) /\ Pristine(o)' = Pristine(o)
    BY DEF Unreturned, Pristine
  <2>3. ASSUME NEW q \in Requests PROVE ExactFor(q)'
    BY <2>1 DEF ResultsInv, Exact, ExactFor, Counted, InUse, Pristine
  <2> QED BY <2>2, <2>3 DEF ResultsInv, Exact
<1>4. NothingInPlain' /\ SealedOnce'
  BY DEF ResultsInv, NothingInPlain, SealedOnce
<1> QED BY <1>1, <1>2, <1>3, <1>4 DEF ResultsInv

LEMMA ReturnKeeps ==
    ASSUME SessionOK, ResultsInv, DoneIsAnswered, NEW r \in Requests,
           NEW o \in Results, Return(r, o)
    PROVE  ResultsInv'
<1> USE DEF Return, Read, Goto
<1>1. /\ object[r] = None /\ o # None
      /\ object'[r] = o /\ phase'[r] = "sealing" /\ field'[r] = "token"
      /\ taken'[r]["token"] = seals[o]["token"]
  <2>1. object[r] = None /\ o # None
    BY ResultsAssumption DEF ResultsInv, Owned, InUse
  <2>2. object'[r] = o /\ phase'[r] = "sealing" /\ field'[r] = "token"
    BY DEF SessionOK
  <2>3. taken \in [Requests -> [Fields -> Nat]] /\ "token" \in Fields
    BY DEF SessionOK, Fields, Keys
  <2>4. taken'[r]["token"] = seals[o]["token"]
    BY <2>3
  <2> QED BY <2>1, <2>2, <2>4
<1>2. \A q \in Requests \ {r} :
        /\ object'[q] = object[q] /\ phase'[q] = phase[q]
        /\ field'[q] = field[q] /\ taken'[q] = taken[q]
  BY DEF SessionOK
<1>3. Owned'
  BY <1>1, <1>2 DEF ResultsInv, Owned, InUse
<1>4. Past'
  <2>1. "token" \in Members(o) /\ Earlier["token"] = {}
    BY DEF Members, Earlier, LastKey
  <2>2. PastOf(r)'
    BY <1>1, <2>1 DEF PastOf
  <2>3. ASSUME NEW q \in Requests \ {r} PROVE PastOf(q)'
    BY <1>2 DEF ResultsInv, Past, PastOf
  <2> QED BY <2>2, <2>3 DEF ResultsInv, Past, SealedData
<1>5. Exact'
  <2>1. ASSUME NEW p \in Results, Unreturned(p)' PROVE Pristine(p)'
    BY <1>1, <1>2, <2>1, ResultsAssumption
    DEF ResultsInv, Exact, Unreturned, Pristine
  <2>2. ASSUME Alone(r)' PROVE Counted(r)'
    <3>1. Pristine(o)
      BY <1>1, <1>2, <2>2 DEF ResultsInv, Exact, Unreturned, Alone
    <3>2. Earlier["token"] = {} /\ "token" \in Keys
      BY DEF Earlier, Keys
    <3> QED BY <1>1, <3>1, <3>2 DEF Counted, Pristine
  <2>3. ASSUME NEW q \in Requests \ {r}, InUse(q)', Alone(q)' PROVE Counted(q)'
    <3>1. InUse(q) /\ object[q] # None
      BY <1>2, <2>3, ResultsAssumption DEF InUse, ResultsInv, Owned
    <3>2. Alone(q)
      BY <1>1, <1>2, <2>3, <3>1 DEF Alone
    <3>3. Counted(q)
      BY <3>1, <3>2 DEF ResultsInv, Exact, ExactFor
    <3> QED BY <1>2, <3>3 DEF Counted, Pristine
  <2>4. \A q \in Requests : answer'[q] = "twice" => object'[q] # None
    BY <1>1, <1>2 DEF ResultsInv, Exact
  <2> QED BY <2>1, <2>2, <2>3, <2>4 DEF Exact, ExactFor
<1>6. NothingInPlain'
  BY DEF ResultsInv, NothingInPlain
<1>7. SealedOnce'
  <2>1. SUFFICES ASSUME NEW x \in Requests, answer[x] = "twice"
                 PROVE  \E q \in Requests \ {x} : object'[q] = object'[x]
    BY DEF SealedOnce
  <2>2. x # r
    BY <2>1 DEF DoneIsAnswered
  <2>3. PICK q \in Requests \ {x} : object[q] = object[x]
    BY <2>1 DEF ResultsInv, SealedOnce
  <2>4. q # r
    BY <1>1, <2>1, <2>3 DEF ResultsInv, Exact
  <2> QED BY <1>2, <2>2, <2>3, <2>4
<1> QED BY <1>3, <1>4, <1>5, <1>6, <1>7 DEF ResultsInv


(* A step of a request r that replaces members of its own object.          *)
Writes(r) ==
    /\ InUse(r) /\ object[r] \in Results
    /\ UNCHANGED <<kind, answer, object>>
    /\ \A q \in Requests \ {r} :
            phase'[q] = phase[q] /\ field'[q] = field[q] /\ taken'[q] = taken[q]
    /\ InUse(r)'
    /\ \A o \in Results \ {object[r]} : seals'[o] = seals[o] /\ sealed'[o] = sealed[o]
    /\ \A f \in Fields : seals[object[r]][f] > 0 => seals'[object[r]][f] > 0
    /\ sealed'[object[r]] => seals'[object[r]]["data"] > 0
    /\ PastOf(r)' /\ ExactFor(r)'

LEMMA WriteKeeps ==
    ASSUME SessionOK, ResultsInv, NEW r \in Requests, Writes(r)
    PROVE  ResultsInv'
<1> USE DEF Writes
<1>1. Owned'
  BY DEF ResultsInv, Owned, InUse
<1>2. Past'
  <2>1. SealedData'
    BY DEF ResultsInv, Past, SealedData
  <2>2. ASSUME NEW q \in Requests \ {r} PROVE PastOf(q)'
    <3>1. ASSUME NEW f \in Fields, object[q] \in Results, seals[object[q]][f] > 0
          PROVE  seals'[object[q]][f] > 0
      BY <3>1
    <3>2. Members(object[q]) \subseteq Fields
      BY DEF Members, Fields, Keys, Earlier, LastKey
    <3>3. InUse(q) => object[q] \in Results
      BY DEF ResultsInv, Owned
    <3> QED
      BY <3>1, <3>2, <3>3 DEF ResultsInv, Past, PastOf, InUse
  <2> QED BY <2>1, <2>2 DEF Past
<1>3. Exact'
  <2>1. ASSUME NEW o \in Results, Unreturned(o)' PROVE Pristine(o)'
    BY <2>1 DEF ResultsInv, Exact, Unreturned, Pristine
  <2>2. ASSUME NEW q \in Requests \ {r}, InUse(q)', Alone(q)' PROVE Counted(q)'
    <3>1. InUse(q) /\ Alone(q) /\ object[q] \in Results \ {object[r]}
      BY <2>2 DEF InUse, Alone, ResultsInv, Owned
    <3>2. Counted(q)
      BY <3>1 DEF ResultsInv, Exact, ExactFor
    <3> QED BY <3>1, <3>2 DEF Counted, Pristine
  <2> QED BY <2>1, <2>2 DEF ResultsInv, Exact, ExactFor
<1>4. NothingInPlain' /\ SealedOnce'
  BY DEF ResultsInv, NothingInPlain, SealedOnce
<1> QED BY <1>1, <1>2, <1>3, <1>4 DEF ResultsInv

(* What FinishOrSealData does to its request.                              *)
LEMMA Finishing ==
    ASSUME SessionOK, NEW r \in Requests, FinishOrSealData(r)
    PROVE  /\ \A q \in Requests \ {r} :
                phase'[q] = phase[q] /\ field'[q] = field[q] /\ taken'[q] = taken[q]
           /\ \/ sealed[object[r]] /\ phase'[r] = "returning"
              \/ /\ ~sealed[object[r]]
                 /\ phase'[r] = "sealing" /\ field'[r] = "data"
                 /\ taken'[r]["data"] = seals'[object[r]]["data"]
<1>1. CASE sealed[object[r]] /\ Goto(r, "returning") /\ UNCHANGED <<field, taken>>
  BY <1>1 DEF Goto, SessionOK
<1>2. CASE ~sealed[object[r]] /\ Read(r, "data", seals'[object[r]])
  <2>1. "data" \in Fields /\ taken \in [Requests -> [Fields -> Nat]]
    BY DEF SessionOK, Fields, Keys
  <2>2. taken'[r]["data"] = seals'[object[r]]["data"]
    BY <1>2, <2>1 DEF Read
  <2>3. \A q \in Requests \ {r} : taken'[q] = taken[q]
    BY <1>2, <2>1 DEF Read
  <2> QED BY <1>2, <2>2, <2>3 DEF Read, Goto, SessionOK
<1> QED BY <1>1, <1>2 DEF FinishOrSealData

LEMMA SealKeyKeeps ==
    ASSUME SessionOK, ResultsInv, NEW r \in Requests, NEW next \in Keys, SealKey(r, next)
    PROVE  ResultsInv'
<1> DEFINE o == object[r]
           f == field[r]
<1>1. /\ InUse(r) /\ phase[r] = "sealing" /\ o \in Results
      /\ f \in Keys /\ f # LastKey(o) /\ f # "data" /\ f \in Members(o)
      /\ Earlier[next] = Earlier[f] \cup {f}
      /\ \A k \in Earlier[f] : taken[r][k] > 0
  BY DEF SealKey, InUse, ResultsInv, Owned, Past, PastOf, Keys
<1>2. f \notin Earlier[f] /\ next \notin Earlier[next] /\ Earlier[next] \subseteq Fields
      /\ next # f /\ next # "data" /\ next \in Members(o)
  <2>1. \/ f = "token" /\ Earlier[f] = {} /\ next = "secret"
        \/ f = "secret" /\ Earlier[f] = {"token"} /\ next = "session"
    BY <1>1, MembersOf DEF Earlier, Keys, LastKey
  <2>2. LastKey(o) \in {"token", "secret", "session"}
    BY DEF LastKey
  <2>3. f = "token" => next \in Members(o)
    BY <1>1, <2>1, <2>2, MembersOf DEF Earlier
  <2>4. f = "secret" => next \in Members(o)
    BY <1>1, <2>1, <2>2, MembersOf DEF Earlier
  <2> QED BY <2>1, <2>3, <2>4 DEF Earlier, Keys, Fields
<1>3. /\ taken \in [Requests -> [Fields -> Nat]] /\ field \in [Requests -> Fields]
      /\ f \in Fields /\ next \in Fields /\ taken[r][f] \in Nat
  BY <1>1 DEF SessionOK, Fields, Keys
<1>4. /\ taken'[r][f] = taken[r][f] + 1
      /\ taken'[r][next] = seals[o][next]
      /\ \A k \in Earlier[f] : taken'[r][k] = taken[r][k]
      /\ field'[r] = next
      /\ \A q \in Requests \ {r} : field'[q] = field[q] /\ taken'[q] = taken[q]
  <2>1. taken'[r] = TakenNext(r, next)
    BY <1>3 DEF SealKey
  <2>2. \A k \in Earlier[f] : k \in Fields /\ k # f /\ k # next
    BY <1>1, <1>2
  <2>3. taken[r] \in [Fields -> Nat]
    BY <1>3
  <2>4. taken'[r][f] = taken[r][f] + 1 /\ taken'[r][next] = seals[o][next]
    BY <1>2, <1>3, <2>1, <2>3 DEF TakenNext
  <2>5. \A k \in Earlier[f] : taken'[r][k] = taken[r][k]
    BY <2>1, <2>2, <2>3 DEF TakenNext
  <2> QED BY <1>3, <2>4, <2>5 DEF SealKey
<1>5. UNCHANGED <<kind, phase, answer, object, seals, sealed>>
  BY DEF SealKey
<1>6. sealed[o] => seals[o]["data"] > 0
  BY <1>1 DEF ResultsInv, Past, SealedData
<1>7. PastOf(r)'
  <2>1. \A k \in Earlier[next] : taken'[r][k] > 0
    BY <1>1, <1>3, <1>4
  <2> QED BY <1>1, <1>2, <1>4, <1>5, <2>1 DEF PastOf
<1>8. ExactFor(r)'
  <2>1. SUFFICES ASSUME Alone(r) PROVE Counted(r)'
    BY <1>5 DEF ExactFor, Alone
  <2>2. /\ Pristine(o) /\ taken[r][f] = 0
        /\ \A k \in Earlier[f] : taken[r][k] = 1
    BY <1>1, <2>1 DEF ResultsInv, Exact, ExactFor, Counted
  <2>3. \A k \in Earlier[next] : taken'[r][k] = 1
    BY <1>1, <1>4, <2>2
  <2>4. taken'[r][next] = 0
    BY <1>4, <2>2 DEF Pristine
  <2> QED BY <1>1, <1>2, <1>4, <1>5, <2>2, <2>3, <2>4 DEF Counted, Pristine
<1>9. Writes(r)
  BY <1>1, <1>4, <1>5, <1>6, <1>7, <1>8 DEF Writes, InUse
<1> QED BY <1>9, WriteKeeps

LEMMA SealLastKeyKeeps ==
    ASSUME SessionOK, ResultsInv, NEW r \in Requests, SealLastKey(r)
    PROVE  ResultsInv'
<1> DEFINE o == object[r]
           f == field[r]
           ks == Members(o) \ {"data"}
<1>1. /\ InUse(r) /\ phase[r] = "sealing" /\ o \in Results
      /\ f = LastKey(o) /\ f # "data"
      /\ \A k \in Earlier[f] : taken[r][k] > 0
  BY DEF SealLastKey, InUse, ResultsInv, Owned, Past, PastOf, LastKey
<1>2. /\ ks = Earlier[f] \cup {f} /\ f \notin Earlier[f] /\ ks \subseteq Fields
      /\ "data" \in Fields \ ks /\ Members(o) = ks \cup {"data"}
      /\ Keys \subseteq Fields /\ f \in Fields
  BY <1>1, MembersOf DEF Earlier, LastKey, Fields, Keys
<1>3. /\ seals \in [Results -> [Fields -> Nat]] /\ taken[r] \in [Fields -> Nat]
  BY DEF SessionOK
<1>4. /\ seals'[o][f] = taken[r][f] + 1
      /\ \A k \in Earlier[f] : seals'[o][k] = taken[r][k]
      /\ \A k \in Fields \ ks : seals'[o][k] = seals[o][k]
      /\ \A p \in Results \ {o} : seals'[p] = seals[p]
  <2>1. seals' = [seals EXCEPT ![o] = Replaced(r, ks, f)]
    BY DEF SealLastKey
  <2>2. seals'[o] = Replaced(r, ks, f) /\ \A p \in Results \ {o} : seals'[p] = seals[p]
    BY <1>1, <1>3, <2>1
  <2> QED BY <1>2, <2>2 DEF Replaced
<1>5. /\ \A q \in Requests \ {r} :
            phase'[q] = phase[q] /\ field'[q] = field[q] /\ taken'[q] = taken[q]
      /\ \/ sealed[o] /\ phase'[r] = "returning"
         \/ /\ ~sealed[o]
            /\ phase'[r] = "sealing" /\ field'[r] = "data"
            /\ taken'[r]["data"] = seals'[o]["data"]
  BY Finishing DEF SealLastKey
<1>6. UNCHANGED <<kind, answer, object, sealed>>
  BY DEF SealLastKey
<1>7. taken[r][f] \in Nat /\ (sealed[o] => seals[o]["data"] > 0)
  BY <1>1, <1>2, <1>3 DEF ResultsInv, Past, SealedData
<1>8. \A k \in ks : seals'[o][k] > 0
  BY <1>1, <1>2, <1>4, <1>7
<1>9. PastOf(r)'
  BY <1>2, <1>4, <1>5, <1>6, <1>7, <1>8 DEF PastOf
<1>10. ExactFor(r)'
  <2>1. SUFFICES ASSUME Alone(r) PROVE Counted(r)'
    BY <1>6 DEF ExactFor, Alone
  <2>2. /\ Pristine(o) /\ taken[r][f] = 0
        /\ \A k \in Earlier[f] : taken[r][k] = 1
    BY <1>1, <2>1 DEF ResultsInv, Exact, ExactFor, Counted
  <2>3. \A k \in ks : seals'[o][k] = 1
    BY <1>2, <1>4, <2>2
  <2>4. seals'[o]["data"] = IF sealed[o] THEN 1 ELSE 0
    BY <1>2, <1>4, <2>2 DEF Pristine
  <2> QED BY <1>2, <1>5, <1>6, <2>3, <2>4 DEF Counted
<1>11. \A k \in Fields : seals[o][k] > 0 => seals'[o][k] > 0
  BY <1>4, <1>8
<1>12. Writes(r)
  BY <1>1, <1>2, <1>4, <1>5, <1>6, <1>7, <1>9, <1>10, <1>11 DEF Writes, InUse
<1> QED BY <1>12, WriteKeeps

LEMMA SealDataKeeps ==
    ASSUME SessionOK, ResultsInv, NEW r \in Requests, SealData(r)
    PROVE  ResultsInv'
<1> DEFINE o == object[r]
<1>1. /\ InUse(r) /\ phase[r] = "sealing" /\ field[r] = "data" /\ o \in Results
      /\ \A f \in Members(o) \ {"data"} : seals[o][f] > 0
  BY DEF SealData, InUse, ResultsInv, Owned, Past, PastOf
<1>2. /\ seals \in [Results -> [Fields -> Nat]] /\ taken[r] \in [Fields -> Nat]
      /\ "data" \in Fields /\ Members(o) \subseteq Fields
  BY DEF SessionOK, Fields, Keys, Members, Earlier, LastKey
<1>3. /\ seals'[o]["data"] = taken[r]["data"] + 1
      /\ \A f \in Fields \ {"data"} : seals'[o][f] = seals[o][f]
      /\ \A p \in Results \ {o} : seals'[p] = seals[p]
  <2>1. seals'[o] = Replaced(r, {"data"}, "data")
        /\ \A p \in Results \ {o} : seals'[p] = seals[p]
    BY <1>1, <1>2 DEF SealData
  <2> QED BY <1>2, <2>1 DEF Replaced
<1>4. /\ \A q \in Requests \ {r} : phase'[q] = phase[q]
      /\ phase'[r] = "returning"
      /\ \A p \in Results \ {o} : sealed'[p] = sealed[p]
  BY <1>1 DEF SealData, Goto, SessionOK
<1>5. UNCHANGED <<kind, answer, object, field, taken>>
  BY DEF SealData
<1>6. taken[r]["data"] \in Nat
  BY <1>2
<1>7. \A f \in Members(o) : seals'[o][f] > 0
  BY <1>1, <1>2, <1>3, <1>6
<1>8. PastOf(r)'
  BY <1>4, <1>5, <1>7 DEF PastOf
<1>9. ExactFor(r)'
  <2>1. SUFFICES ASSUME Alone(r) PROVE Counted(r)'
    BY <1>5 DEF ExactFor, Alone
  <2>2. /\ \A f \in Members(o) \ {"data"} : seals[o][f] = 1
        /\ taken[r]["data"] = 0
    BY <1>1, <2>1 DEF ResultsInv, Exact, ExactFor, Counted
  <2>3. \A f \in Members(o) : seals'[o][f] = 1
    BY <1>2, <1>3, <2>2
  <2> QED BY <1>4, <1>5, <2>3 DEF Counted
<1>10. \A f \in Fields : seals[o][f] > 0 => seals'[o][f] > 0
  BY <1>3, <1>6
<1>11. Writes(r)
  BY <1>1, <1>2, <1>3, <1>4, <1>5, <1>6, <1>8, <1>9, <1>10 DEF Writes, InUse
<1> QED BY <1>11, WriteKeeps

LEMMA SendResultKeeps ==
    ASSUME SessionOK, ResultsInv, NEW r \in Requests, SendResult(r)
    PROVE  ResultsInv'
<1> DEFINE o == object[r]
<1>1. /\ InUse(r) /\ phase[r] = "returning"
      /\ o \in Results /\ o # None /\ kind[r] = Of[o]
  BY ResultsAssumption DEF SendResult, InUse, ResultsInv, Owned
<1>2. /\ UNCHANGED <<kind, resultVars>>
      /\ phase'[r] = "done" /\ answer'[r] = Quality(o)
      /\ \A q \in Requests \ {r} : phase'[q] = phase[q] /\ answer'[q] = answer[q]
  BY DEF SendResult, Reply, Goto, SessionOK
<1>3. Quality(o) # "plain"
  BY <1>1 DEF ResultsInv, Past, PastOf, Quality
<1>4. Quality(o) = "twice" => ~Alone(r)
  <2>1. Alone(r) => \A f \in Members(o) : seals[o][f] = 1
    BY <1>1 DEF ResultsInv, Exact, ExactFor, Counted
  <2> QED BY <2>1 DEF Quality
<1>5. Owned'
  BY <1>1, <1>2 DEF ResultsInv, Owned, InUse, resultVars
<1>6. Past'
  BY <1>2 DEF ResultsInv, Past, PastOf, SealedData, resultVars
<1>7. Exact'
  <2>1. ASSUME NEW q \in Requests PROVE ExactFor(q)'
    BY <1>2 DEF ResultsInv, Exact, ExactFor, Counted, Pristine, Alone, InUse, resultVars
  <2> QED
    BY <1>1, <1>2, <2>1 DEF ResultsInv, Exact, Unreturned, Pristine, resultVars
<1>8. NothingInPlain'
  BY <1>2, <1>3 DEF ResultsInv, NothingInPlain
<1>9. SealedOnce'
  BY <1>2, <1>4 DEF ResultsInv, SealedOnce, Alone, resultVars
<1> QED BY <1>5, <1>6, <1>7, <1>8, <1>9 DEF ResultsInv

-----------------------------------------------------------------------------
(* Steps of a request *)

(* What a step of a request r does to its progress and its answer, if it   *)
(* is no step of the others.                                               *)
Moves(r) ==
    /\ UNCHANGED agent
    /\ \A q \in Requests \ {r} :
            /\ phase'[q] = phase[q] /\ kind'[q] = kind[q] /\ answer'[q] = answer[q]
            /\ pending'[q] = pending[q]
    /\ \/ answer'[r] = answer[r] /\ phase[r] # "done"
       \/ answer'[r] = answer[r] /\ phase'[r] = phase[r]
       \/ phase'[r] = "done"
    /\ \/ pending'[r] = pending[r] /\ phase[r] # "reporting" /\ phase'[r] # "reporting"
       \/ /\ pending'[r] = pending[r] + 1 /\ phase[r] = "handling"
          /\ r \in Awaiting => phase'[r] = "reporting"
       \/ /\ pending[r] > 0 /\ pending'[r] = pending[r] - 1
          /\ phase'[r] # "reporting"

(* A step that touches no result at all.                                   *)
Apart == UNCHANGED <<kind, phase, answer, resultVars>>

LEMMA ChatMoves ==
    ASSUME SessionOK, NEW r \in Requests, HandleChat(r)
    PROVE  Moves(r) /\ (Quiet(r) \/ Apart)
<1> USE DEF SessionOK, Moves, Quiet, Apart, InUse
<1>1. CASE ListTools(r)
  BY <1>1 DEF ListTools, Goto
<1>2. ASSUME NEW name \in Names, NEW input \in Inputs, RunTool(r, name, input)
      PROVE  Moves(r) /\ Quiet(r)
  <2>1. CASE CanRun(name, input)
    BY <1>2, <2>1 DEF RunTool, Goto
  <2>2. CASE ~CanRun(name, input)
    BY <1>2, <2>2 DEF RunTool, Goto
  <2> QED BY <2>1, <2>2
<1>3. CASE RunNone(r)
  BY <1>3 DEF RunNone, Goto
<1>4. CASE ToolDone(r)
  BY <1>4 DEF ToolDone, Goto, chatVars
<1>5. CASE SendProgress(r)
  <2>1. CASE r \in Awaiting /\ Goto(r, "reporting")
    BY <1>5, <2>1 DEF SendProgress, Goto
  <2>2. CASE r \notin Awaiting /\ UNCHANGED phase
    BY <1>5, <2>2 DEF SendProgress, Goto
  <2> QED BY <1>5, <2>1, <2>2 DEF SendProgress
<1>6. CASE Respond(r)
  BY <1>6 DEF Respond, Goto, chatVars
<1> QED BY <1>1, <1>2, <1>3, <1>4, <1>5, <1>6 DEF HandleChat

LEMMA AnswerMoves ==
    ASSUME SessionOK, NEW r \in Requests,
           \/ \E k \in Kinds : Receive(r, k)
           \/ Decode(r)
           \/ \E what \in {"error", "null"} : Fail(r, what)
           \/ Encrypted(r) \/ EncryptionFails(r)
    PROVE  Moves(r) /\ Quiet(r)
<1> USE DEF SessionOK, Moves, Quiet, InUse, Reply, Goto, chatVars
<1>1. ASSUME NEW k \in Kinds, Receive(r, k) PROVE Moves(r) /\ Quiet(r)
  BY <1>1 DEF Receive
<1>2. CASE Decode(r)
  BY <1>2 DEF Decode, Decoded, DecodeFailed
<1>3. ASSUME NEW what \in {"error", "null"}, Fail(r, what) PROVE Moves(r) /\ Quiet(r)
  BY <1>3 DEF Fail
<1>4. CASE Encrypted(r)
  BY <1>4 DEF Encrypted
<1>5. CASE EncryptionFails(r)
  BY <1>5 DEF EncryptionFails
<1> QED BY <1>1, <1>2, <1>3, <1>4, <1>5

LEMMA PartMoves ==
    ASSUME SessionOK, NEW r \in Requests, PartSent(r)
    PROVE  Moves(r) /\ (Quiet(r) \/ Apart)
<1> USE DEF SessionOK, Moves, Quiet, Apart, InUse, PartSent, Goto
<1>1. CASE phase[r] = "reporting"
  BY <1>1
<1>2. CASE phase[r] # "reporting"
  BY <1>2
<1> QED BY <1>1, <1>2

(* The steps that deal with results are no steps of the chat.              *)
LEMMA ResultMoves ==
    ASSUME SessionOK, NEW r \in Requests,
           \/ \E o \in Results : Return(r, o)
           \/ (\E next \in Keys : SealKey(r, next)) \/ SealLastKey(r) \/ SealData(r)
           \/ SendResult(r)
    PROVE  Moves(r)
<1> USE DEF SessionOK, Moves, chatVars
<1>1. ASSUME NEW o \in Results, Return(r, o) PROVE Moves(r)
  BY <1>1 DEF Return, Read, Goto
<1>2. ASSUME NEW next \in Keys, SealKey(r, next) PROVE Moves(r)
  BY <1>2 DEF SealKey
<1>3. CASE SealLastKey(r)
  BY <1>3, Finishing DEF SealLastKey
<1>4. CASE SealData(r)
  BY <1>4 DEF SealData, Goto
<1>5. CASE SendResult(r)
  BY <1>5 DEF SendResult, Reply, Goto
<1> QED BY <1>1, <1>2, <1>3, <1>4, <1>5

LEMMA MovesKeep ==
    ASSUME SessionOK, OnePart, DoneIsAnswered, BuiltInsAreListed,
           NEW r \in Requests, Moves(r)
    PROVE  OnePart' /\ DoneIsAnswered' /\ BuiltInsAreListed'
<1> USE DEF Moves
<1>1. OnePart'
  <2>1. ASSUME NEW q \in Awaiting, q # r
        PROVE  pending'[q] = IF phase'[q] = "reporting" THEN 1 ELSE 0
    BY <2>1, RequestsAssumption DEF OnePart
  <2>2. ASSUME r \in Awaiting
        PROVE  pending'[r] = IF phase'[r] = "reporting" THEN 1 ELSE 0
    BY <2>2 DEF OnePart
  <2> QED BY <2>1, <2>2 DEF OnePart
<1>2. DoneIsAnswered'
  BY DEF DoneIsAnswered
<1>3. BuiltInsAreListed'
  BY DEF BuiltInsAreListed, agent
<1> QED BY <1>1, <1>2, <1>3

-----------------------------------------------------------------------------
(* The invariant *)

LEMMA InitInv == Init => IInv
<1> SUFFICES ASSUME Init PROVE IInv
  OBVIOUS
<1>1. SessionOK
  BY InitTyped
<1>2. BuiltInsAreListed
  <2>1. \A n \in Names :
            tools[n] = NoTool /\ builtInToolNames[n] = 0 /\ builtInWriteToolNames[n] = 0
    BY DEF Init, InitAgent
  <2> QED BY <2>1 DEF BuiltInsAreListed
<1>3. OnePart /\ DoneIsAnswered
  BY RequestsAssumption DEF Init, OnePart, DoneIsAnswered
<1>4. Owned /\ NothingInPlain /\ SealedOnce
  BY DEF Init, Owned, InUse, NothingInPlain, SealedOnce
<1>5. \A o \in Results : Pristine(o)
  BY DEF Init, Pristine, Fields, Keys
<1>6. Past
  <2>1. SealedData
    BY <1>5 DEF SealedData, Pristine
  <2>2. \A r \in Requests : phase[r] = "unsent"
    BY DEF Init
  <2>3. \A r \in Requests : PastOf(r)
    BY <2>2 DEF PastOf
  <2> QED BY <2>1, <2>3 DEF Past
<1>7. Exact
  BY <1>5 DEF Init, Exact, ExactFor, InUse
<1> QED BY <1>1, <1>2, <1>3, <1>4, <1>6, <1>7 DEF IInv, ResultsInv

(* Adding and removing tools.                                              *)
LEMMA ToolsKeep ==
    ASSUME SessionOK, BuiltInsAreListed, ServerChangesTools
    PROVE  BuiltInsAreListed' /\ Apart /\ UNCHANGED chatVars
<1>1. PICK name \in Names :
        \/ \E tool \in Tool : addTool(name, tool)
        \/ removeTool(name)
  BY DEF ServerChangesTools, ChangeTools
<1>2. ASSUME NEW tool \in Tool, addTool(name, tool) PROVE BuiltInsAreListed'
  <2>1. tools' = [tools EXCEPT ![name] = tool]
    BY <1>2 DEF addTool
  <2>2. builtInToolNames' =
            IF tool.class \in BuiltIns
            THEN [builtInToolNames EXCEPT ![name] = @ + 1] ELSE builtInToolNames
    BY <1>2 DEF addTool, Listed
  <2>3. builtInWriteToolNames' =
            IF tool.class = "builtInCanWrite"
            THEN [builtInWriteToolNames EXCEPT ![name] = @ + 1] ELSE builtInWriteToolNames
    BY <1>2 DEF addTool, Listed
  <2>4. ASSUME NEW n \in Names
        PROVE  /\ builtInWriteToolNames'[n] <= builtInToolNames'[n]
               /\ tools'[n] # NoTool =>
                    /\ tools'[n].class \in BuiltIns => builtInToolNames'[n] > 0
                    /\ tools'[n].class = "builtInCanWrite" => builtInWriteToolNames'[n] > 0
    BY <2>1, <2>2, <2>3 DEF BuiltInsAreListed, SessionOK, AgentOK, BuiltIns
  <2> QED BY <2>4 DEF BuiltInsAreListed
<1>3. ASSUME removeTool(name) PROVE BuiltInsAreListed'
  <2>1. \A n \in Names :
            /\ tools'[n] = NoTool \/ tools'[n] = tools[n]
            /\ builtInToolNames'[n] = builtInToolNames[n]
            /\ builtInWriteToolNames'[n] = builtInWriteToolNames[n]
    BY <1>3 DEF removeTool, SessionOK, AgentOK
  <2> QED BY <2>1 DEF BuiltInsAreListed
<1> QED BY <1>1, <1>2, <1>3 DEF ServerChangesTools, Apart

LEMMA StepInv == IInv /\ [Next]_vars => IInv'
<1> SUFFICES ASSUME IInv, [Next]_vars PROVE IInv'
  OBVIOUS
<1> USE DEF IInv
<1>1. ASSUME Apart PROVE ResultsInv'
  BY <1>1 DEF Apart, resultVars, ResultsInv, Owned, Past, PastOf, SealedData,
              Exact, ExactFor, Counted, Alone, Unreturned, Pristine, InUse,
              NothingInPlain, SealedOnce
<1>2. CASE ServerChangesTools
  <2>1. OnePart' /\ DoneIsAnswered'
    BY <1>2, ToolsKeep DEF Apart, chatVars, OnePart, DoneIsAnswered
  <2> QED BY <1>1, <1>2, <2>1, ToolsTyped, ToolsKeep
<1>3. ASSUME NEW r \in Requests,
             \/ \E k \in Kinds : Receive(r, k)
             \/ Decode(r) \/ Handle(r) \/ PartSent(r) \/ Encrypt(r) \/ SendResult(r)
      PROVE  IInv'
  <2>1. SessionOK'
    BY <1>3, ReceiveTyped, DecodeTyped, HandleTyped, EncryptTyped DEF ResultsInv
  <2>2. CASE \/ \E k \in Kinds : Receive(r, k)
             \/ Decode(r)
             \/ \E what \in {"error", "null"} : Fail(r, what)
             \/ Encrypted(r) \/ EncryptionFails(r)
    <3>1. Moves(r) /\ Quiet(r)
      BY <2>2, AnswerMoves
    <3> QED BY <2>1, <3>1, QuietKeeps, MovesKeep
  <2>3. CASE HandleChat(r) \/ PartSent(r)
    <3>1. Moves(r) /\ (Quiet(r) \/ Apart)
      BY <2>3, ChatMoves, PartMoves
    <3> QED BY <1>1, <2>1, <3>1, QuietKeeps, MovesKeep
  <2>4. CASE \/ \E o \in Results : Return(r, o)
             \/ (\E next \in Keys : SealKey(r, next)) \/ SealLastKey(r) \/ SealData(r)
             \/ SendResult(r)
    <3>1. Moves(r)
      BY <2>4, ResultMoves
    <3>2. ResultsInv'
      BY <2>4, ReturnKeeps, SealKeyKeeps, SealLastKeyKeeps, SealDataKeeps, SendResultKeeps
    <3> QED BY <2>1, <3>1, <3>2, MovesKeep
  <2> QED BY <1>3, <2>2, <2>3, <2>4 DEF Handle, Encrypt
<1>4. CASE UNCHANGED vars
  <2>1. SessionOK' /\ OnePart' /\ DoneIsAnswered' /\ BuiltInsAreListed'
    BY <1>4 DEF vars, agent, chatVars, resultVars, SessionOK, AgentOK, OnePart,
                DoneIsAnswered, BuiltInsAreListed
  <2> QED BY <1>1, <1>4, <2>1 DEF vars, Apart
<1> QED BY <1>2, <1>3, <1>4 DEF Next

LEMMA Invariance == Spec => []IInv
BY InitInv, StepInv, PTL DEF Spec

(* Handlers, tools, results and the objects they are kept in stay what     *)
(* they are (newAgent, registerHandlers, standalone.ts), and only what an  *)
(* object has is encrypted.                                                *)
THEOREM TypeCorrect == Spec => []TypeOK
<1>1. IInv => TypeOK
  BY DEF IInv, ResultsInv, Past, PastOf, TypeOK, Members
<1> QED BY <1>1, Invariance, PTL

(* No credential leaves the runtime in plain text, however many requests   *)
(* servers answer with the same object while it is being encrypted         *)
(* (encryptSsoResultWithKey, encryptIamResultWithKey).                     *)
THEOREM CredentialsLeaveEncrypted == Spec => []NothingInPlain
<1>1. IInv => NothingInPlain
  BY DEF IInv, ResultsInv
<1> QED BY <1>1, Invariance, PTL

(* A result that was returned for one request only is encrypted once.      *)
THEOREM EncryptedOnceUnlessShared == Spec => []SealedOnce
<1>1. IInv => SealedOnce
  BY DEF IInv, ResultsInv
<1> QED BY <1>1, Invariance, PTL

(* A handler that awaits its progress has sent all of it when the client   *)
(* gets its answer (sendProgress of standalone.ts).                        *)
THEOREM ProgressComesFirst == Spec => []NoPartAfterAnswer
<1>1. IInv => NoPartAfterAnswer
  BY RequestsAssumption DEF IInv, OnePart, DoneIsAnswered, NoPartAfterAnswer
<1> QED BY <1>1, Invariance, PTL

(* Whatever tools are added, replaced and removed, and whatever runs       *)
(* meanwhile, a built-in tool that can be run is listed as one, and one    *)
(* that can write among those that can (newAgent).                         *)
THEOREM ToolsListed == Spec => []BuiltInsAreListed
<1>1. IInv => BuiltInsAreListed
  BY DEF IInv
<1> QED BY <1>1, Invariance, PTL

=============================================================================
