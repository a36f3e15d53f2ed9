----------------------------- MODULE AuthProofs -----------------------------
(***************************************************************************)
(* Proofs about Auth, for every set of requests, with or without a key.    *)
(*                                                                         *)
(* The inductive invariant is IInv.  TypeOK is inductive by itself.  The   *)
(* two facts about what servers can read need to know in addition what a   *)
(* handler that waits for metadata has already established (Waiting):      *)
(* its continuation stores the payload without looking at it again.        *)
(***************************************************************************)
EXTENDS Auth, TLAPS

(* A handler waits for metadata only with a token in hand, bound for the   *)
(* bearer slot.                                                            *)
Waiting ==
    \A r \in Requests :
        pc[r] = "fetching" =>
            /\ msg[r].channel = "bearer"
            /\ isBearerCredentials(msg[r].data)
            /\ ~msg[r].atx

(* Slots hold accepted credentials only (OnlyAcceptedIsVisible, with the   *)
(* slots spelled out).                                                     *)
Visible ==
    /\ iam # None => /\ isIamCredentials(msg[iam].data)
                     /\ pc[iam] \in {"stored", "bare"}
    /\ bearer # None => /\ isBearerCredentials(msg[bearer].data)
                        /\ pc[bearer] \in {"stored", "bare"}
    /\ atx # None => /\ isBearerCredentials(msg[atx].data)
                     /\ msg[atx].atx
                     /\ pc[atx] = "stored"

(* The connection metadata is that of the bearer token, and of a bearer    *)
(* update in any case (BearerHasItsConnection without the connection type  *)
(* that follows from it).                                                  *)
Paired ==
    /\ bearer # None =>
        /\ pc[bearer] \in {"stored", "bare"}
        /\ pc[bearer] = "stored" => meta = bearer
        /\ pc[bearer] = "bare" => meta = None
    /\ meta # None =>
        /\ pc[meta] = "stored"
        /\ msg[meta].channel = "bearer" /\ ~msg[meta].atx

IInv == TypeOK /\ Waiting /\ Visible

-----------------------------------------------------------------------------

(* TypeOK holds initially and is preserved by every handler.               *)
LEMMA TypeInit == Init => TypeOK
  BY DEF Init, TypeOK, States

LEMMA TypeStep == TypeOK /\ [Next]_vars => TypeOK'
<1> SUFFICES ASSUME TypeOK, [Next]_vars PROVE TypeOK'
  OBVIOUS
<1> USE DEF TypeOK, States, Goto, store
<1>1. ASSUME NEW r \in Requests, NEW m \in Message, FinishUpdate(r, m)
      PROVE  /\ iam' \in Requests \cup {None}
             /\ bearer' \in Requests \cup {None}
             /\ atx' \in Requests \cup {None}
             /\ meta' \in Requests \cup {None}
             /\ pc' \in [Requests -> States]
             /\ \A q \in Requests : q # r => pc'[q] = pc[q]
  <2>1. CASE m.channel = "iam" /\ FinishIamUpdate(r, m)
    BY <2>1 DEF FinishIamUpdate, setCredentials
  <2>2. CASE m.channel = "bearer" /\ FinishBearerUpdate(r, m)
    BY <2>2
         DEF FinishBearerUpdate, StoreAtx, StoreBearer, AskForMetadata,
             RefuseBearer, setCredentials
  <2> QED BY <1>1, <2>1, <2>2 DEF FinishUpdate
<1>2. ASSUME NEW r \in Requests, ReceiveUpdate(r) PROVE TypeOK'
  <2> PICK m \in Message :
        /\ msg' = [msg EXCEPT ![r] = m]
        /\ \/ ~m.encrypted /\ FinishUpdate(r, m)
           \/ m.encrypted /\ CanDecrypt /\ Goto(r, "decoding") /\ UNCHANGED store
           \/ m.encrypted /\ ~CanDecrypt /\ RejectUndecodable(r)
    BY <1>2 DEF ReceiveUpdate
  <2>1. CASE FinishUpdate(r, m)
    BY <1>1, <2>1
  <2>2. CASE Goto(r, "decoding") /\ UNCHANGED store
    BY <2>2
  <2>3. CASE RejectUndecodable(r)
    BY <2>3 DEF RejectUndecodable
  <2> QED BY <2>1, <2>2, <2>3
<1>3. ASSUME NEW r \in Requests, Decoded(r) PROVE TypeOK'
  <2>1. msg[r] \in Message
    BY <1>3 DEF Decoded
  <2> QED BY <1>1, <1>3, <2>1 DEF Decoded
<1>4. ASSUME NEW r \in Requests, DecodeFailed(r) PROVE TypeOK'
  BY <1>4 DEF DecodeFailed, RejectUndecodable
<1>5. ASSUME NEW r \in Requests, MetadataArrives(r) PROVE TypeOK'
  BY <1>5 DEF MetadataArrives, setCredentials
<1>6. ASSUME NEW r \in Requests, MetadataFails(r) PROVE TypeOK'
  BY <1>6 DEF MetadataFails, setCredentials
<1>7. CASE DeleteIam
  BY <1>7 DEF DeleteIam
<1>8. CASE DeleteBearer
  BY <1>8 DEF DeleteBearer
<1>9. CASE UNCHANGED vars
  BY <1>9 DEF vars
<1> QED
  BY <1>2, <1>3, <1>4, <1>5, <1>6, <1>7, <1>8, <1>9
     DEF Next, Decode, AnswerMetadata

(* Type correctness, for every set of requests.                            *)
THEOREM TypeCorrect == Spec => []TypeOK
  BY TypeInit, TypeStep, PTL DEF Spec

-----------------------------------------------------------------------------

(* Waiting and Visible hold initially and are preserved by every handler.  *)
LEMMA VisibleInit == Init => IInv
  BY TypeInit DEF Init, IInv, Waiting, Visible

(* What the last part of an update handler establishes about its own       *)
(* request, for a message m that is (or becomes) the request's message.    *)
LEMMA FinishVisible ==
  ASSUME TypeOK, TypeOK', Waiting, Visible,
         NEW r \in Requests, NEW m \in Message,
         pc[r] \in {"unsent", "decoding"},
         msg'[r] = m, \A q \in Requests : q # r => msg'[q] = msg[q],
         FinishUpdate(r, m)
  PROVE  Waiting' /\ Visible'
<1> USE DEF TypeOK, Goto, store, States
<1> USE NoneAssumption
<1>1. CASE m.channel = "iam" /\ FinishIamUpdate(r, m)
  <2>1. CASE isIamCredentials(m.data)
    BY <1>1, <2>1 DEF FinishIamUpdate, setCredentials, Waiting, Visible
  <2>2. CASE ~isIamCredentials(m.data)
    BY <1>1, <2>2 DEF FinishIamUpdate, Waiting, Visible
  <2> QED BY <2>1, <2>2
<1>2. CASE m.channel = "bearer" /\ FinishBearerUpdate(r, m)
  <2>1. CASE isBearerCredentials(m.data) /\ m.atx
    BY <1>2, <2>1 DEF FinishBearerUpdate, StoreAtx, Waiting, Visible
  <2>2. CASE isBearerCredentials(m.data) /\ ~m.atx /\ m.supplied
    BY <1>2, <2>2
         DEF FinishBearerUpdate, StoreBearer, setCredentials, Waiting, Visible
  <2>3. CASE isBearerCredentials(m.data) /\ ~m.atx /\ ~m.supplied
    BY <1>2, <2>3 DEF FinishBearerUpdate, AskForMetadata, Waiting, Visible
  <2>4. CASE ~isBearerCredentials(m.data)
    BY <1>2, <2>4 DEF FinishBearerUpdate, RefuseBearer, Waiting, Visible
  <2> QED BY <1>2, <2>1, <2>2, <2>3, <2>4 DEF FinishBearerUpdate
<1> QED BY <1>1, <1>2 DEF FinishUpdate

LEMMA VisibleStep == IInv /\ [Next]_vars => IInv'
<1> SUFFICES ASSUME IInv, [Next]_vars PROVE IInv'
  OBVIOUS
<1>t. TypeOK'
  BY TypeStep DEF IInv
<1> SUFFICES Waiting' /\ Visible'
  BY <1>t DEF IInv
<1>i. TypeOK /\ Waiting /\ Visible
  BY DEF IInv
<1> USE DEF TypeOK, States, Goto, store
<1>1. ASSUME NEW r \in Requests, ReceiveUpdate(r) PROVE Waiting' /\ Visible'
  <2> PICK m \in Message :
        /\ msg' = [msg EXCEPT ![r] = m]
        /\ \/ ~m.encrypted /\ FinishUpdate(r, m)
           \/ m.encrypted /\ CanDecrypt /\ Goto(r, "decoding") /\ UNCHANGED store
           \/ m.encrypted /\ ~CanDecrypt /\ RejectUndecodable(r)
    BY <1>1 DEF ReceiveUpdate
  <2>1. /\ pc[r] = "unsent"
        /\ msg'[r] = m
        /\ \A q \in Requests : q # r => msg'[q] = msg[q]
    BY <1>1, <1>i DEF ReceiveUpdate
  <2>2. CASE FinishUpdate(r, m)
    BY <2>1, <2>2, <1>i, <1>t, FinishVisible
  <2>3. CASE Goto(r, "decoding") /\ UNCHANGED store
    BY <2>1, <2>3, <1>i DEF Waiting, Visible
  <2>4. CASE RejectUndecodable(r)
    BY <2>1, <2>4, <1>i DEF RejectUndecodable, Waiting, Visible
  <2> QED BY <2>2, <2>3, <2>4
<1>2. ASSUME NEW r \in Requests, Decoded(r) PROVE Waiting' /\ Visible'
  <2>1. /\ pc[r] = "decoding"
        /\ msg[r] \in Message
        /\ FinishUpdate(r, msg[r])
        /\ msg' = msg
    BY <1>2, <1>i DEF Decoded
  <2> QED BY <2>1, <1>i, <1>t, FinishVisible
<1>3. ASSUME NEW r \in Requests, DecodeFailed(r) PROVE Waiting' /\ Visible'
  BY <1>3, <1>i DEF DecodeFailed, RejectUndecodable, Waiting, Visible
<1>4. ASSUME NEW r \in Requests, MetadataArrives(r) PROVE Waiting' /\ Visible'
  BY <1>4, <1>i DEF MetadataArrives, setCredentials, Waiting, Visible
<1>5. ASSUME NEW r \in Requests, MetadataFails(r) PROVE Waiting' /\ Visible'
  BY <1>5, <1>i DEF MetadataFails, setCredentials, Waiting, Visible
<1>6. CASE DeleteIam
  BY <1>6, <1>i DEF DeleteIam, Waiting, Visible
<1>7. CASE DeleteBearer
  BY <1>7, <1>i DEF DeleteBearer, Waiting, Visible
<1>8. CASE UNCHANGED vars
  BY <1>8, <1>i DEF vars, Waiting, Visible
<1> QED
  BY <1>1, <1>2, <1>3, <1>4, <1>5, <1>6, <1>7, <1>8
     DEF Next, Decode, AnswerMetadata

LEMMA Invariance == Spec => []IInv
  BY VisibleInit, VisibleStep, PTL DEF Spec

(* No server reads a credential of the wrong kind, or one whose update was *)
(* not accepted, even if payloads may hold both kinds.                     *)
THEOREM AcceptedVisible == Spec => []OnlyAcceptedIsVisible
<1>1. IInv => OnlyAcceptedIsVisible
  BY DEF IInv, Visible, OnlyAcceptedIsVisible, hasCredentials,
         getCredentials, getAtxCredentials
<1> QED BY <1>1, Invariance, PTL

-----------------------------------------------------------------------------
(* The token and its connection.  A payload with a token AND access keys   *)
(* that arrives as a bearer update would change the metadata and the IAM   *)
(* slot: the next facts are about clients that send one kind at a time.    *)

NoBoth == "both" \notin Payloads

(* What the last part of an update handler does to the token and to the    *)
(* metadata.                                                               *)
LEMMA FinishPaired ==
  ASSUME TypeOK, Paired, NoBoth,
         NEW r \in Requests, NEW m \in Message,
         pc[r] \in {"unsent", "decoding"},
         msg'[r] = m, \A q \in Requests : q # r => msg'[q] = msg[q],
         FinishUpdate(r, m)
  PROVE  Paired'
<1> USE DEF TypeOK, Goto, store, States
<1> USE NoneAssumption
<1>1. CASE m.channel = "iam" /\ FinishIamUpdate(r, m)
  BY <1>1 DEF FinishIamUpdate, setCredentials, Paired
<1>2. CASE m.channel = "bearer" /\ FinishBearerUpdate(r, m)
  <2>1. m.data # "both"
    BY DEF Message, NoBoth
  <2>2. CASE isBearerCredentials(m.data) /\ ~m.atx /\ m.supplied
    <3>1. ~isIamCredentials(m.data)
      BY <2>1, <2>2 DEF isBearerCredentials, isIamCredentials
    <3> QED BY <1>2, <2>2, <3>1
         DEF FinishBearerUpdate, StoreBearer, setCredentials, Paired
  <2>3. CASE ~(isBearerCredentials(m.data) /\ ~m.atx /\ m.supplied)
    BY <1>2, <2>3
         DEF FinishBearerUpdate, StoreAtx, AskForMetadata, RefuseBearer, Paired
  <2> QED BY <2>2, <2>3
<1> QED BY <1>1, <1>2 DEF FinishUpdate

LEMMA PairedStep == NoBoth /\ IInv /\ Paired /\ [Next]_vars => Paired'
<1> SUFFICES ASSUME NoBoth, IInv, Paired, [Next]_vars PROVE Paired'
  OBVIOUS
<1>i. TypeOK /\ Waiting
  BY DEF IInv
<1> USE DEF TypeOK, States, Goto, store
<1>1. ASSUME NEW r \in Requests, ReceiveUpdate(r) PROVE Paired'
  <2> PICK m \in Message :
        /\ msg' = [msg EXCEPT ![r] = m]
        /\ \/ ~m.encrypted /\ FinishUpdate(r, m)
           \/ m.encrypted /\ CanDecrypt /\ Goto(r, "decoding") /\ UNCHANGED store
           \/ m.encrypted /\ ~CanDecrypt /\ RejectUndecodable(r)
    BY <1>1 DEF ReceiveUpdate
  <2>1. /\ pc[r] = "unsent"
        /\ msg'[r] = m
        /\ \A q \in Requests : q # r => msg'[q] = msg[q]
    BY <1>1, <1>i DEF ReceiveUpdate
  <2>2. CASE FinishUpdate(r, m)
    BY <2>1, <2>2, <1>i, FinishPaired
  <2>3. CASE Goto(r, "decoding") /\ UNCHANGED store
    BY <2>1, <2>3, <1>i DEF Paired
  <2>4. CASE RejectUndecodable(r)
    BY <2>1, <2>4, <1>i DEF RejectUndecodable, Paired
  <2> QED BY <2>2, <2>3, <2>4
<1>2. ASSUME NEW r \in Requests, Decoded(r) PROVE Paired'
  <2>1. /\ pc[r] = "decoding" /\ msg[r] \in Message /\ FinishUpdate(r, msg[r])
        /\ msg' = msg
    BY <1>2, <1>i DEF Decoded
  <2> QED BY <2>1, <1>i, FinishPaired
<1>3. ASSUME NEW r \in Requests, DecodeFailed(r) PROVE Paired'
  BY <1>3, <1>i DEF DecodeFailed, RejectUndecodable, Paired
<1>4. ASSUME NEW r \in Requests, AnswerMetadata(r) PROVE Paired'
  <2>1. msg[r] \in Message /\ isBearerCredentials(msg[r].data)
    BY <1>4, <1>i DEF AnswerMetadata, MetadataArrives, MetadataFails, Waiting
  <2>2. ~isIamCredentials(msg[r].data)
    BY <2>1 DEF Message, NoBoth, isBearerCredentials, isIamCredentials
  <2> QED BY <1>4, <1>i, <2>2, NoneAssumption
          DEF AnswerMetadata, MetadataArrives, MetadataFails, setCredentials, Waiting, Paired
<1>5. CASE DeleteIam
  BY <1>5 DEF DeleteIam, Paired
<1>6. CASE DeleteBearer
  BY <1>6 DEF DeleteBearer, Paired
<1>7. CASE UNCHANGED vars
  BY <1>7 DEF vars, Paired
<1> QED
  BY <1>1, <1>2, <1>3, <1>4, <1>5, <1>6, <1>7 DEF Next, Decode

(* No server ever reads a bearer token beside the metadata, or the         *)
(* connection type, of another connection, and metadata are never those of *)
(* an alternate token.                                                     *)
THEOREM BearerPaired == NoBoth => (Spec => []BearerHasItsConnection)
<1> SUFFICES ASSUME NoBoth PROVE Spec => []BearerHasItsConnection
  OBVIOUS
<1>1. Init => Paired
  BY DEF Init, Paired
<1>2. IInv /\ Paired /\ [Next]_vars => Paired'
  BY PairedStep
<1>3. Paired => BearerHasItsConnection
  BY DEF Paired, BearerHasItsConnection, getConnectionType
<1> QED BY <1>1, <1>2, <1>3, Invariance, PTL DEF Spec

-----------------------------------------------------------------------------
(* The handlers implement the atomic store of CredentialStore.             *)

(* How the state of one handler shows in the abstract store.               *)
LEMMA StatusStep ==
  ASSUME TypeOK, NEW r \in Requests, NEW state \in States, Goto(r, state)
  PROVE  Status' = [Status EXCEPT ![r] = StatusOf[state]]
  BY DEF TypeOK, States, Goto, Status

LEMMA FinishRefines ==
  ASSUME TypeOK, NoBoth, NEW r \in Requests, NEW m \in Message,
         pc[r] \in {"unsent", "decoding"},
         pc[r] = "decoding" => Status[r] = "pending",
         FinishUpdate(r, m)
  PROVE  Store!Next \/ UNCHANGED Store!vars
<1> USE DEF States
<1>1. Store!Open(r)
  BY DEF Store!Open, Status, StatusOf
<1>2. CASE m.channel = "iam" /\ FinishIamUpdate(r, m)
  <2>1. CASE isIamCredentials(m.data)
    <3>1. Goto(r, "stored") /\ iam' = r /\ UNCHANGED <<bearer, atx, meta>>
      BY <1>2, <2>1 DEF FinishIamUpdate, setCredentials
    <3>2. Store!Become(r, "accepted")
      BY <3>1, StatusStep DEF Store!Become, StatusOf
    <3> QED BY <1>1, <3>1, <3>2 DEF Store!AcceptIam, Store!Next
  <2>2. CASE ~isIamCredentials(m.data)
    <3>1. Goto(r, "rejected") /\ iam' = None /\ UNCHANGED <<bearer, atx, meta>>
      BY <1>2, <2>2 DEF FinishIamUpdate
    <3>2. Store!Become(r, "refused")
      BY <3>1, StatusStep DEF Store!Become, StatusOf
    <3> QED BY <1>1, <3>1, <3>2 DEF Store!Refuse, Store!Next
  <2> QED BY <2>1, <2>2
<1>3. CASE m.channel = "bearer" /\ FinishBearerUpdate(r, m)
  <2>1. CASE isBearerCredentials(m.data) /\ m.atx
    <3>1. Goto(r, "stored") /\ atx' = r /\ UNCHANGED <<iam, bearer, meta>>
      BY <1>3, <2>1 DEF FinishBearerUpdate, StoreAtx
    <3>2. Store!Become(r, "accepted")
      BY <3>1, StatusStep DEF Store!Become, StatusOf
    <3> QED BY <1>1, <3>1, <3>2 DEF Store!AcceptAtx, Store!Next
  <2>2. CASE isBearerCredentials(m.data) /\ ~m.atx /\ m.supplied
    <3>1. ~isIamCredentials(m.data)
      BY <2>2 DEF Message, NoBoth, isBearerCredentials, isIamCredentials
    <3>2. Goto(r, "stored") /\ bearer' = r /\ meta' = r /\ UNCHANGED <<iam, atx>>
      BY <1>3, <2>2, <3>1 DEF FinishBearerUpdate, StoreBearer, setCredentials
    <3>3. Store!Become(r, "accepted")
      BY <3>2, StatusStep DEF Store!Become, StatusOf
    <3> QED BY <1>1, <3>2, <3>3 DEF Store!AcceptBearer, Store!Next
  <2>3. CASE isBearerCredentials(m.data) /\ ~m.atx /\ ~m.supplied
    <3>1. Goto(r, "fetching") /\ UNCHANGED store
      BY <1>3, <2>3 DEF FinishBearerUpdate, AskForMetadata
    <3>2. Store!Become(r, "pending") /\ UNCHANGED <<iam, bearer, atx, meta>>
      BY <3>1, StatusStep DEF Store!Become, StatusOf, store
    <3>3. CASE pc[r] = "unsent"
      <4>1. Status[r] = "new"
        BY <3>3 DEF Status, StatusOf
      <4> QED BY <3>2, <4>1 DEF Store!Begin, Store!Next
    <3>4. CASE pc[r] = "decoding"
      <4>1. Status' = Status
        BY <3>2, <3>4 DEF Store!Become, Status, StatusOf
      <4> QED BY <3>2, <4>1 DEF Store!vars
    <3> QED BY <3>3, <3>4
  <2>4. CASE ~isBearerCredentials(m.data)
    <3>1. Goto(r, "rejected") /\ bearer' = None /\ atx' = None
          /\ UNCHANGED <<iam, meta>>
      BY <1>3, <2>4 DEF FinishBearerUpdate, RefuseBearer
    <3>2. Store!Become(r, "refused")
      BY <3>1, StatusStep DEF Store!Become, StatusOf
    <3> QED BY <1>1, <3>1, <3>2 DEF Store!Refuse, Store!Next
  <2> QED BY <1>3, <2>1, <2>2, <2>3, <2>4 DEF FinishBearerUpdate
<1> QED BY <1>2, <1>3 DEF FinishUpdate

LEMMA RejectRefines ==
  ASSUME TypeOK, NEW r \in Requests,
         pc[r] \in {"unsent", "decoding"}, RejectUndecodable(r)
  PROVE  Store!Next
<1>1. Store!Open(r)
  BY DEF Store!Open, Status, StatusOf
<1>2. Store!Become(r, "refused") /\ UNCHANGED <<iam, bearer, atx, meta>>
  BY StatusStep DEF RejectUndecodable, Store!Become, StatusOf, store, States
<1> QED BY <1>1, <1>2 DEF Store!Refuse, Store!Next

LEMMA StepRefines ==
  NoBoth /\ IInv /\ [Next]_vars => [Store!Next]_(Store!vars)
<1> SUFFICES ASSUME NoBoth, IInv, [Next]_vars
             PROVE  Store!Next \/ UNCHANGED Store!vars
  OBVIOUS
<1>i. TypeOK /\ Waiting
  BY DEF IInv
<1>1. ASSUME NEW r \in Requests, ReceiveUpdate(r)
      PROVE  Store!Next \/ UNCHANGED Store!vars
  <2> PICK m \in Message :
        \/ ~m.encrypted /\ FinishUpdate(r, m)
        \/ m.encrypted /\ CanDecrypt /\ Goto(r, "decoding") /\ UNCHANGED store
        \/ m.encrypted /\ ~CanDecrypt /\ RejectUndecodable(r)
    BY <1>1 DEF ReceiveUpdate
  <2>1. pc[r] = "unsent"
    BY <1>1 DEF ReceiveUpdate
  <2>2. CASE FinishUpdate(r, m)
    BY <2>1, <2>2, <1>i, FinishRefines
  <2>3. CASE Goto(r, "decoding") /\ UNCHANGED store
    <3>1. Status[r] = "new"
      BY <2>1 DEF Status, StatusOf
    <3>2. Store!Become(r, "pending")
      BY <2>3, <1>i, StatusStep DEF Store!Become, StatusOf, States
    <3> QED BY <2>3, <3>1, <3>2 DEF Store!Begin, Store!Next, store
  <2>4. CASE RejectUndecodable(r)
    BY <2>1, <2>4, <1>i, RejectRefines
  <2> QED BY <2>2, <2>3, <2>4
<1>2. ASSUME NEW r \in Requests, Decoded(r)
      PROVE  Store!Next \/ UNCHANGED Store!vars
  <2>1. pc[r] = "decoding" /\ msg[r] \in Message /\ FinishUpdate(r, msg[r])
    BY <1>2, <1>i DEF Decoded, TypeOK
  <2>2. Status[r] = "pending"
    BY <2>1 DEF Status, StatusOf
  <2> QED BY <2>1, <2>2, <1>i, FinishRefines
<1>3. ASSUME NEW r \in Requests, DecodeFailed(r) PROVE Store!Next
  BY <1>3, <1>i, RejectRefines DEF DecodeFailed
<1>4. ASSUME NEW r \in Requests, AnswerMetadata(r) PROVE Store!Next
  <2>1. pc[r] = "fetching" /\ msg[r] \in Message /\ isBearerCredentials(msg[r].data)
    BY <1>4, <1>i DEF AnswerMetadata, MetadataArrives, MetadataFails, Waiting, TypeOK
  <2>2. ~isIamCredentials(msg[r].data)
    BY <2>1 DEF Message, NoBoth, isBearerCredentials, isIamCredentials
  <2>3. /\ bearer' = r /\ meta' \in {r, None} /\ UNCHANGED <<iam, atx>>
        /\ Goto(r, "stored") \/ Goto(r, "bare")
    BY <1>4, <2>2 DEF AnswerMetadata, MetadataArrives, MetadataFails, setCredentials
  <2>4. Store!Become(r, "accepted")
    BY <2>3, <1>i, StatusStep DEF Store!Become, StatusOf, States
  <2>5. Store!Open(r)
    BY <2>1 DEF Store!Open, Status, StatusOf
  <2> QED BY <2>3, <2>4, <2>5 DEF Store!AcceptBearer, Store!Next
<1>5. CASE DeleteIam
  BY <1>5 DEF DeleteIam, Store!RevokeIam, Store!Next, Status, StatusOf
<1>6. CASE DeleteBearer
  BY <1>6 DEF DeleteBearer, Store!RevokeBearer, Store!Next, Status, StatusOf
<1>7. CASE UNCHANGED vars
  BY <1>7 DEF vars, Store!vars, Status, StatusOf
<1> QED
  BY <1>1, <1>2, <1>3, <1>4, <1>5, <1>6, <1>7 DEF Next, Decode

(* Every update takes effect at one instant between its arrival and its    *)
(* answer, in one slot: the handlers with their promises implement the     *)
(* atomic store.                                                           *)
THEOREM StoreImplemented == NoBoth => (Spec => ImplementsStore)
<1> SUFFICES ASSUME NoBoth PROVE Spec => ImplementsStore
  OBVIOUS
<1>1. Init => Store!Init
  BY DEF Init, Store!Init, Status, StatusOf
<1>2. IInv /\ [Next]_vars => [Store!Next]_(Store!vars)
  BY StepRefines
<1> QED BY <1>1, <1>2, Invariance, PTL DEF Spec, Store!Spec, ImplementsStore

-----------------------------------------------------------------------------
(* Answered updates.                                                       *)

LEMMA SlotStep ==
  ASSUME IInv, [Next]_vars, NEW q \in Requests, Answered(q)
  PROVE  /\ iam' = q => iam = q
         /\ bearer' = q => bearer = q
         /\ atx' = q => atx = q
<1>i. TypeOK
  BY DEF IInv
<1> USE NoneAssumption DEF TypeOK, Answered
<1>1. ASSUME NEW r \in Requests, NEW m \in Message, FinishUpdate(r, m), q # r
      PROVE  iam' \in {iam, None, r} /\ bearer' \in {bearer, None, r}
             /\ atx' \in {atx, None, r}
  BY <1>1
       DEF FinishUpdate, FinishIamUpdate, FinishBearerUpdate, StoreAtx,
           StoreBearer, AskForMetadata, RefuseBearer,
              setCredentials, store
<1>2. ASSUME NEW r \in Requests, ReceiveUpdate(r)
      PROVE  iam' \in {iam, None, r} /\ bearer' \in {bearer, None, r}
             /\ atx' \in {atx, None, r} /\ q # r
  <2>1. q # r
    BY <1>2 DEF ReceiveUpdate
  <2> QED BY <1>1, <1>2, <2>1 DEF ReceiveUpdate, RejectUndecodable, store
<1>3. ASSUME NEW r \in Requests, Decode(r)
      PROVE  iam' \in {iam, None, r} /\ bearer' \in {bearer, None, r}
             /\ atx' \in {atx, None, r} /\ q # r
  <2>1. q # r /\ msg[r] \in Message
    BY <1>3, <1>i DEF Decode, Decoded, DecodeFailed
  <2> QED BY <1>1, <1>3, <2>1
          DEF Decode, Decoded, DecodeFailed, RejectUndecodable, store
<1>4. ASSUME NEW r \in Requests, AnswerMetadata(r)
      PROVE  iam' \in {iam, r} /\ bearer' \in {bearer, r} /\ atx' = atx /\ q # r
  BY <1>4 DEF AnswerMetadata, MetadataArrives, MetadataFails, setCredentials
<1>5. CASE DeleteIam
  BY <1>5 DEF DeleteIam
<1>6. CASE DeleteBearer
  BY <1>6 DEF DeleteBearer
<1>7. CASE UNCHANGED vars
  BY <1>7 DEF vars
<1> QED
  BY <1>2, <1>3, <1>4, <1>5, <1>6, <1>7 DEF Next

(* A credential whose update was answered never returns once it is gone:   *)
(* deletion and replacement are final, whatever is still in flight.        *)
THEOREM AnsweredStaysAway == Spec => AnsweredNeverReturns
<1>1. IInv /\ [Next]_vars =>
        [\A r \in Requests :
            Answered(r) => /\ iam' = r => iam = r
                           /\ bearer' = r => bearer = r
                           /\ atx' = r => atx = r ]_vars
  BY SlotStep
<1> QED BY <1>1, Invariance, PTL DEF Spec, AnsweredNeverReturns

-----------------------------------------------------------------------------
(* Refused updates.                                                        *)

(* What a refusal of request r leaves of the slots.                        *)
Contained(r) ==
    LET m == msg'[r] IN
    /\ meta' = meta
    /\ m.channel = "iam" => /\ bearer' = bearer /\ atx' = atx
                            /\ isIamCredentials(m.data) => iam' = iam
    /\ m.channel = "bearer" => /\ iam' = iam
                               /\ isBearerCredentials(m.data) =>
                                      bearer' = bearer /\ atx' = atx

(* The last part of an update handler refuses no request but its own, and  *)
(* that one only for a payload without credentials of its channel.         *)
LEMMA FinishRefuses ==
  ASSUME TypeOK, NEW r \in Requests, NEW m \in Message, FinishUpdate(r, m),
         NEW q \in Requests, pc'[q] = "rejected", pc[q] # "rejected",
         msg'[r] = m
  PROVE  Contained(q)
<1> USE DEF TypeOK, States, Goto, store
<1>1. CASE m.channel = "iam" /\ FinishIamUpdate(r, m)
  <2>1. q = r /\ ~isIamCredentials(m.data)
    BY <1>1 DEF FinishIamUpdate
  <2> QED BY <1>1, <2>1 DEF FinishIamUpdate, Contained
<1>2. CASE m.channel = "bearer" /\ FinishBearerUpdate(r, m)
  <2>1. q = r /\ RefuseBearer(r) /\ ~isBearerCredentials(m.data)
    BY <1>2 DEF FinishBearerUpdate, StoreAtx, StoreBearer, AskForMetadata, RefuseBearer
  <2> QED BY <1>2, <2>1 DEF RefuseBearer, Contained
<1> QED BY <1>1, <1>2 DEF FinishUpdate

LEMMA RefusalStep ==
  ASSUME TypeOK, [Next]_vars,
         NEW q \in Requests, pc'[q] = "rejected", pc[q] # "rejected"
  PROVE  Contained(q)
<1> USE DEF TypeOK, States, Goto
<1>1. ASSUME UNCHANGED store PROVE Contained(q)
  BY <1>1 DEF store, Contained
<1>2. ASSUME NEW r \in Requests, ReceiveUpdate(r) PROVE Contained(q)
  <2> PICK m \in Message :
        /\ msg' = [msg EXCEPT ![r] = m]
        /\ \/ ~m.encrypted /\ FinishUpdate(r, m)
           \/ m.encrypted /\ CanDecrypt /\ Goto(r, "decoding") /\ UNCHANGED store
           \/ m.encrypted /\ ~CanDecrypt /\ RejectUndecodable(r)
    BY <1>2 DEF ReceiveUpdate
  <2>1. msg'[r] = m
    OBVIOUS
  <2>2. CASE FinishUpdate(r, m)
    BY <2>1, <2>2, FinishRefuses
  <2>3. CASE UNCHANGED store
    BY <1>1, <2>3
  <2> QED BY <2>2, <2>3 DEF RejectUndecodable
<1>3. ASSUME NEW r \in Requests, Decoded(r) PROVE Contained(q)
  <2>1. msg[r] \in Message /\ FinishUpdate(r, msg[r]) /\ msg'[r] = msg[r]
    BY <1>3 DEF Decoded
  <2> QED BY <2>1, FinishRefuses
<1>4. ASSUME NEW r \in Requests, DecodeFailed(r) PROVE Contained(q)
  BY <1>1, <1>4 DEF DecodeFailed, RejectUndecodable
<1>5. ~(DeleteIam \/ DeleteBearer \/ UNCHANGED vars)
  BY DEF DeleteIam, DeleteBearer, vars
<1>6. ASSUME NEW r \in Requests, AnswerMetadata(r) PROVE FALSE
  BY <1>6 DEF AnswerMetadata, MetadataArrives, MetadataFails
<1> QED
  BY <1>2, <1>3, <1>4, <1>5, <1>6 DEF Next, Decode

(* A token that cannot be decrypted changes nothing the servers can read,  *)
(* and a refused payload clears slots of its own channel only.             *)
THEOREM RefusalContained == Spec => RefusalStaysInItsChannel
<1>1. TypeOK /\ [Next]_vars =>
        [\A r \in Requests :
            pc'[r] = "rejected" /\ pc[r] # "rejected" =>
                LET m == msg'[r] IN
                /\ meta' = meta
                /\ m.channel = "iam" =>
                        /\ bearer' = bearer /\ atx' = atx
                        /\ isIamCredentials(m.data) => iam' = iam
                /\ m.channel = "bearer" =>
                        /\ iam' = iam
                        /\ isBearerCredentials(m.data) =>
                                bearer' = bearer /\ atx' = atx ]_vars
  BY RefusalStep DEF Contained
<1> QED BY <1>1, TypeCorrect, PTL DEF Spec, RefusalStaysInItsChannel

=============================================================================
