---------------------- MODULE CredentialDeletionProofs ----------------------
(***************************************************************************)
(* Proofs about CredentialDeletion, for any number of servers and          *)
(* requests.  NoneIsKept needs three facts that every step preserves: each *)
(* registered server has a slot of its own (OwnSlot), what is gone was     *)
(* answered, and what was answered does not come back to the provider      *)
(* (Forgotten, from SlotStep of AuthProofs).                               *)
(***************************************************************************)
EXTENDS CredentialDeletion, AuthProofs

(* Servers register while they are constructed, only the last one may do   *)
(* so later, and a handler that throws ends the process.                   *)
Disciplined == MayRegisterLate \subseteq {N} /\ (ExitsOnRejection \/ MayThrow = {})

OwnSlot == \A s \in registered : slot[s] = s

Forgotten ==
    /\ \A type \in Types : \A r \in gone[type] : Answered(r)
    /\ \A kind \in Kinds : Provided(kind) \notin gone[DeletedAs(kind)]

(* Nothing is deleted before all servers are there to be told.             *)
Fresh == built # N => \A type \in Types : gone[type] = {}

DInv == IInv /\ TypeOKAll /\ OwnSlot /\ Forgotten /\ Fresh /\ NoneIsKept

-----------------------------------------------------------------------------

(* The two providers know one kind each of what is deleted as "bearer".    *)
LEMMA KindsOfTypes ==
    /\ Kinds = {"iam", "bearer", "atx"} /\ Types = {"iam", "bearer"}
    /\ DeletedAs("iam") = "iam" /\ DeletedAs("bearer") = "bearer" /\ DeletedAs("atx") = "bearer"
    /\ Provided("iam") = iam /\ Provided("bearer") = bearer /\ Provided("atx") = atx
BY DEF Kinds, Types, DeletedAs, Provided, getCredentials, getAtxCredentials

LEMMA ProvidedType == TypeOK => \A kind \in Kinds : Provided(kind) \in Requests \cup {None}
BY KindsOfTypes DEF TypeOK

(* Every step of this module is a step of Auth or leaves Auth alone.       *)
LEMMA StepOfAuth == [NextAll]_allVars => [Next]_vars
<1> SUFFICES ASSUME [NextAll]_allVars PROVE [Next]_vars
  OBVIOUS
<1>1. CASE Update
  BY <1>1 DEF Update, Next
<1>2. CASE DeleteIamEverywhere \/ DeleteBearerEverywhere
  BY <1>2 DEF DeleteIamEverywhere, DeleteBearerEverywhere, Next
<1>3. CASE ConstructServer \/ (\E s \in Servers : RegisterLate(s) \/ RegisterAtAtx(s))
           \/ (\E s \in Servers, kind \in Kinds : ReadCredentials(s, kind))
           \/ UNCHANGED allVars
  BY <1>3 DEF ConstructServer, RegisterLate, RegisterAtAtx, ReadCredentials, allVars
<1> QED
  BY <1>1, <1>2, <1>3 DEF NextAll

(* The handlers change no type.                                            *)
LEMMA NotifyType ==
    ASSUME TypeOKAll, TypeOK', NEW type \in Types, onCredentialsDeletion(type)
    PROVE  TypeOKAll'
<1>1. \A kind \in Kinds : Provided(kind)' \in Requests \cup {None}
  BY DEF Provided, getCredentials, getAtxCredentials, TypeOK
<1>2. ASSUME NEW last \in Servers, notifyCredentialsDeletion(type, last)
      PROVE  held' \in [Servers -> [Kinds -> Requests \cup {None}]]
  BY <1>1, <1>2 DEF notifyCredentialsDeletion, TypeOKAll
<1>3. N \in Servers
  BY NAssumption DEF Servers
<1>4. held' \in [Servers -> [Kinds -> Requests \cup {None}]]
  BY <1>2, <1>3 DEF onCredentialsDeletion
<1>5. alive' \in BOOLEAN
  BY ExitAssumption, Zenon DEF onCredentialsDeletion, TypeOKAll
<1> QED
  BY <1>4, <1>5 DEF onCredentialsDeletion, TypeOKAll, servers

LEMMA TypeAllStep == TypeOKAll /\ TypeOK /\ TypeOK' /\ [NextAll]_allVars => TypeOKAll'
<1> SUFFICES ASSUME TypeOKAll, TypeOK, TypeOK', [NextAll]_allVars PROVE TypeOKAll'
  OBVIOUS
<1>1. CASE ConstructServer
  <2>1. built' \in 0 .. N /\ built + 1 \in 0 .. N /\ built + 1 \in Servers
    BY <1>1, NAssumption DEF ConstructServer, TypeOKAll, Servers
  <2> QED
    BY <1>1, <2>1 DEF ConstructServer, onCredentialsDeleted, TypeOKAll
<1>2. ASSUME NEW s \in Servers, RegisterLate(s) PROVE TypeOKAll'
  <2>1. s \in 0 .. N
    BY NAssumption DEF Servers
  <2>2. \A kind \in Kinds : Provided(kind) \in Requests \cup {None}
    BY ProvidedType
  <2> QED
    BY <1>2, <2>1, <2>2 DEF RegisterLate, onCredentialsDeleted, TypeOKAll
<1>2a. ASSUME NEW s \in Servers, RegisterAtAtx(s) PROVE TypeOKAll'
  BY <1>2a, NAssumption DEF RegisterAtAtx, TypeOKAll, Servers
<1>3. ASSUME NEW s \in Servers, NEW kind \in Kinds, ReadCredentials(s, kind)
      PROVE  TypeOKAll'
  <2>1. Provided(kind) \in Requests \cup {None}
    BY ProvidedType
  <2> QED
    BY <1>3, <2>1 DEF ReadCredentials, TypeOKAll, servers
<1>4. CASE Update
  BY <1>4 DEF Update, TypeOKAll, servers
<1>5. CASE DeleteIamEverywhere \/ DeleteBearerEverywhere
  BY <1>5, NotifyType DEF DeleteIamEverywhere, DeleteBearerEverywhere, Types
<1>6. CASE UNCHANGED allVars
  BY <1>6 DEF allVars, TypeOKAll, servers
<1> QED
  BY <1>1, <1>2, <1>3, <1>4, <1>5, <1>6, <1>2a DEF NextAll

(* An answer is final.                                                     *)
LEMMA AnsweredStep ==
    ASSUME TypeOK, [Next]_vars, NEW q \in Requests, Answered(q)
    PROVE  Answered(q)'
<1> USE DEF TypeOK, States, Goto, Answered
<1>1. ASSUME NEW r \in Requests, ReceiveUpdate(r) \/ Decode(r) \/ AnswerMetadata(r)
      PROVE  pc'[q] = pc[q]
  <2>1. r # q
    BY <1>1 DEF ReceiveUpdate, Decode, Decoded, DecodeFailed,
                AnswerMetadata, MetadataArrives, MetadataFails
  <2>2. \E state : Goto(r, state)
    BY <1>1 DEF ReceiveUpdate, Decode, Decoded, DecodeFailed, RejectUndecodable,
                AnswerMetadata, MetadataArrives, MetadataFails, FinishUpdate,
                FinishIamUpdate, FinishBearerUpdate, StoreAtx, StoreBearer,
                AskForMetadata, RefuseBearer
  <2> QED
    BY <2>1, <2>2
<1>2. CASE DeleteIam \/ DeleteBearer \/ UNCHANGED vars
  BY <1>2 DEF DeleteIam, DeleteBearer, vars
<1> QED
  BY <1>1, <1>2 DEF Next

(* Slots are given out by the runtime only, one to each server.            *)
LEMMA OwnSlotStep ==
    ASSUME Disciplined, TypeOKAll, OwnSlot, [NextAll]_allVars
    PROVE  OwnSlot'
<1>1. CASE ConstructServer
  <2>1. built + 1 \in Servers
    BY <1>1, NAssumption DEF ConstructServer, TypeOKAll, Servers
  <2> QED
    BY <1>1, <2>1 DEF ConstructServer, onCredentialsDeleted, OwnSlot, TypeOKAll
<1>2. ASSUME NEW s \in Servers, RegisterLate(s) PROVE OwnSlot'
  <2>1. s = N
    BY <1>2 DEF RegisterLate, Disciplined
  <2> QED
    BY <1>2, <2>1 DEF RegisterLate, onCredentialsDeleted, OwnSlot, TypeOKAll
<1>3. CASE (\E s \in Servers, kind \in Kinds : ReadCredentials(s, kind)) \/ Update
           \/ (\E s \in Servers : RegisterAtAtx(s))
           \/ DeleteIamEverywhere \/ DeleteBearerEverywhere \/ UNCHANGED allVars
  BY <1>3 DEF ReadCredentials, RegisterAtAtx, Update, DeleteIamEverywhere, DeleteBearerEverywhere,
              onCredentialsDeletion, allVars, servers, OwnSlot
<1> QED
  BY <1>1, <1>2, <1>3 DEF NextAll

(* What a deletion takes away is gone for good.                            *)
LEMMA ForgottenStep ==
    ASSUME IInv, TypeOKAll, Forgotten, [NextAll]_allVars
    PROVE  Forgotten'
<1>1. [Next]_vars /\ TypeOK
  BY StepOfAuth DEF IInv
<1>2. \A r \in Requests : Answered(r) => Answered(r)'
  BY <1>1, AnsweredStep
<1>3. \A r \in Requests, kind \in Kinds :
        Answered(r) /\ Provided(kind)' = r => Provided(kind) = r
  <2>1. /\ Provided("iam")' = iam' /\ Provided("bearer")' = bearer' /\ Provided("atx")' = atx'
    BY DEF Provided, getCredentials, getAtxCredentials
  <2> QED
    BY <1>1, <2>1, SlotStep, KindsOfTypes
<1>3a. \A kind \in Kinds : DeletedAs(kind) \in Types
  BY KindsOfTypes
<1>4. ASSUME NEW type \in Types, gone'[type] = gone[type]
      PROVE  /\ \A r \in gone'[type] : Answered(r)'
             /\ \A kind \in Kinds : DeletedAs(kind) = type => Provided(kind)' \notin gone'[type]
  <2>1. \A r \in gone[type] : r \in Requests /\ Answered(r)
    BY DEF TypeOKAll, Forgotten
  <2> QED
    BY <1>2, <1>3, <1>4, <2>1 DEF Forgotten
<1>5. ASSUME NEW type \in Types, onCredentialsDeletion(type),
             \A kind \in Kinds : DeletedAs(kind) = type => Provided(kind)' = None
      PROVE  Forgotten'
  <2>1. /\ gone'[type] = { r \in Requests : Answered(r) }
        /\ \A other \in Types \ {type} : gone'[other] = gone[other]
    BY <1>5 DEF onCredentialsDeletion, TypeOKAll
  <2>2. /\ \A r \in gone'[type] : Answered(r)'
        /\ \A kind \in Kinds : DeletedAs(kind) = type => Provided(kind)' \notin gone'[type]
    BY <1>2, <1>5, <2>1, NoneAssumption
  <2>3. \A other \in Types \ {type} :
          /\ \A r \in gone'[other] : Answered(r)'
          /\ \A kind \in Kinds : DeletedAs(kind) = other => Provided(kind)' \notin gone'[other]
    BY <1>4, <2>1
  <2> QED
    BY <2>2, <2>3, <1>3a DEF Forgotten
<1>6. CASE DeleteIamEverywhere
  <2>1. \A kind \in Kinds : DeletedAs(kind) = "iam" => Provided(kind)' = None
    BY <1>6, KindsOfTypes DEF DeleteIamEverywhere, DeleteIam, Provided, getCredentials
  <2> QED
    BY <1>5, <1>6, <2>1, KindsOfTypes DEF DeleteIamEverywhere
<1>7. CASE DeleteBearerEverywhere
  <2>1. \A kind \in Kinds : DeletedAs(kind) = "bearer" => Provided(kind)' = None
    BY <1>7, KindsOfTypes
       DEF DeleteBearerEverywhere, DeleteBearer, Provided, getCredentials, getAtxCredentials
  <2> QED
    BY <1>5, <1>7, <2>1, KindsOfTypes DEF DeleteBearerEverywhere
<1>8. CASE gone' = gone
  BY <1>4, <1>8, <1>3a DEF Forgotten
<1> QED
  BY <1>6, <1>7, <1>8 DEF NextAll, ConstructServer, RegisterLate, RegisterAtAtx,
                          ReadCredentials, Update, allVars

(* A loop that the process survives has reached every registered server.   *)
LEMMA EveryoneIsTold ==
    ASSUME Disciplined, TypeOKAll, OwnSlot, NEW type \in Types,
           onCredentialsDeletion(type), alive'
    PROVE  \A s \in registered, kind \in Kinds :
               held'[s][kind] = IF DeletedAs(kind) = type THEN Provided(kind)' ELSE held[s][kind]
<1>1. notifyCredentialsDeletion(type, N)
  BY DEF onCredentialsDeletion, Disciplined
<1>2. \A s \in registered : s \in Told(N)
  <2> TAKE s \in registered
  <2>1. s \in 1 .. N /\ slot[s] = s
    BY DEF OwnSlot, TypeOKAll, Servers
  <2>2. s # NoServer
    BY <2>1, NAssumption DEF NoServer
  <2> QED
    BY <2>1, <2>2 DEF Told
<1>3. registered \subseteq Servers
  BY DEF TypeOKAll
<1> QED
  BY <1>1, <1>2, <1>3 DEF notifyCredentialsDeletion

LEMMA FreshStep == Fresh /\ TypeOKAll /\ [NextAll]_allVars => Fresh'
<1> SUFFICES ASSUME Fresh, TypeOKAll, [NextAll]_allVars PROVE Fresh'
  OBVIOUS
<1>1. CASE ConstructServer
  BY <1>1, NAssumption DEF ConstructServer, Fresh, TypeOKAll
<1>2. CASE DeleteIamEverywhere \/ DeleteBearerEverywhere
  BY <1>2 DEF DeleteIamEverywhere, DeleteBearerEverywhere, Listening,
              onCredentialsDeletion, servers, Fresh
<1>3. CASE built' = built /\ gone' = gone
  BY <1>3 DEF Fresh
<1> QED
  BY <1>1, <1>2, <1>3 DEF NextAll, RegisterLate, RegisterAtAtx, ReadCredentials, Update, allVars, servers

(* NoneIsKept is preserved: by a deletion because everyone is told, by a   *)
(* read because the provider does not have what is gone.                   *)
LEMMA KeptStep ==
    ASSUME Disciplined, DInv, [NextAll]_allVars
    PROVE  NoneIsKept'
<1>1. CASE ConstructServer
  <2>1. \A type \in Types : gone'[type] = {}
    BY <1>1, NAssumption DEF ConstructServer, DInv, Fresh, TypeOKAll
  <2> QED
    BY <2>1, KindsOfTypes DEF NoneIsKept
<1>2. ASSUME NEW s \in Servers, RegisterLate(s) PROVE NoneIsKept'
  <2>1. \A kind \in Kinds : Provided(kind) \notin gone[DeletedAs(kind)]
    BY DEF DInv, Forgotten
  <2>2. \A t \in Servers, kind \in Kinds :
          held'[t][kind] = IF t = s THEN Provided(kind) ELSE held[t][kind]
    BY <1>2 DEF RegisterLate, DInv, TypeOKAll
  <2>3. /\ registered' = registered \cup {s} /\ registered \subseteq Servers
        /\ gone' = gone /\ (alive' => alive)
    BY <1>2 DEF RegisterLate, onCredentialsDeleted, DInv, TypeOKAll
  <2> QED
    BY <2>1, <2>2, <2>3 DEF DInv, NoneIsKept
<1>3. ASSUME NEW s \in Servers, NEW kind \in Kinds, ReadCredentials(s, kind)
      PROVE  NoneIsKept'
  <2>1. Provided(kind) \notin gone[DeletedAs(kind)]
    BY DEF DInv, Forgotten
  <2>2. \A t \in Servers, other \in Kinds :
          held'[t][other] = IF t = s /\ other = kind THEN Provided(kind)
                            ELSE held[t][other]
    BY <1>3 DEF ReadCredentials, DInv, TypeOKAll
  <2>3. registered' = registered /\ registered \subseteq Servers
        /\ gone' = gone /\ (alive' => alive)
    BY <1>3 DEF ReadCredentials, DInv, TypeOKAll, servers
  <2> QED
    BY <2>1, <2>2, <2>3 DEF DInv, NoneIsKept
<1>4. CASE UNCHANGED <<registered, held, alive, gone>>
  BY <1>4 DEF DInv, NoneIsKept
<1>5. ASSUME NEW type \in Types, onCredentialsDeletion(type), alive,
             \A kind \in Kinds : DeletedAs(kind) = type => Provided(kind)' = None
      PROVE  NoneIsKept'
  <2>1. SUFFICES ASSUME alive' PROVE NoneIsKept'
    BY DEF NoneIsKept
  <2>2. \A s \in registered, kind \in Kinds :
          held'[s][kind] = IF DeletedAs(kind) = type THEN None ELSE held[s][kind]
    BY <1>5, <2>1, EveryoneIsTold DEF DInv
  <2>3. registered' = registered /\ registered \subseteq Servers
    BY <1>5 DEF onCredentialsDeletion, servers, DInv, TypeOKAll
  <2>4. gone' = [gone EXCEPT ![type] = { r \in Requests : Answered(r) }]
    BY <1>5 DEF onCredentialsDeletion
  <2>5. ASSUME NEW s \in registered, NEW kind \in Kinds
        PROVE  held'[s][kind] \notin gone'[DeletedAs(kind)]
    <3>1. held[s][kind] \notin gone[DeletedAs(kind)] /\ DeletedAs(kind) \in Types
      BY <1>5, <2>3, KindsOfTypes DEF DInv, NoneIsKept
    <3>2. CASE DeletedAs(kind) = type
      BY <2>2, <2>4, <3>1, <3>2, NoneAssumption DEF DInv, TypeOKAll
    <3>3. CASE DeletedAs(kind) # type
      BY <2>2, <2>4, <3>1, <3>3 DEF DInv, TypeOKAll
    <3> QED
      BY <3>2, <3>3
  <2> QED
    BY <2>3, <2>5 DEF NoneIsKept
<1>6. CASE DeleteIamEverywhere
  <2>1. \A kind \in Kinds : DeletedAs(kind) = "iam" => Provided(kind)' = None
    BY <1>6, KindsOfTypes DEF DeleteIamEverywhere, DeleteIam, Provided, getCredentials
  <2> QED
    BY <1>5, <1>6, <2>1, KindsOfTypes DEF DeleteIamEverywhere, Listening
<1>7. CASE DeleteBearerEverywhere
  <2>1. \A kind \in Kinds : DeletedAs(kind) = "bearer" => Provided(kind)' = None
    BY <1>7, KindsOfTypes
       DEF DeleteBearerEverywhere, DeleteBearer, Provided, getCredentials, getAtxCredentials
  <2> QED
    BY <1>5, <1>7, <2>1, KindsOfTypes DEF DeleteBearerEverywhere, Listening
<1> QED
  BY <1>1, <1>2, <1>3, <1>4, <1>6, <1>7
     DEF NextAll, RegisterAtAtx, Update, allVars, servers

-----------------------------------------------------------------------------
(* If all servers but the last register while they are constructed, and if *)
(* a handler that throws ends the process (or none throws), no registered  *)
(* server keeps a deleted credential (NoneIsKept).  The run deletion_late  *)
(* shows that the first premise cannot be dropped.                         *)
THEOREM NoCredentialIsKept == Disciplined => (SpecAll => []NoneIsKept)
<1> SUFFICES ASSUME Disciplined PROVE SpecAll => []NoneIsKept
  OBVIOUS
<1>1. InitAll => DInv
  <2> SUFFICES ASSUME InitAll PROVE DInv
    OBVIOUS
  <2>1. IInv
    BY VisibleInit DEF InitAll
  <2>2. TypeOKAll
    BY NAssumption DEF InitAll, TypeOKAll, NoServer
  <2>3. OwnSlot /\ Forgotten /\ Fresh /\ NoneIsKept
    BY KindsOfTypes DEF InitAll, OwnSlot, Forgotten, Fresh, NoneIsKept
  <2> QED
    BY <2>1, <2>2, <2>3 DEF DInv
<1>2. DInv /\ [NextAll]_allVars => DInv'
  <2> SUFFICES ASSUME DInv, [NextAll]_allVars PROVE DInv'
    OBVIOUS
  <2>1. IInv' /\ TypeOK /\ TypeOK'
    BY StepOfAuth, VisibleStep DEF DInv, IInv
  <2>2. TypeOKAll'
    BY <2>1, TypeAllStep DEF DInv
  <2>3. OwnSlot' /\ Forgotten' /\ Fresh' /\ NoneIsKept'
    BY OwnSlotStep, ForgottenStep, FreshStep, KeptStep DEF DInv
  <2> QED
    BY <2>1, <2>2, <2>3 DEF DInv
<1>3. DInv => NoneIsKept
  BY DEF DInv
<1> QED
  BY <1>1, <1>2, <1>3, PTL DEF SpecAll

-----------------------------------------------------------------------------
(* What AuthProofs shows of the store holds with the servers beside it.    *)
LEMMA AuthRefined == SpecAll => Spec
<1>1. InitAll => Init
  BY DEF InitAll
<1> QED BY <1>1, StepOfAuth, PTL DEF SpecAll, Spec

(* Type correctness, for any number of servers, whatever they do.          *)
THEOREM TypeAllCorrect == SpecAll => []TypeOKAll
<1>1. InitAll => TypeOKAll
  BY NAssumption DEF InitAll, TypeOKAll, NoServer
<1> QED BY <1>1, TypeAllStep, AuthRefined, TypeCorrect, PTL DEF SpecAll

(* With servers that register, read and throw, the store still shows them  *)
(* accepted credentials only, does not bring back what was deleted, keeps  *)
(* a refusal in its channel, and, for payloads of one kind, pairs a token  *)
(* with its connection and is the atomic store.                            *)
THEOREM StoreAll ==
    /\ SpecAll => []OnlyAcceptedIsVisible
    /\ SpecAll => AnsweredNeverReturns
    /\ SpecAll => RefusalStaysInItsChannel
    /\ NoBoth => (SpecAll => []BearerHasItsConnection)
    /\ NoBoth => (SpecAll => ImplementsStore)
<1>1. SpecAll => []OnlyAcceptedIsVisible
  BY AuthRefined, AcceptedVisible, PTL
<1>2. SpecAll => AnsweredNeverReturns
  BY AuthRefined, AnsweredStaysAway, PTL
<1>3. SpecAll => RefusalStaysInItsChannel
  BY AuthRefined, RefusalContained, PTL
<1>4. NoBoth => (SpecAll => []BearerHasItsConnection)
  BY AuthRefined, BearerPaired, PTL
<1>5. NoBoth => (SpecAll => ImplementsStore)
  BY AuthRefined, StoreImplemented, PTL
<1> QED BY <1>1, <1>2, <1>3, <1>4, <1>5

=============================================================================
