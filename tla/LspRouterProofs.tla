-------------------------- MODULE LspRouterProofs ---------------------------
(***************************************************************************)
(* Proofs about LspRouter and RouterCapabilities, for every number of      *)
(* servers, every choice of names and results, and any number of           *)
(* initialize requests.                                                    *)
(*                                                                         *)
(* What the router promises its client rests on three facts that every     *)
(* action preserves: the verdict the client was given is the verdict on    *)
(* the answers at hand (Told), what a server has left in the runtime agrees *)
(* with what it answers (Kept), and the answer to updateConfiguration      *)
(* agrees with the handlers (Settled).  What the router announces is read  *)
(* path by path (MergedFrom), one more server at a time.                   *)
(***************************************************************************)
EXTENDS RouterCapabilities, SequenceTheorems, WellFoundedInduction, TLAPS

Told ==
    /\ phase # "initializing" => \A s \in Servers : reply[s] # "waiting"
    /\ phase # "new" => \A s \in Servers : reply[s] # "none"
    /\ phase = "initialized" =>
        /\ \A s \in Servers : reply[s] = "ok"
        /\ ~findDuplicates(reply)

Kept ==
    /\ \A s \in Servers : reply[s] = "waiting" => s \notin Passive
    /\ \A s \in Servers \ Passive : reply[s] = "ok" => s \in ready
    /\ \A s \in Servers : router[s] # NoName => s \notin Passive /\ router[s] = named[s]
    /\ \A n \in shown : n.name # NoName /\ router[n.from] = n.name

Settled ==
    /\ answer = "null" => \A s \in Updaters : update[s] = "applied"
    /\ answer = "pending" => \A s \in Updaters : update[s] # "nothing"

IInv == TypeOK /\ Told /\ Kept /\ Settled

-----------------------------------------------------------------------------
(* TypeOK holds initially and is preserved by every handler.               *)
LEMMA TypeInit == Init => TypeOK
<1> SUFFICES ASSUME Init PROVE TypeOK
  OBVIOUS
<1> USE DEF Init
<1>1. NoServer \in 0 .. N
  BY NAssumption DEF NoServer
<1>2. followup \in [from : 0 .. N, to : SUBSET Servers, in : Phases]
  BY <1>1 DEF Phases
<1>3. rounds \in 0 .. MaxInitializes
  BY BoundAssumption
<1>4. running \in [Commands -> 0 .. N]
  BY <1>1
<1>5. shows \in BOOLEAN
  OBVIOUS
<1> QED
  BY <1>2, <1>3, <1>4, <1>5 DEF TypeOK, Phases

(* Every set of natural numbers has a smallest one.                        *)
LEMMA Smallest ==
    ASSUME NEW S \in SUBSET Nat, S # {}
    PROVE  \E s \in S : \A t \in S : s <= t
<1>1. PICK s \in S : \A t \in S : ~(<<t, s>> \in OpToRel(<, Nat))
  BY NatLessThanWellFounded, WFMin, Zenon
<1>2. \A t \in S : s <= t
  <2> TAKE t \in S
  <2>1. s \in Nat /\ t \in Nat
    OBVIOUS
  <2>2. ~(t < s)
    BY <1>1, <2>1 DEF OpToRel
  <2> QED
    BY <2>1, <2>2
<1> QED
  BY <1>2

(* The first capable server is one of them, and no later than the others.  *)
LEMMA FirstCapableIsFirst ==
    ASSUME NEW c \in Commands, ready \subseteq Servers, Capable(c) # {}
    PROVE  /\ FirstCapable(c) \in Capable(c)
           /\ \A t \in Capable(c) : FirstCapable(c) <= t
<1>1. Capable(c) \in SUBSET Nat
  <2>1. Servers \subseteq Nat
    BY NAssumption DEF Servers
  <2> QED
    BY <2>1 DEF Capable
<1>2. \E s \in Capable(c) : \A t \in Capable(c) : s <= t
  BY <1>1, Smallest
<1> QED
  BY <1>2 DEF FirstCapable

(* The verdict is one of three.                                            *)
LEMMA VerdictType ==
    ASSUME NEW replies
    PROVE  Verdict(replies) \in {"initializing", "refused", "initialized"}
  BY DEF Verdict

LEMMA TypeStep == TypeOK /\ [Next]_vars => TypeOK'
<1> SUFFICES ASSUME TypeOK, [Next]_vars PROVE TypeOK'
  OBVIOUS
<1> USE DEF TypeOK, init, notif, commands, config
<1>1. CASE Initialize
  <2>1. reply' \in [Servers -> {"none", "waiting", "ok", "error"}]
    BY <1>1 DEF Initialize
  <2>2. rounds' \in 0 .. MaxInitializes
    BY <1>1, BoundAssumption DEF Initialize
  <2>3. phase' \in Phases
    BY <1>1, VerdictType DEF Initialize, Phases
  <2>4. shows' \in BOOLEAN
    BY <1>1, Zenon DEF Initialize
  <2> QED
    BY <1>1, <2>1, <2>2, <2>3, <2>4 DEF Initialize
<1>2. ASSUME NEW s \in Servers, ServerInitialized(s) PROVE TypeOK'
  <2>1. phase' \in Phases
    BY <1>2, VerdictType DEF ServerInitialized, Phases
  <2> QED
    BY <1>2, <2>1 DEF ServerInitialized
<1>3. ASSUME NEW s \in Servers, ServerRefuses(s) PROVE TypeOK'
  <2>1. phase' \in Phases
    BY <1>3, VerdictType DEF ServerRefuses, Phases
  <2> QED
    BY <1>3, <2>1 DEF ServerRefuses
<1>4. ASSUME NEW s \in Servers, ShowNotification(s) PROVE TypeOK'
  BY <1>4 DEF ShowNotification
<1>5. ASSUME NEW n \in shown, Followup(n) PROVE TypeOK'
  <2>1. n.from \in 0 .. N
    BY NAssumption DEF Servers
  <2> QED
    BY <1>5, <2>1 DEF Followup, Addressees
<1>6. ASSUME NEW c \in Commands, ExecuteCommand(c) PROVE TypeOK'
  <2>1. Capable(c) # {} /\ ready \subseteq Servers
    BY <1>6 DEF ExecuteCommand
  <2>2. FirstCapable(c) \in Capable(c)
    BY <2>1, FirstCapableIsFirst
  <2>3. FirstCapable(c) \in Servers
    BY <2>1, <2>2 DEF Capable
  <2>4. FirstCapable(c) \in 0 .. N
    BY <2>3, NAssumption DEF Servers
  <2> QED
    BY <1>6, <2>4 DEF ExecuteCommand
<1>7. ASSUME NEW c \in Commands, CommandDone(c) PROVE TypeOK'
  BY <1>7, NAssumption DEF CommandDone, NoServer
<1>8. CASE UpdateConfiguration
  BY <1>8 DEF UpdateConfiguration
<1>9. ASSUME NEW s \in Servers, UpdateStep(s) PROVE TypeOK'
  BY <1>9 DEF UpdateStep, UpdateAnswered, UpdateThrows, Collected
<1>10. ASSUME NEW s \in Servers, SetExecuteCommandHandler(s) PROVE TypeOK'
  BY <1>10 DEF SetExecuteCommandHandler
<1>11. CASE UNCHANGED vars
  BY <1>11 DEF vars
<1> QED
  BY <1>1, <1>2, <1>3, <1>4, <1>5, <1>6, <1>7, <1>8, <1>9, <1>10, <1>11 DEF Next

(* The state always has its type: all the router's tables hold servers it  *)
(* knows and answers it can give.                                          *)
THEOREM TypeCorrect == Spec => []TypeOK
  BY TypeInit, TypeStep, PTL DEF Spec

-----------------------------------------------------------------------------
(* The verdict on complete answers.                                        *)
LEMMA VerdictTells ==
    ASSUME NEW replies \in [Servers -> {"none", "waiting", "ok", "error"}],
           \A s \in Servers : replies[s] # "none"
    PROVE  /\ Verdict(replies) # "initializing" => \A s \in Servers : replies[s] # "waiting"
           /\ Verdict(replies) = "initialized" =>
                /\ \A s \in Servers : replies[s] = "ok"
                /\ ~findDuplicates(replies)
<1>1. CASE \E s \in Servers : replies[s] = "waiting"
  BY <1>1 DEF Verdict
<1>2. CASE ~(\E s \in Servers : replies[s] = "waiting") /\
           ((\E s \in Servers : replies[s] = "error") \/ findDuplicates(replies))
  BY <1>2 DEF Verdict
<1>3. CASE /\ ~(\E s \in Servers : replies[s] = "waiting")
           /\ ~(\E s \in Servers : replies[s] = "error")
           /\ ~findDuplicates(replies)
  <2>1. \A s \in Servers : replies[s] = "ok"
    BY <1>3
  <2> QED
    BY <1>3, <2>1 DEF Verdict
<1> QED
  BY <1>1, <1>2, <1>3

(* Told is preserved: only initialize and its answers change the verdict.  *)
LEMMA ToldStep == TypeOK /\ Told /\ [Next]_vars => Told'
<1> SUFFICES ASSUME TypeOK, Told, [Next]_vars PROVE Told'
  OBVIOUS
<1>a. ASSUME reply' \in [Servers -> {"none", "waiting", "ok", "error"}],
             \A s \in Servers : reply'[s] # "none",
             phase' = Verdict(reply'), named' = named
      PROVE  Told'
  <2>1. findDuplicates(reply)' = findDuplicates(reply')
    BY <1>a DEF findDuplicates, Named
  <2>2. phase' # "new"
    BY <1>a, VerdictType
  <2> QED
    BY <1>a, <2>1, <2>2, VerdictTells DEF Told
<1>b. ASSUME UNCHANGED <<named, phase, reply>> PROVE Told'
  BY <1>b DEF Told, findDuplicates, Named
<1>1. CASE Initialize
  BY <1>1, <1>a DEF Initialize
<1>2. ASSUME NEW s \in Servers, ServerInitialized(s) \/ ServerRefuses(s) PROVE Told'
  <2>1. phase # "new"
    BY <1>2 DEF ServerInitialized, ServerRefuses, Told
  <2>2. /\ reply' \in [Servers -> {"none", "waiting", "ok", "error"}]
        /\ \A t \in Servers : reply'[t] # "none"
    BY <1>2, <2>1 DEF ServerInitialized, ServerRefuses, Told, TypeOK
  <2> QED
    BY <1>2, <2>2, <1>a DEF ServerInitialized, ServerRefuses
<1>3. CASE \/ \E s \in Servers : ShowNotification(s)
           \/ \E n \in shown : Followup(n)
           \/ \E s \in Servers : SetExecuteCommandHandler(s)
           \/ \E c \in Commands : ExecuteCommand(c) \/ CommandDone(c)
           \/ UpdateConfiguration
           \/ \E s \in Servers : UpdateStep(s)
           \/ UNCHANGED vars
  BY <1>3, <1>b DEF ShowNotification, Followup, SetExecuteCommandHandler, ExecuteCommand,
                    CommandDone, UpdateConfiguration, UpdateStep, UpdateAnswered, UpdateThrows,
                    vars, init
<1> QED
  BY <1>1, <1>2, <1>3 DEF Next

(* Kept is preserved: what a server leaves behind is what it answered.     *)
LEMMA KeptStep == TypeOK /\ Kept /\ [Next]_vars => Kept'
<1> SUFFICES ASSUME TypeOK, Kept, [Next]_vars PROVE Kept'
  OBVIOUS
<1>1. CASE Initialize
  BY <1>1 DEF Initialize, Kept, notif, TypeOK
<1>2. ASSUME NEW s \in Servers, ServerInitialized(s) PROVE Kept'
  <2>1. s \notin Passive
    BY <1>2 DEF ServerInitialized, Kept
  <2>2. \A t \in Servers : router[t] # NoName => router'[t] = router[t]
    BY <1>2 DEF ServerInitialized, Kept, TypeOK
  <2>3. \A t \in Servers : router'[t] # NoName => t \notin Passive /\ router'[t] = named'[t]
    BY <1>2, <2>1 DEF ServerInitialized, Kept, TypeOK
  <2>4. \A t \in Servers : reply'[t] = "waiting" => t \notin Passive
    BY <1>2 DEF ServerInitialized, Kept, TypeOK
  <2>5. \A t \in Servers \ Passive : reply'[t] = "ok" => t \in ready'
    BY <1>2 DEF ServerInitialized, Kept, TypeOK
  <2>6. \A n \in shown' : n.name # NoName /\ router'[n.from] = n.name
    BY <1>2, <2>2 DEF ServerInitialized, Kept, TypeOK, notif
  <2> QED
    BY <2>3, <2>4, <2>5, <2>6 DEF Kept
<1>3. ASSUME NEW s \in Servers, ServerRefuses(s) PROVE Kept'
  BY <1>3 DEF ServerRefuses, Kept, TypeOK, notif
<1>4. ASSUME NEW s \in Servers, ShowNotification(s) PROVE Kept'
  BY <1>4 DEF ShowNotification, Kept, TypeOK, init
<1>5. CASE \/ \E n \in shown : Followup(n)
           \/ \E s \in Servers : SetExecuteCommandHandler(s)
           \/ \E c \in Commands : ExecuteCommand(c) \/ CommandDone(c)
           \/ UpdateConfiguration
           \/ \E s \in Servers : UpdateStep(s)
           \/ UNCHANGED vars
  BY <1>5 DEF Followup, SetExecuteCommandHandler, ExecuteCommand, CommandDone,
              UpdateConfiguration, UpdateStep, UpdateAnswered, UpdateThrows, vars, init, notif, Kept
<1> QED
  BY <1>1, <1>2, <1>3, <1>4, <1>5 DEF Next

(* Settled is preserved: an answer is collected from all handlers.         *)
LEMMA SettledStep == TypeOK /\ Settled /\ [Next]_vars => Settled'
<1> SUFFICES ASSUME TypeOK, Settled, [Next]_vars PROVE Settled'
  OBVIOUS
<1>1. CASE UpdateConfiguration
  BY <1>1, ServersAssumption DEF UpdateConfiguration, Settled
<1>2. ASSUME NEW s \in Servers, NEW result \in {"applied", "failed"},
             UpdateAnswered(s, result)
      PROVE  Settled'
  <2>1. \A t \in Updaters : update[t] = "applied" => update'[t] \in {"applied", result} /\ t # s
    BY <1>2, ServersAssumption DEF UpdateAnswered, TypeOK
  <2>2. \A t \in Updaters : t # s => update'[t] = update[t]
    BY <1>2, ServersAssumption DEF UpdateAnswered, TypeOK
  <2>3. CASE answer # "pending"
    BY <1>2, <2>1, <2>2, <2>3 DEF UpdateAnswered, Settled
  <2>4. CASE answer = "pending"
    <3>1. \A t \in Updaters : update'[t] \in {"running", "applied", "failed"}
      BY <1>2, <2>4, ServersAssumption DEF UpdateAnswered, Settled, TypeOK
    <3>2. answer' = Collected(update')
      BY <1>2, <2>4 DEF UpdateAnswered
    <3>3. answer' = "null" => \A t \in Servers : update'[t] \notin {"running", "failed"}
      BY <3>2 DEF Collected
    <3> QED
      BY <3>1, <3>3, ServersAssumption DEF Settled
  <2> QED
    BY <2>3, <2>4
<1>3. ASSUME NEW s \in Servers, UpdateThrows(s) PROVE Settled'
  BY <1>3, ServersAssumption DEF UpdateThrows, Settled, TypeOK
<1>4. CASE \/ Initialize
           \/ \E s \in Servers : ServerInitialized(s) \/ ServerRefuses(s)
           \/ \E s \in Servers : ShowNotification(s)
           \/ \E n \in shown : Followup(n)
           \/ \E s \in Servers : SetExecuteCommandHandler(s)
           \/ \E c \in Commands : ExecuteCommand(c) \/ CommandDone(c)
           \/ UNCHANGED vars
  BY <1>4 DEF Initialize, ServerInitialized, ServerRefuses, ShowNotification,
              Followup, SetExecuteCommandHandler, ExecuteCommand, CommandDone, vars, config, Settled
<1> QED
  BY <1>1, <1>2, <1>3, <1>4 DEF Next, UpdateStep

(* The three facts hold together with the types.                           *)
LEMMA Invariance == Spec => []IInv
<1>1. Init => IInv
  <2>1. Init => Told /\ Kept /\ Settled
    BY DEF Init, Told, Kept, Settled
  <2> QED
    BY <2>1, TypeInit DEF IInv
<1>2. IInv /\ [Next]_vars => IInv'
  BY TypeStep, ToldStep, KeptStep, SettledStep DEF IInv
<1> QED
  BY <1>1, <1>2, PTL DEF Spec

-----------------------------------------------------------------------------
(* The client hears of success only when every handler has applied the     *)
(* update (UpdateSucceedsAsAWhole).                                        *)
THEOREM UpdateIsWhole == Spec => []UpdateSucceedsAsAWhole
<1>1. IInv => UpdateSucceedsAsAWhole
  BY DEF IInv, Settled, UpdateSucceedsAsAWhole
<1> QED
  BY <1>1, Invariance, PTL

(* In an initialized runtime a follow-up reaches its sender and no other   *)
(* (FollowupGoesHome): names left over from refused initialize requests    *)
(* are the names the servers still answer with, and those are distinct.    *)
THEOREM FollowupsReturn == Spec => []FollowupGoesHome
<1>1. Init => FollowupGoesHome
  BY DEF Init, FollowupGoesHome
<1>2. IInv /\ FollowupGoesHome /\ [Next]_vars => FollowupGoesHome'
  <2> SUFFICES ASSUME IInv, FollowupGoesHome, [Next]_vars PROVE FollowupGoesHome'
    OBVIOUS
  <2>1. ASSUME NEW n \in shown, Followup(n), phase = "initialized"
        PROVE  Addressees(n.name) = {n.from}
    <3>1. n.from \in Servers /\ n.name # NoName /\ router[n.from] = n.name
      BY DEF IInv, Kept, TypeOK
    <3>2. ASSUME NEW s \in Servers, router[s] = n.name PROVE s = n.from
      <4>1. /\ s \in Servers \ Passive /\ named[s] = n.name
            /\ n.from \in Servers \ Passive /\ named[n.from] = n.name
        BY <3>1, <3>2 DEF IInv, Kept
      <4>2. s \in Named(reply) /\ n.from \in Named(reply)
        BY <2>1, <3>1, <4>1 DEF IInv, Told, Named
      <4>3. ~findDuplicates(reply)
        BY <2>1 DEF IInv, Told
      <4> QED
        BY <4>1, <4>2, <4>3 DEF findDuplicates
    <3> QED
      BY <3>1, <3>2 DEF Addressees
  <2>2. ASSUME NEW n \in shown, Followup(n) PROVE FollowupGoesHome'
    <3>1. followup' = [from |-> n.from, to |-> Addressees(n.name), in |-> phase]
      BY <2>2 DEF Followup
    <3> QED
      BY <3>1, <2>1, <2>2 DEF FollowupGoesHome
  <2>3. ASSUME followup' = followup PROVE FollowupGoesHome'
    BY <2>3 DEF FollowupGoesHome
  <2> QED
    BY <2>2, <2>3 DEF Next, Initialize, ServerInitialized, ServerRefuses, ShowNotification,
         SetExecuteCommandHandler, ExecuteCommand, CommandDone, UpdateConfiguration,
         UpdateStep, UpdateAnswered,
         UpdateThrows, vars, init, notif
<1> QED
  BY <1>1, <1>2, Invariance, PTL DEF Spec

(* A command goes to the first of all servers that claim it and have a     *)
(* handler (StableRouting): in an initialized runtime every server is      *)
(* ready, and registering changes nothing for who runs a command already.  *)
THEOREM RoutingIsStable == Spec => StableRouting
<1>1. IInv /\ [Next]_vars => RoutesToFirst
  <2> SUFFICES ASSUME IInv, [Next]_vars, NEW c \in Commands, NEW s \in executors \ Passive,
                      phase = "initialized", c \in Claims[s],
                      running[c] = NoServer, running'[c] # NoServer
               PROVE  running'[c] <= s
    BY DEF RoutesToFirst
  <2>1. ExecuteCommand(c)
    <3>1. ASSUME NEW d \in Commands, CommandDone(d) PROVE FALSE
      BY <3>1 DEF CommandDone, IInv, TypeOK
    <3>2. ASSUME NEW d \in Commands, ExecuteCommand(d) PROVE d = c
      BY <3>2 DEF ExecuteCommand, IInv, TypeOK
    <3>3. running' # running
      OBVIOUS
    <3> QED
      BY <3>1, <3>2, <3>3 DEF Next, Initialize, ServerInitialized, ServerRefuses,
           ShowNotification, Followup, SetExecuteCommandHandler, UpdateConfiguration, UpdateStep,
           UpdateAnswered, UpdateThrows, vars, commands
  <2>2. s \in Capable(c) /\ ready \subseteq Servers
    BY DEF IInv, Told, Kept, TypeOK, Capable
  <2>3. FirstCapable(c) <= s
    BY <2>2, FirstCapableIsFirst
  <2>4. running'[c] = FirstCapable(c)
    BY <2>1 DEF ExecuteCommand, IInv, TypeOK
  <2> QED
    BY <2>3, <2>4
<1> QED
  BY <1>1, Invariance, PTL DEF Spec, StableRouting

-----------------------------------------------------------------------------
(* The capabilities that the client is told.  Merged is a function of the  *)
(* servers that have answered, and what is said of it needs induction over *)
(* their number; the induction theorem of the library takes an operator,   *)
(* this one a set.                                                         *)

(* Induction over the natural numbers.                                     *)
LEMMA Induction ==
    ASSUME NEW T, 0 \in T, \A n \in Nat : n \in T => n + 1 \in T
    PROVE  Nat \subseteq T
<1> SUFFICES ASSUME Nat \ T # {} PROVE FALSE
  OBVIOUS
<1>1. PICK n \in Nat \ T : \A m \in Nat \ T : n <= m
  BY Smallest
<1>2. n # 0 /\ n - 1 \in Nat
  BY <1>1
<1>3. n - 1 \in T
  BY <1>1, <1>2
<1> QED
  BY <1>1, <1>2, <1>3

(* Some servers have a last one.                                           *)
LEMMA LastServer ==
    ASSUME NEW S \in SUBSET Servers, S # {}
    PROVE  \E t \in S : \A u \in S : u <= t
<1> DEFINE T == { N - s : s \in S }
<1>1. N \in Nat /\ \A s \in S : s \in Nat /\ s <= N
  BY NAssumption DEF Servers
<1>2. \A s \in S : N - s \in Nat
  BY <1>1
<1>3. T \in SUBSET Nat /\ T # {}
  BY <1>2
<1>4. PICK m \in T : \A n \in T : m <= n
  BY <1>3, Smallest
<1>5. PICK t \in S : m = N - t
  BY <1>4
<1>6. ASSUME NEW u \in S PROVE u <= t
  <2>1. N - t <= N - u
    BY <1>4, <1>5
  <2> QED
    BY <1>1, <2>1
<1> QED
  BY <1>6

-----------------------------------------------------------------------------
(* Merging two results.                                                    *)

(* Where no scalar of the second one is above, both are found.             *)
LEMMA MergeAt ==
    ASSUME NEW a, NEW b, NEW p, \A q \in Above(p) : At(b, q).type # "scalar"
    PROVE  /\ p \in DOMAIN mergeObjects(a, b) <=> p \in DOMAIN a \/ p \in DOMAIN b
           /\ At(mergeObjects(a, b), p) =
                IF p \notin DOMAIN a THEN At(b, p)
                ELSE IF p \notin DOMAIN b THEN a[p]
                ELSE Meet(a[p], b[p])
<1> DEFINE kept == { q \in DOMAIN a : \A r \in Above(q) : At(b, r).type # "scalar" }
<1>1. p \in kept <=> p \in DOMAIN a
  OBVIOUS
<1>2. mergeObjects(a, b) =
        [ q \in kept \cup DOMAIN b |->
              IF q \notin kept THEN b[q]
              ELSE IF q \notin DOMAIN b THEN a[q]
              ELSE Meet(a[q], b[q]) ]
  BY DEF mergeObjects
<1> HIDE DEF kept
<1>3. kept \subseteq DOMAIN a
  BY DEF kept
<1> QED
  BY <1>1, <1>2, <1>3 DEF At

(* Where neither has a scalar the outcome has none.                        *)
LEMMA MergeNoScalar ==
    ASSUME NEW a, NEW b, NEW p, At(a, p).type # "scalar", At(b, p).type # "scalar"
    PROVE  At(mergeObjects(a, b), p).type # "scalar"
<1> DEFINE kept == { q \in DOMAIN a : \A r \in Above(q) : At(b, r).type # "scalar" }
<1>1. mergeObjects(a, b) =
        [ q \in kept \cup DOMAIN b |->
              IF q \notin kept THEN b[q]
              ELSE IF q \notin DOMAIN b THEN a[q]
              ELSE Meet(a[q], b[q]) ]
  BY DEF mergeObjects
<1>2. kept \subseteq DOMAIN a
  OBVIOUS
<1> HIDE DEF kept
<1>3. CASE p \notin kept \cup DOMAIN b
  <2>1. At(mergeObjects(a, b), p) = Undefined
    BY <1>1, <1>3 DEF At
  <2> QED
    BY <2>1 DEF Undefined
<1>4. CASE p \in kept \cup DOMAIN b
  <2>1. At(mergeObjects(a, b), p) \in {a[p], b[p], Meet(a[p], b[p])}
    BY <1>1, <1>4 DEF At
  <2>2. p \in kept => a[p].type # "scalar"
    BY <1>2 DEF At
  <2>3. p \in DOMAIN b => b[p].type # "scalar"
    BY DEF At
  <2>4. p \in kept /\ p \in DOMAIN b => Meet(a[p], b[p]).type # "scalar"
    BY <2>2, <2>3 DEF Meet, List, Object
  <2> QED
    BY <1>1, <1>4, <2>2, <2>3, <2>4 DEF At
<1> QED
  BY <1>3, <1>4

(* A scalar of the second one stands.                                      *)
LEMMA MergeScalar ==
    ASSUME NEW a, NEW b, NEW p \in DOMAIN b, b[p].type = "scalar"
    PROVE  At(mergeObjects(a, b), p) = b[p]
<1> DEFINE kept == { q \in DOMAIN a : \A r \in Above(q) : At(b, r).type # "scalar" }
<1>1. mergeObjects(a, b) =
        [ q \in kept \cup DOMAIN b |->
              IF q \notin kept THEN b[q]
              ELSE IF q \notin DOMAIN b THEN a[q]
              ELSE Meet(a[q], b[q]) ]
  BY DEF mergeObjects
<1> HIDE DEF kept
<1>2. Meet(a[p], b[p]) = b[p]
  BY DEF Meet
<1> QED
  BY <1>1, <1>2 DEF At

-----------------------------------------------------------------------------
(* Merging the results of some servers, the last one first.                *)

(* The servers of S that have something at the path of a list, what they   *)
(* have there, and whether an empty list behind another one swallows it.   *)
Listed(S, path) == { s \in S : path \in DOMAIN results[s] }

Joined(L, path) == UNION { Items(results[s][path]) : s \in L }

SwallowedIn(L, path) ==
    \E s, t \in L : s < t /\ (\A u \in L : u <= t) /\ Items(results[t][path]) = {}

(* What is to be found at the path of a list that the servers L have.      *)
Expected(L, path) ==
    IF SwallowedIn(L, path) THEN Object ELSE List(Joined(L, path))

(* The results of the servers S are merged in acc, as far as lists go.     *)
MergedFrom(acc, S) ==
    \A path \in Lists :
        /\ path \in DOMAIN acc <=> Listed(S, path) # {}
        /\ path \in DOMAIN acc => acc[path] = Expected(Listed(S, path), path)
        /\ \A q \in Above(path) : At(acc, q).type # "scalar"

(* One more list, of a server before the others.                           *)
LEMMA ExpectedStep ==
    ASSUME NEW path, NEW L \in SUBSET Servers, L # {},
           NEW s \in Servers, \A t \in L : s < t,
           NEW node, node = List(Items(results[s][path]))
    PROVE  Expected(L \cup {s}, path) = Meet(Expected(L, path), node)
<1> DEFINE M == L \cup {s}
<1>0. Servers \subseteq Nat
  BY NAssumption DEF Servers
<1>1. PICK t \in L : \A u \in L : u <= t
  BY LastServer
<1>2. \A u \in M : u <= t
  BY <1>0, <1>1
<1>3. Joined(M, path) = Joined(L, path) \cup Items(results[s][path])
  BY DEF Joined
<1>4. ASSUME NEW K \in {L, M}, NEW v \in K, \A u \in K : u <= v PROVE v = t
  BY <1>0, <1>1, <1>2, <1>4
<1>5. SwallowedIn(M, path) <=> Items(results[t][path]) = {}
  <2>1. ASSUME SwallowedIn(M, path) PROVE Items(results[t][path]) = {}
    BY <1>4, <2>1 DEF SwallowedIn
  <2>2. ASSUME Items(results[t][path]) = {} PROVE SwallowedIn(M, path)
    BY <1>2, <2>2 DEF SwallowedIn
  <2> QED BY <2>1, <2>2
<1>6. CASE SwallowedIn(L, path)
  <2>1. Items(results[t][path]) = {}
    BY <1>4, <1>6 DEF SwallowedIn
  <2> QED
    BY <1>5, <1>6, <2>1 DEF Expected, Meet, Object, List
<1>7. CASE ~SwallowedIn(L, path) /\ Joined(L, path) = {}
  <2>1. Items(results[t][path]) = {}
    BY <1>7 DEF Joined
  <2> QED
    BY <1>5, <1>7, <2>1 DEF Expected, Meet, Object, List
<1>8. CASE ~SwallowedIn(L, path) /\ Joined(L, path) # {}
  <2>1. Items(results[t][path]) # {}
    <3> SUFFICES ASSUME Items(results[t][path]) = {} PROVE FALSE
      OBVIOUS
    <3>1. \A u \in L : u = t
      <4> SUFFICES ASSUME NEW u \in L, u # t PROVE FALSE
        OBVIOUS
      <4>1. u < t
        BY <1>0, <1>1
      <4> QED
        BY <1>1, <1>8, <4>1 DEF SwallowedIn
    <3> QED
      BY <1>8, <3>1 DEF Joined
  <2>2. Expected(M, path) = List(Joined(L, path) \cup Items(results[s][path]))
    BY <1>3, <1>5, <2>1 DEF Expected
  <2>3. Expected(L, path) = List(Joined(L, path))
    BY <1>8 DEF Expected
  <2> QED
    BY <1>8, <2>2, <2>3 DEF Meet, List
<1> QED
  BY <1>6, <1>7, <1>8

(* The result of one more server, before the others.                       *)
LEMMA MergeOne ==
    ASSUME results \in Possible,
           NEW S \in SUBSET (Servers \ Passive),
           NEW s \in Servers \ Passive, \A t \in S : s < t,
           NEW acc, MergedFrom(acc, S)
    PROVE  MergedFrom(mergeObjects(acc, results[s]), S \cup {s})
<1> SUFFICES ASSUME NEW path \in Lists
             PROVE  /\ path \in DOMAIN mergeObjects(acc, results[s]) <=> Listed(S \cup {s}, path) # {}
                    /\ path \in DOMAIN mergeObjects(acc, results[s]) =>
                           mergeObjects(acc, results[s])[path] = Expected(Listed(S \cup {s}, path), path)
                    /\ \A q \in Above(path) : At(mergeObjects(acc, results[s]), q).type # "scalar"
  BY DEF MergedFrom
<1> DEFINE new == mergeObjects(acc, results[s])
           L == Listed(S, path)
<1>1. /\ path \in DOMAIN results[s] => results[s][path] = List(Items(results[s][path]))
      /\ \A q \in Above(path) : At(results[s], q).type # "scalar"
  BY TypesAssumption
<1>2. /\ path \in DOMAIN acc <=> L # {}
      /\ path \in DOMAIN acc => acc[path] = Expected(L, path)
      /\ \A q \in Above(path) : At(acc, q).type # "scalar"
  BY DEF MergedFrom
<1>3. \A q \in Above(path) : At(new, q).type # "scalar"
  BY <1>1, <1>2, MergeNoScalar
<1>4. path \in DOMAIN new <=> path \in DOMAIN acc \/ path \in DOMAIN results[s]
  BY <1>1, MergeAt
<1>5. path \in DOMAIN new =>
        new[path] = IF path \notin DOMAIN acc THEN results[s][path]
                    ELSE IF path \notin DOMAIN results[s] THEN acc[path]
                    ELSE Meet(acc[path], results[s][path])
  BY <1>1, <1>4, MergeAt DEF At
<1> HIDE DEF new
<1>6. CASE path \notin DOMAIN results[s]
  <2>1. Listed(S \cup {s}, path) = L
    BY <1>6 DEF Listed
  <2> QED
    BY <1>2, <1>3, <1>4, <1>5, <1>6, <2>1 DEF new
<1>7. CASE path \in DOMAIN results[s]
  <2>1. Listed(S \cup {s}, path) = L \cup {s}
    BY <1>7 DEF Listed
  <2>2. L \in SUBSET Servers /\ \A t \in L : s < t
    BY DEF Listed
  <2>3. CASE L = {}
    <3>1. ~SwallowedIn({s}, path)
      <4>1. ~(s < s)
        BY NAssumption DEF Servers
      <4> QED
        BY <4>1 DEF SwallowedIn
    <3>2. Joined({s}, path) = Items(results[s][path])
      BY DEF Joined
    <3>3. Expected(L \cup {s}, path) = results[s][path]
      <4>1. L \cup {s} = {s}
        BY <2>3
      <4> QED
        BY <1>1, <1>7, <3>1, <3>2, <4>1 DEF Expected
    <3> QED
      BY <1>2, <1>3, <1>4, <1>5, <1>7, <2>1, <2>3, <3>3 DEF new
  <2>4. CASE L # {}
    <3>1. Expected(L \cup {s}, path) = Meet(Expected(L, path), results[s][path])
      BY <1>1, <1>7, <2>2, <2>4, ExpectedStep
    <3> QED
      BY <1>2, <1>3, <1>4, <1>5, <1>7, <2>1, <2>4, <3>1 DEF new
  <2> QED
    BY <2>3, <2>4
<1> QED
  BY <1>6, <1>7

-----------------------------------------------------------------------------
(* All results, and the runtime's own.                                     *)

(* The servers among the last n that have answered.                        *)
Last(answered, n) == { s \in answered : N + 1 - n <= s }

(* The recursion of Merged, unfolded once.                                 *)
MergedLast(answered, last, n) ==
    IF n = 0 THEN Nothing
    ELSE IF N + 1 - n \in answered THEN mergeObjects(last[n - 1], results[N + 1 - n])
    ELSE last[n - 1]

IsMerge(answered, last, n) == last = [i \in 0 .. n |-> MergedLast(answered, last, i)]

(* The results are merged by a function that its own recursion defines.    *)
LEMMA MergeExists ==
    ASSUME NEW answered
    PROVE  \A n \in Nat : \E last : IsMerge(answered, last, n)
<1> DEFINE Fine == { n \in Nat : \E last : IsMerge(answered, last, n) }
<1>1. 0 \in Fine
  <2>1. PICK last : last = [i \in 0 .. 0 |-> Nothing]
    OBVIOUS
  <2>2. IsMerge(answered, last, 0)
    BY <2>1 DEF IsMerge, MergedLast
  <2> QED
    BY <2>2
<1>2. ASSUME NEW n \in Nat, n \in Fine PROVE n + 1 \in Fine
  <2>1. PICK last : IsMerge(answered, last, n)
    BY <1>2
  <2>2. PICK more : more = [i \in 0 .. n + 1 |->
                              IF i = n + 1 THEN MergedLast(answered, last, i) ELSE last[i]]
    OBVIOUS
  <2>3. ASSUME NEW i \in 0 .. n + 1 PROVE more[i] = MergedLast(answered, more, i)
    <3>1. i # 0 => more[i - 1] = last[i - 1]
      BY <2>2
    <3>2. MergedLast(answered, more, i) = MergedLast(answered, last, i)
      BY <3>1 DEF MergedLast
    <3>3. CASE i = n + 1
      BY <2>2, <3>2, <3>3
    <3>4. CASE i # n + 1
      <4>1. i \in 0 .. n /\ more[i] = last[i]
        BY <2>2, <3>4
      <4> QED
        BY <2>1, <3>2, <4>1 DEF IsMerge
    <3> QED
      BY <3>3, <3>4
  <2>4. more = [i \in 0 .. n + 1 |-> more[i]]
    BY <2>2
  <2>5. IsMerge(answered, more, n + 1)
    BY <2>3, <2>4 DEF IsMerge
  <2> QED
    BY <2>5
<1>3. Nat \subseteq Fine
  <2> HIDE DEF Fine
  <2> QED
    BY <1>1, <1>2, Induction
<1> QED
  BY <1>3

(* The results of all that have answered, before the runtime's.            *)
LEMMA MergeAll ==
    ASSUME results \in Possible, NEW answered \in SUBSET (Servers \ Passive)
    PROVE  \E acc : /\ Merged(answered) = mergeObjects(acc, defaultResponse)
                    /\ MergedFrom(acc, answered)
<1>0. N \in Nat /\ Servers = 1 .. N
  BY NAssumption DEF Servers
<1> DEFINE f == CHOOSE last : IsMerge(answered, last, N)
<1>1. IsMerge(answered, f, N)
  BY <1>0, MergeExists
<1>2. Merged(answered) = mergeObjects(f[N], defaultResponse)
  BY DEF Merged, IsMerge, MergedLast
<1> HIDE DEF f
<1> DEFINE Fine == { n \in Nat : n <= N => MergedFrom(f[n], Last(answered, n)) }
<1>3. 0 \in Fine
  <2>1. f[0] = Nothing
    BY <1>0, <1>1 DEF IsMerge, MergedLast
  <2>2. Last(answered, 0) = {}
    <3>1. \A t \in answered : ~(N + 1 - 0 <= t)
      BY <1>0
    <3> QED
      BY <3>1 DEF Last
  <2>3. DOMAIN Nothing = {} /\ \A q : At(Nothing, q).type # "scalar"
    BY DEF Nothing, At, Undefined
  <2>4. MergedFrom(Nothing, {})
    BY <2>3 DEF MergedFrom, Listed
  <2> QED
    BY <2>1, <2>2, <2>4
<1>4. ASSUME NEW n \in Nat, n \in Fine PROVE n + 1 \in Fine
  <2> SUFFICES ASSUME n + 1 <= N PROVE MergedFrom(f[n + 1], Last(answered, n + 1))
    OBVIOUS
  <2> DEFINE s == N + 1 - (n + 1)
  <2>1. /\ s \in Servers /\ n + 1 \in 0 .. N /\ n + 1 # 0 /\ (n + 1) - 1 = n
        /\ N + 1 - n = s + 1
    BY <1>0
  <2>2. f[n + 1] = IF s \in answered THEN mergeObjects(f[n], results[s]) ELSE f[n]
    <3>1. f[n + 1] = MergedLast(answered, f, n + 1)
      BY <1>1, <2>1 DEF IsMerge
    <3>2. MergedLast(answered, f, n + 1) =
            IF N + 1 - (n + 1) \in answered
            THEN mergeObjects(f[(n + 1) - 1], results[N + 1 - (n + 1)])
            ELSE f[(n + 1) - 1]
      BY <2>1 DEF MergedLast
    <3>3. f[(n + 1) - 1] = f[n]
      BY <2>1
    <3> QED
      BY <3>1, <3>2, <3>3
  <2>3. MergedFrom(f[n], Last(answered, n))
    BY <1>0, <1>4
  <2>4. Last(answered, n + 1) = IF s \in answered THEN Last(answered, n) \cup {s}
                                ELSE Last(answered, n)
    <3>1. \A t \in answered : N + 1 - (n + 1) <= t <=> N + 1 - n <= t \/ t = s
      BY <1>0
    <3> QED
      BY <3>1 DEF Last
  <2>5. /\ Last(answered, n) \in SUBSET (Servers \ Passive)
        /\ \A t \in Last(answered, n) : s < t
    <3>1. \A t \in Servers : N + 1 - n <= t => s < t
      BY <1>0
    <3> QED
      BY <3>1 DEF Last
  <2> HIDE DEF s
  <2>6. CASE s \in answered
    BY <2>2, <2>3, <2>4, <2>5, <2>6, MergeOne
  <2>7. CASE s \notin answered
    BY <2>2, <2>3, <2>4, <2>7
  <2> QED
    BY <2>6, <2>7
<1>5. N \in Fine
  <2> HIDE DEF Fine
  <2> QED
    BY <1>0, <1>3, <1>4, Induction
<1>6. Last(answered, N) = answered
  <2>1. \A s \in answered : N + 1 - N <= s
    BY <1>0
  <2> QED
    BY <2>1 DEF Last
<1> QED
  BY <1>0, <1>2, <1>5, <1>6

(* The runtime's own result has nothing where servers have lists, and      *)
(* scalars where it speaks for itself.                                     *)
LEMMA DefaultMembers ==
    /\ \A path \in Lists :
          /\ path \notin DOMAIN defaultResponse
          /\ \A q \in Above(path) : At(defaultResponse, q).type # "scalar"
    /\ \A path \in OfRuntime :
          path \in DOMAIN defaultResponse /\ defaultResponse[path].type = "scalar"
<1> DEFINE M == {NamePath, OpenClosePath, ChangePath, IncludeTextPath}
           members == [ path \in M |->
                            CASE path = NamePath -> Scalar("runtime")
                              [] path = ChangePath -> Scalar("incremental")
                              [] OTHER -> Scalar(TRUE) ]
<1>1. DOMAIN members = M
  OBVIOUS
<1>2. \A p \in M : members[p].type = "scalar"
  BY DEF Scalar
<1>3. defaultResponse = Tree(members)
  BY DEF defaultResponse
<1> HIDE DEF members
<1>4. DOMAIN defaultResponse = {<<>>} \cup M \cup UNION { Above(p) : p \in M }
  BY <1>1, <1>3 DEF Tree
<1>5. \A p \in DOMAIN defaultResponse :
        IF p \in M THEN defaultResponse[p].type = "scalar" ELSE defaultResponse[p] = Object
  BY <1>1, <1>2, <1>3 DEF Tree
<1>6. ASSUME NEW p \in M, NEW q \in Above(p) PROVE q \notin Lists
  BY <1>6 DEF Above, Lists, CommandsPath, SectionsPath, TriggersPath, NamePath, OpenClosePath,
     ChangePath, IncludeTextPath
<1>7. \A path \in Lists : path \notin M /\ path # <<>>
  BY DEF Lists, CommandsPath, SectionsPath, TriggersPath, NamePath, OpenClosePath,
     ChangePath, IncludeTextPath
<1>8. ASSUME NEW path \in Lists, NEW q \in Above(path) PROVE q \notin M
  BY <1>8 DEF Above, Lists, CommandsPath, SectionsPath, TriggersPath, NamePath, OpenClosePath,
     ChangePath, IncludeTextPath
<1>9. OfRuntime = M
  BY DEF OfRuntime
<1>10. \A path \in Lists : path \notin DOMAIN defaultResponse
  BY <1>4, <1>6, <1>7
<1>11. \A path \in Lists : \A q \in Above(path) : At(defaultResponse, q).type # "scalar"
  BY <1>5, <1>8 DEF At, Object, Undefined
<1> HIDE DEF M
<1> QED
  BY <1>4, <1>5, <1>9, <1>10, <1>11

(* What is to be found in the outcome, where the servers have lists and    *)
(* where the runtime speaks for itself.                                    *)
LEMMA MergedAt ==
    ASSUME results \in Possible
    PROVE  /\ \A path \in Lists :
                 At(Merged(Servers \ Passive), path) =
                    IF Listing(path) = {} THEN Undefined ELSE Expected(Listing(path), path)
           /\ \A path \in OfRuntime :
                 At(Merged(Servers \ Passive), path) = At(defaultResponse, path)
<1>1. PICK acc : /\ Merged(Servers \ Passive) = mergeObjects(acc, defaultResponse)
                 /\ MergedFrom(acc, Servers \ Passive)
  BY MergeAll
<1>2. ASSUME NEW path \in Lists
      PROVE  At(Merged(Servers \ Passive), path) =
                IF Listing(path) = {} THEN Undefined ELSE Expected(Listing(path), path)
  <2>1. Listing(path) = Listed(Servers \ Passive, path)
    <3> SUFFICES ASSUME NEW s \in Servers \ Passive
                 PROVE  At(results[s], path).type = "list" <=> path \in DOMAIN results[s]
      BY DEF Listing, Listed
    <3>1. CASE path \in DOMAIN results[s]
      <4>1. At(results[s], path) = List(Items(results[s][path]))
        BY <3>1, TypesAssumption DEF At
      <4>2. \A items : List(items).type = "list"
        BY DEF List
      <4> QED
        BY <3>1, <4>1, <4>2
    <3>2. CASE path \notin DOMAIN results[s]
      BY <3>2 DEF At, Undefined
    <3> QED
      BY <3>1, <3>2
  <2>2. At(Merged(Servers \ Passive), path) = IF path \in DOMAIN acc THEN acc[path] ELSE Undefined
    <3>1. /\ path \notin DOMAIN defaultResponse
          /\ \A q \in Above(path) : At(defaultResponse, q).type # "scalar"
      BY DefaultMembers
    <3>2. At(mergeObjects(acc, defaultResponse), path) =
            IF path \notin DOMAIN acc THEN At(defaultResponse, path) ELSE acc[path]
      BY <3>1, MergeAt
    <3>3. At(defaultResponse, path) = Undefined
      BY <3>1 DEF At
    <3> QED
      BY <1>1, <3>2, <3>3
  <2> QED
    BY <1>1, <2>1, <2>2 DEF MergedFrom
<1>3. ASSUME NEW path \in OfRuntime
      PROVE  At(Merged(Servers \ Passive), path) = At(defaultResponse, path)
  <2>1. path \in DOMAIN defaultResponse /\ defaultResponse[path].type = "scalar"
    BY DefaultMembers
  <2>2. At(mergeObjects(acc, defaultResponse), path) = defaultResponse[path]
    BY <2>1, MergeScalar
  <2> QED
    BY <1>1, <2>1, <2>2 DEF At
<1> QED
  BY <1>2, <1>3

(* What is announced is what the servers claim, if it is not swallowed.    *)
LEMMA MergedItems ==
    ASSUME results \in Possible, NEW path \in Lists
    PROVE  Items(At(Merged(Servers \ Passive), path)) =
              IF Swallowed(path) THEN {} ELSE Claimed(Servers, path)
<1> DEFINE L == Listing(path)
<1>1. L \subseteq Servers \ Passive
  BY DEF Listing
<1>2. ASSUME NEW s \in L
      PROVE  /\ At(results[s], path) = results[s][path]
             /\ At(results[s], path).items = Items(results[s][path])
  BY <1>1 DEF Listing, At, Items, Undefined
<1>3. ASSUME NEW s \in Servers \ Passive, s \notin L PROVE Items(At(results[s], path)) = {}
  BY <1>3 DEF Listing, Items
<1>4. Swallowed(path) <=> SwallowedIn(L, path)
  BY <1>2 DEF Swallowed, SwallowedIn
<1>5. Claimed(Servers, path) = Joined(L, path)
  <2>1. \A s \in L : Items(At(results[s], path)) = Items(results[s][path])
    BY <1>2
  <2> HIDE DEF L
  <2> QED
    BY <1>1, <1>3, <2>1 DEF Joined, Claimed
<1>6. At(Merged(Servers \ Passive), path) = IF L = {} THEN Undefined ELSE Expected(L, path)
  BY MergedAt
<1> HIDE DEF L
<1>7. CASE L = {}
  BY <1>4, <1>5, <1>6, <1>7 DEF Joined, SwallowedIn, Items, Undefined
<1>8. CASE L # {} /\ Swallowed(path)
  BY <1>4, <1>6, <1>8 DEF Expected, Items, Object
<1>9. CASE L # {} /\ ~Swallowed(path)
  <2>1. At(Merged(Servers \ Passive), path) = List(Joined(L, path))
    BY <1>4, <1>6, <1>9 DEF Expected
  <2>2. \A items : Items(List(items)) = items
    BY DEF Items, List
  <2> QED
    BY <1>5, <1>9, <2>1, <2>2
<1> QED
  BY <1>7, <1>8, <1>9

-----------------------------------------------------------------------------
(* The router beside its capabilities is the router.                       *)
LEMMA CapRefined == SpecCap => Spec
<1>1. InitCap => Init
  BY DEF InitCap
<1>2. [NextCap]_varsCap => [Next]_vars
  BY DEF NextCap, varsCap
<1> QED
  BY <1>1, <1>2, PTL DEF SpecCap, Spec

(* The result kept is that of all the servers: an initialized runtime has  *)
(* heard from each of them.                                                *)
Announced ==
    /\ results \in Possible
    /\ ready \cap Passive = {}
    /\ phase = "initialized" => initializeResult = Merged(Servers \ Passive)

(* An initialized runtime has every server that can answer.                *)
LEMMA AllReady == IInv /\ Announced /\ phase = "initialized" => ready = Servers \ Passive
  BY DEF IInv, Announced, Told, Kept, TypeOK

(* The result is kept when the last answer comes, and then for good.       *)
LEMMA AnnouncedStep == IInv /\ IInv' /\ Announced /\ [NextCap]_varsCap => Announced'
<1> SUFFICES ASSUME IInv, IInv', Announced, [NextCap]_varsCap PROVE Announced'
  OBVIOUS
<1>1. ready' \cap Passive = {}
  <2>1. ASSUME NEW s \in Servers, ServerInitialized(s) PROVE ready' \cap Passive = {}
    BY <2>1 DEF ServerInitialized, IInv, Kept, Announced
  <2>2. CASE ready' = ready
    BY <2>2 DEF Announced
  <2> QED
    BY <2>1, <2>2 DEF NextCap, varsCap, Next, Initialize, ServerRefuses, ShowNotification,
         Followup, SetExecuteCommandHandler, ExecuteCommand, CommandDone, UpdateConfiguration,
         UpdateStep,
         UpdateAnswered, UpdateThrows, vars, init
<1>2. results' = results
  BY DEF NextCap, varsCap
<1>3. Merged(Servers \ Passive)' = Merged(Servers \ Passive)
  BY <1>2 DEF Merged
<1>4. ASSUME phase' = "initialized" PROVE initializeResult' = Merged(Servers \ Passive)
  <2>1. ready' = Servers \ Passive
    BY <1>1, <1>4 DEF IInv, Told, Kept, TypeOK
  <2>2. CASE UNCHANGED varsCap
    BY <1>4, <2>2 DEF varsCap, vars, init, Announced
  <2>3. CASE NextCap /\ phase # "initialized"
    BY <1>4, <2>1, <2>3 DEF NextCap
  <2>4. CASE NextCap /\ phase = "initialized"
    BY <2>4 DEF NextCap, Announced
  <2> QED
    BY <2>2, <2>3, <2>4
<1> QED
  BY <1>1, <1>2, <1>3, <1>4 DEF Announced

(* What the client is told is what the router does (AnnouncedAsClaimed),   *)
(* for every number of servers, every order of their answers and all       *)
(* results that have the types of the protocol.                            *)
THEOREM AnnouncedIsClaimed == SpecCap => []AnnouncedAsClaimed
<1>1. InitCap => Announced
  BY DEF InitCap, Init, Announced
<1>2. IInv /\ Announced => AnnouncedAsClaimed
  <2> SUFFICES ASSUME IInv, Announced, phase = "initialized" PROVE AnnouncedAsClaimed
    BY DEF AnnouncedAsClaimed
  <2> DEFINE announced(path) == Items(At(initializeResult, path))
  <2>1. /\ ready = Servers \ Passive /\ initializeResult = Merged(Servers \ Passive)
        /\ results \in Possible
    BY AllReady DEF Announced
  <2>2. \A path \in Lists :
          announced(path) = IF Swallowed(path) THEN {} ELSE Claimed(Servers, path)
    BY <2>1, MergedItems
  <2>3. \A path \in OfRuntime : At(initializeResult, path) = At(defaultResponse, path)
    BY <2>1, MergedAt
  <2>4. ASSUME NEW c \in Claimed(executors, CommandsPath) PROVE Capable(c) # {}
    <3>1. PICK s \in executors \ Passive : c \in Items(At(results[s], CommandsPath))
      BY <2>4 DEF Claimed
    <3>2. s \in ready
      BY <2>1, <3>1 DEF IInv, TypeOK
    <3>3. c \in Claims[s]
      BY <2>1, <3>1, <3>2, ResultsAssumption
    <3> QED
      BY <3>1, <3>2, <3>3 DEF Capable
  <2>5. ASSUME NEW c \in Claimed(Configurers, SectionsPath) PROVE ConfigurationOf(c) # {}
    <3>1. PICK s \in Configurers \ Passive : c \in Items(At(results[s], SectionsPath))
      BY <2>5 DEF Claimed
    <3>2. Configurable(c) # {}
      BY <2>1, <3>1, ConfigurersAssumption DEF Configurable
    <3>3. Configurable(c) \in SUBSET Nat
      BY <2>1, NAssumption DEF Configurable, Servers
    <3>4. \E t \in Configurable(c) : \A u \in Configurable(c) : t <= u
      BY <3>2, <3>3, Smallest
    <3> QED
      BY <3>4 DEF ConfigurationOf
  <2> QED
    BY <2>2, <2>3, <2>4, <2>5 DEF AnnouncedAsClaimed
<1> QED
  BY <1>1, <1>2, AnnouncedStep, CapRefined, Invariance, PTL DEF SpecCap

=============================================================================
