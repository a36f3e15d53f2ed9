--------------------------- MODULE WorkspaceProofs ---------------------------
(***************************************************************************)
(* Proofs about HandlerWiring and WorkspaceFolders, for any number of      *)
(* servers and documents.  NoneMissed holds because each document event    *)
(* has the observer as its handler as soon as it has a subscriber (Wired). *)
(* DocumentsFollowClient holds because the messages on their way lead from *)
(* the documents of the runtime to those of the client (OnTheWay), and     *)
(* FoldersFollowClient because they do the same for the folders (FInv).    *)
(***************************************************************************)
EXTENDS WorkspaceFolders, SequenceTheorems, FiniteSetTheorems, WellFoundedInduction, TLAPS

(* No handler of a document event goes straight to the connection, as in   *)
(* the standalone runtime.                                                 *)
Shared == Straight \cap DocEvents = {}

(* Every chat notification reaches its handler, and no two servers want    *)
(* the same one.                                                           *)
Alone ==
    /\ Noted \subseteq Straight
    /\ \A w, v \in Wishes : w[2] \in Noted /\ w[2] = v[2] => w[1] = v[1]

Wired ==
    /\ \A m \in DocEvents :
        /\ registered[m] \subseteq subs[m]
        /\ subs[m] # {} => slot[m] = Observer
        /\ listening => Documents \in subs[m]
    /\ \A m \in Fanned : slot[m] = Router
    /\ \A m \in Asked : registered[m] # {} => slot[m] \in Servers
    /\ Alone => \A m \in Noted : \A s \in registered[m] : slot[m] = s /\ <<s, m>> \in Wishes
    /\ wire # <<>> => listening

(* A path from the documents of the runtime to those of the client, along  *)
(* the messages that are on their way.                                     *)
IsPath(h) ==
    /\ h \in [0 .. Len(wire) -> [Docs -> 0 .. MaxVersion]]
    /\ h[0] = docs
    /\ h[Len(wire)] = client
    /\ \A i \in 1 .. Len(wire) : h[i] = Applied(wire[i], h[i - 1])

OnTheWay == \E h : IsPath(h)

WInv == TypeOK /\ Wired /\ (Alone => NoneMissed) /\ OnTheWay

-----------------------------------------------------------------------------
(* Induction and filter.  The induction theorems of the library take an    *)
(* operator; these take a set.                                             *)

(* What filter does with one more element.                                 *)
Kept(seq, wanted, f, i) ==
    IF i = 0 THEN <<>>
    ELSE IF seq[i] \in wanted THEN Append(f[i - 1], seq[i])
    ELSE f[i - 1]

IsFilter(seq, wanted, f, n) == f = [i \in 0 .. n |-> Kept(seq, wanted, f, i)]

(* What filter leaves of the first n elements, and where it is from.       *)
KeptOf(seq, wanted, n, out) ==
    \E at \in [1 .. Len(out) -> 1 .. n] :
        /\ \A k \in 1 .. Len(out) : out[k] = seq[at[k]] /\ seq[at[k]] \in wanted
        /\ \A j, k \in 1 .. Len(out) : at[j] = at[k] => j = k
        /\ \A i \in 1 .. n : seq[i] \in wanted => \E k \in 1 .. Len(out) : at[k] = i

(* Every set of natural numbers has a smallest one.                        *)
LEMMA Smallest ==
    ASSUME NEW T \in SUBSET Nat, T # {}
    PROVE  \E n \in T : \A m \in T : n <= m
<1> DEFINE Up == { 0 .. n : n \in T }
           Order == StrictSubsetOrdering(Nat)
<1>1. IsWellFoundedOn(Order, FiniteSubsetsOf(Nat))
  BY FS_StrictSubsetOrderingWellFounded
<1>2. Up \subseteq FiniteSubsetsOf(Nat) /\ Up # {}
    <2>1. ASSUME NEW n \in T PROVE 0 .. n \in FiniteSubsetsOf(Nat)
    <3>1. IsFiniteSet(0 .. n) /\ 0 .. n \in SUBSET Nat
      BY FS_Interval
    <3> QED BY <3>1 DEF FiniteSubsetsOf
  <2> QED BY <2>1
<1> HIDE DEF Order
<1>3. PICK U \in Up : \A V \in Up : <<V, U>> \notin Order
  <2> HIDE DEF Up
  <2> QED BY <1>1, <1>2, WFMin
<1>4. PICK n \in T : U = 0 .. n
  BY <1>3
<1>5. ASSUME NEW m \in T PROVE n <= m
  <2> SUFFICES ASSUME m < n PROVE FALSE
    OBVIOUS
  <2>1. 0 .. m \in Up /\ 0 .. m \in SUBSET Nat /\ 0 .. n \in SUBSET Nat
    OBVIOUS
  <2>2. 0 .. m \subseteq 0 .. n /\ n \in 0 .. n /\ n \notin 0 .. m
    OBVIOUS
  <2>3. <<0 .. m, 0 .. n>> \in Order
    BY <2>1, <2>2, Zenon DEF Order, StrictSubsetOrdering
  <2> QED BY <1>3, <1>4, <2>1, <2>3
<1> QED BY <1>5

(* Induction over the natural numbers.                                     *)
LEMMA Induction ==
    ASSUME NEW T, 0 \in T, \A n \in Nat : n \in T => n + 1 \in T
    PROVE  Nat \subseteq T
<1> SUFFICES ASSUME Nat \ T # {} PROVE FALSE
  OBVIOUS
<1>1. PICK n \in Nat \ T : \A m \in Nat \ T : n <= m
  BY Smallest
<1>2. n # 0 /\ n - 1 \in Nat
  BY <1>1
<1>3. n - 1 \in T
  BY <1>1, <1>2
<1> QED BY <1>1, <1>2, <1>3

(* filter is a function that its own recursion defines.                   *)
LEMMA FilterExists ==
    ASSUME NEW seq, NEW wanted
    PROVE  \A n \in Nat : \E f : IsFilter(seq, wanted, f, n)
<1> DEFINE Fine == { n \in Nat : \E f : IsFilter(seq, wanted, f, n) }
<1>1. 0 \in Fine
  <2>1. PICK f : f = [i \in 0 .. 0 |-> <<>>]
    OBVIOUS
  <2>2. IsFilter(seq, wanted, f, 0)
    BY <2>1 DEF IsFilter, Kept
  <2> QED BY <2>2
<1>2. ASSUME NEW n \in Nat, n \in Fine PROVE n + 1 \in Fine
  <2>1. PICK f : IsFilter(seq, wanted, f, n)
    BY <1>2
  <2>2. PICK g : g = [i \in 0 .. n + 1 |-> IF i = n + 1 THEN Kept(seq, wanted, f, i) ELSE f[i]]
    OBVIOUS
  <2>3. ASSUME NEW i \in 0 .. n + 1 PROVE g[i] = Kept(seq, wanted, g, i)
    <3>1. CASE i = 0
      <4>1. g[i] = f[i] /\ i \in 0 .. n
        BY <2>2, <3>1
      <4>2. f[i] = Kept(seq, wanted, f, i)
        BY <2>1, <4>1 DEF IsFilter
      <4> QED BY <3>1, <4>1, <4>2 DEF Kept
    <3>2. CASE i # 0
      <4>1. g[i - 1] = f[i - 1]
        BY <2>2, <3>2
      <4>2. Kept(seq, wanted, g, i) = Kept(seq, wanted, f, i)
        BY <4>1 DEF Kept
      <4>3. CASE i = n + 1
        BY <2>2, <4>2, <4>3
      <4>4. CASE i # n + 1
        <5>1. i \in 0 .. n /\ g[i] = f[i]
          BY <2>2, <4>4
        <5> QED BY <2>1, <4>2, <5>1 DEF IsFilter
      <4> QED BY <4>3, <4>4
    <3> QED BY <3>1, <3>2
  <2>4. g = [i \in 0 .. n + 1 |-> g[i]]
    BY <2>2
  <2>5. IsFilter(seq, wanted, g, n + 1)
    BY <2>3, <2>4 DEF IsFilter
  <2> QED BY <2>5
<1>3. Nat \subseteq Fine
  <2> HIDE DEF Fine
  <2> QED BY <1>1, <1>2, Induction
<1> QED BY <1>3

(* filter leaves the elements that are wanted, each where it is once.     *)
LEMMA FilterKeeps ==
    ASSUME NEW S, NEW seq \in Seq(S), NEW wanted
    PROVE  /\ filter(seq, wanted) \in Seq(S)
           /\ KeptOf(seq, wanted, Len(seq), filter(seq, wanted))
<1>1. PICK f : /\ f = [i \in 0 .. Len(seq) |-> Kept(seq, wanted, f, i)]
               /\ filter(seq, wanted) = f[Len(seq)]
  <2> DEFINE g == CHOOSE f : IsFilter(seq, wanted, f, Len(seq))
  <2>1. Len(seq) \in Nat
    OBVIOUS
  <2>2. IsFilter(seq, wanted, g, Len(seq))
    BY <2>1, FilterExists
  <2>3. filter(seq, wanted) = g[Len(seq)]
    BY DEF filter, IsFilter, Kept
  <2> HIDE DEF g
  <2> QED BY <2>2, <2>3 DEF IsFilter
<1>0. Len(seq) \in Nat /\ \A i \in 1 .. Len(seq) : seq[i] \in S
  OBVIOUS
<1> DEFINE Fine == { n \in Nat : n <= Len(seq) =>
                        f[n] \in Seq(S) /\ KeptOf(seq, wanted, n, f[n]) }
<1>2. 0 \in Fine
  <2>1. f[0] = <<>>
    BY <1>0, <1>1 DEF Kept
  <2>2. PICK at : at = [k \in 1 .. 0 |-> 1]
    OBVIOUS
  <2>3. f[0] \in Seq(S) /\ Len(f[0]) = 0 /\ 1 .. 0 = {}
    BY <2>1
  <2>4. at \in [1 .. Len(f[0]) -> 1 .. 0]
    BY <2>2, <2>3
  <2>5. KeptOf(seq, wanted, 0, f[0])
    BY <2>3, <2>4 DEF KeptOf
  <2> QED BY <2>3, <2>5
<1>3. ASSUME NEW n \in Nat, n \in Fine PROVE n + 1 \in Fine
  <2> SUFFICES ASSUME n + 1 <= Len(seq)
               PROVE  f[n + 1] \in Seq(S) /\ KeptOf(seq, wanted, n + 1, f[n + 1])
    OBVIOUS
  <2>1. f[n] \in Seq(S) /\ KeptOf(seq, wanted, n, f[n])
    BY <1>0, <1>3
  <2>2. n + 1 \in 1 .. Len(seq) /\ seq[n + 1] \in S
    BY <1>0
  <2>3. f[n + 1] = IF seq[n + 1] \in wanted THEN Append(f[n], seq[n + 1]) ELSE f[n]
    <3>1. n + 1 \in 0 .. Len(seq) /\ n + 1 # 0 /\ (n + 1) - 1 = n
      BY <1>0
    <3>2. f[n + 1] = Kept(seq, wanted, f, n + 1)
      BY <1>1, <3>1
    <3>3. Kept(seq, wanted, f, n + 1) =
            IF seq[n + 1] \in wanted THEN Append(f[(n + 1) - 1], seq[n + 1]) ELSE f[(n + 1) - 1]
      BY <3>1 DEF Kept
    <3> QED BY <3>1, <3>2, <3>3
  <2>4. PICK at \in [1 .. Len(f[n]) -> 1 .. n] :
        /\ \A k \in 1 .. Len(f[n]) : f[n][k] = seq[at[k]] /\ seq[at[k]] \in wanted
        /\ \A j, k \in 1 .. Len(f[n]) : at[j] = at[k] => j = k
        /\ \A i \in 1 .. n : seq[i] \in wanted => \E k \in 1 .. Len(f[n]) : at[k] = i
    BY <2>1 DEF KeptOf
  <2>5. CASE seq[n + 1] \notin wanted
    <3>1. f[n + 1] = f[n]
      BY <2>3, <2>5
    <3>2. at \in [1 .. Len(f[n]) -> 1 .. n + 1]
      OBVIOUS
    <3>3. \A i \in 1 .. n + 1 : seq[i] \in wanted => \E k \in 1 .. Len(f[n]) : at[k] = i
      BY <2>4, <2>5
    <3>4. KeptOf(seq, wanted, n + 1, f[n])
      BY <2>4, <3>2, <3>3 DEF KeptOf
    <3> QED BY <2>1, <3>1, <3>4
  <2>6. CASE seq[n + 1] \in wanted
    <3> DEFINE out == Append(f[n], seq[n + 1])
    <3>1. f[n + 1] = out
      BY <2>3, <2>6
    <3>2. /\ out \in Seq(S) /\ Len(out) = Len(f[n]) + 1 /\ Len(f[n]) \in Nat
          /\ out[Len(f[n]) + 1] = seq[n + 1]
          /\ \A k \in 1 .. Len(f[n]) : out[k] = f[n][k]
      BY <2>1, <2>2
    <3> HIDE DEF out
    <3>3. PICK to : to = [k \in 1 .. Len(f[n]) + 1 |-> IF k <= Len(f[n]) THEN at[k] ELSE n + 1]
      OBVIOUS
    <3>4. to \in [1 .. Len(out) -> 1 .. n + 1]
      BY <3>2, <3>3
    <3>5. \A k \in 1 .. Len(out) : out[k] = seq[to[k]] /\ seq[to[k]] \in wanted
      BY <2>4, <2>6, <3>2, <3>3
    <3>6. \A j, k \in 1 .. Len(out) : to[j] = to[k] => j = k
      <4> SUFFICES ASSUME NEW j \in 1 .. Len(out), NEW k \in 1 .. Len(out), to[j] = to[k]
                   PROVE  j = k
        OBVIOUS
      <4>1. \A i \in 1 .. Len(f[n]) : at[i] \in 1 .. n
        OBVIOUS
      <4>2. CASE j <= Len(f[n]) /\ k <= Len(f[n])
        <5>1. to[j] = at[j] /\ to[k] = at[k] /\ j \in 1 .. Len(f[n]) /\ k \in 1 .. Len(f[n])
          BY <3>2, <3>3, <4>2
        <5> QED BY <2>4, <5>1
      <4>3. CASE j = Len(f[n]) + 1 \/ k = Len(f[n]) + 1
        <5>1. \A i \in 1 .. Len(f[n]) : to[i] = at[i] /\ at[i] # n + 1
          BY <3>2, <3>3, <4>1
        <5>2. to[Len(f[n]) + 1] = n + 1
          BY <3>2, <3>3
        <5> QED BY <3>2, <4>3, <5>1, <5>2
      <4> QED BY <3>2, <4>2, <4>3
    <3>7. ASSUME NEW i \in 1 .. n + 1, seq[i] \in wanted
          PROVE  \E k \in 1 .. Len(out) : to[k] = i
      <4>1. CASE i = n + 1
        <5>1. Len(f[n]) + 1 \in 1 .. Len(out) /\ to[Len(f[n]) + 1] = n + 1
          BY <3>2, <3>3
        <5> QED BY <4>1, <5>1
      <4>2. CASE i \in 1 .. n
        <5>1. PICK k \in 1 .. Len(f[n]) : at[k] = i
          BY <2>4, <3>7, <4>2
        <5>2. k \in 1 .. Len(out) /\ to[k] = i
          BY <3>2, <3>3, <5>1
        <5> QED BY <5>2
      <4> QED BY <4>1, <4>2
    <3>8. KeptOf(seq, wanted, n + 1, out)
      BY <3>4, <3>5, <3>6, <3>7 DEF KeptOf
    <3> QED BY <3>1, <3>2, <3>8
  <2> QED BY <2>5, <2>6
<1>4. Len(seq) \in Fine
  <2> HIDE DEF Fine
  <2>1. Nat \subseteq Fine
    BY <1>2, <1>3, Induction
  <2> QED BY <1>0, <2>1
<1> QED BY <1>0, <1>1, <1>4

(* The same as a list of the elements, and without a folder twice.         *)
Once(seq) == \A i, j \in 1 .. Len(seq) : Same(seq[i], seq[j]) => i = j

LEMMA Filtered ==
    ASSUME NEW S, NEW seq \in Seq(S), NEW wanted
    PROVE  /\ filter(seq, wanted) \in Seq(S)
           /\ Elements(filter(seq, wanted)) = Elements(seq) \cap wanted
           /\ Once(seq) => Once(filter(seq, wanted))
<1> DEFINE out == filter(seq, wanted)
<1>1. out \in Seq(S) /\ KeptOf(seq, wanted, Len(seq), out)
  BY FilterKeeps
<1> HIDE DEF out
<1>2. PICK at \in [1 .. Len(out) -> 1 .. Len(seq)] :
        /\ \A k \in 1 .. Len(out) : out[k] = seq[at[k]] /\ seq[at[k]] \in wanted
        /\ \A j, k \in 1 .. Len(out) : at[j] = at[k] => j = k
        /\ \A i \in 1 .. Len(seq) : seq[i] \in wanted => \E k \in 1 .. Len(out) : at[k] = i
  BY <1>1 DEF KeptOf
<1>3. \A k \in 1 .. Len(out) : at[k] \in 1 .. Len(seq)
  OBVIOUS
<1>4. Elements(out) = Elements(seq) \cap wanted
  <2>1. ASSUME NEW x \in Elements(out) PROVE x \in Elements(seq) \cap wanted
    BY <1>2, <1>3 DEF Elements
  <2>2. ASSUME NEW x \in Elements(seq) \cap wanted PROVE x \in Elements(out)
    <3>1. PICK i \in 1 .. Len(seq) : seq[i] = x
      BY DEF Elements
    <3>2. PICK k \in 1 .. Len(out) : at[k] = i
      BY <1>2, <3>1
    <3> QED BY <1>2, <3>1, <3>2 DEF Elements
  <2> QED BY <2>1, <2>2
<1>5. Once(seq) => Once(out)
  BY <1>2, <1>3 DEF Once
<1> QED BY <1>1, <1>4, <1>5 DEF out

-----------------------------------------------------------------------------

(* Every step with folders is a step of HandlerWiring or leaves it alone.  *)
LEMMA StepOfWiring == [NextAll]_allVars => [Next]_vars
<1> SUFFICES ASSUME [NextAll]_allVars PROVE [Next]_vars
  OBVIOUS
<1>1. CASE \E event \in Events : ChangeFolders(event)
  BY <1>1 DEF ChangeFolders, Next
<1>2. CASE HandleAny \/ Initialize \/ UNCHANGED allVars
  BY <1>2 DEF HandleAny, Initialize, allVars, Next
<1>3. CASE \/ \E wish \in Wishes : Register(wish[1], wish[2])
           \/ Constructed \/ Listen \/ Chat \/ \E d \in Docs : Edit(d)
  BY <1>3 DEF Next
<1> QED
  BY <1>1, <1>2, <1>3 DEF NextAll

LEMMA MessageMethod ==
    ASSUME NEW message \in Message
    PROVE  /\ message.method \in Methods
           /\ message.method \in DocEvents =>
                message.doc \in Docs /\ message.version \in 0 .. MaxVersion
  BY DEF Message, Methods, DocEvents, Fanned, Asked, Noted

LEMMA AppliedType ==
    ASSUME NEW message \in Message, NEW open \in [Docs -> 0 .. MaxVersion]
    PROVE  Applied(message, open) \in [Docs -> 0 .. MaxVersion]
<1>1. CASE message.method \in DocEvents
  BY <1>1, MessageMethod DEF Applied
<1>2. CASE message.method \notin DocEvents
  BY <1>2 DEF Applied, DocEvents
<1> QED
  BY <1>1, <1>2

(* What is on its way has been sent by a client that knows its documents.  *)
LEMMA Sent ==
    ASSUME TypeOK, NEW d \in Docs, Edit(d)
    PROVE  \E message \in Message :
              /\ Send(message)
              /\ client' = Applied(message, client)
              /\ client' \in [Docs -> 0 .. MaxVersion]
<1> USE DEF TypeOK
<1>1. ASSUME NEW method \in DocEvents, NEW version \in 0 .. MaxVersion,
             ClientDoes(method, d, version),
             \/ method \in {"didOpen", "didClose"}
             \/ method = "didChange" /\ client[d] # 0
             \/ method = "didSave" /\ client[d] = version
      PROVE  \E message \in Message :
              /\ Send(message)
              /\ client' = Applied(message, client)
              /\ client' \in [Docs -> 0 .. MaxVersion]
  <2> DEFINE message == [method |-> method, doc |-> d, version |-> version]
  <2>1. message \in Message
    BY DEF Message
  <2>2. client' = [client EXCEPT ![d] = version] /\ Send(message)
    BY <1>1 DEF ClientDoes
  <2>3. client' = Applied(message, client)
    <3>1. CASE method = "didSave"
      <4>1. client' = client
        BY <1>1, <2>2, <3>1
      <4> QED
        BY <4>1, <3>1 DEF Applied
    <3>2. CASE method # "didSave"
      BY <1>1, <2>2, <3>2 DEF Applied
    <3> QED
      BY <3>1, <3>2
  <2>4. client' \in [Docs -> 0 .. MaxVersion]
    BY <2>2
  <2> QED
    BY <2>1, <2>2, <2>3, <2>4
<1>2. CASE client[d] = 0 /\ ClientDoes("didOpen", d, 1)
  BY <1>1, <1>2, BoundsAssumption DEF DocEvents
<1>3. CASE client[d] \in 1 .. MaxVersion - 1 /\ ClientDoes("didChange", d, client[d] + 1)
  <2>1. client[d] # 0 /\ client[d] + 1 \in 0 .. MaxVersion
    BY <1>3, BoundsAssumption
  <2> QED
    BY <1>1, <1>3, <2>1 DEF DocEvents
<1>4. CASE client[d] # 0 /\ ClientDoes("didSave", d, client[d])
  BY <1>1, <1>4 DEF DocEvents
<1>5. CASE client[d] # 0 /\ ClientDoes("didClose", d, 0)
  BY <1>1, <1>5, BoundsAssumption DEF DocEvents
<1> QED
  BY <1>2, <1>3, <1>4, <1>5 DEF Edit

LEMMA Asking ==
    ASSUME TypeOK, Chat \/ (\E event \in Events : Tell(event))
    PROVE  /\ UNCHANGED client
           /\ \E message \in Message :
                /\ Send(message)
                /\ client = Applied(message, client)
<1>1. CASE Chat
  <2>1. PICK method \in Asked \cup Noted : Send([method |-> method])
    BY <1>1 DEF Chat
  <2>2. [method |-> method] \in Message /\ method \notin DocEvents
    BY DEF Message, Asked, Noted, DocEvents
  <2> QED
    BY <1>1, <2>1, <2>2 DEF Chat, Applied, DocEvents
<1>2. ASSUME NEW event \in Events, Tell(event)
      PROVE  /\ UNCHANGED client
             /\ \E message \in Message :
                  /\ Send(message)
                  /\ client = Applied(message, client)
  <2>1. [method |-> "didChangeWorkspaceFolders", event |-> event] \in Message
    BY DEF Message, Fanned
  <2> QED
    BY <1>2, <2>1 DEF Tell, Applied
<1> QED
  BY <1>1, <1>2

(* Type correctness of the wiring, whoever displaces whom.                 *)
LEMMA TypeSend ==
    ASSUME TypeOK, NEW message \in Message, Send(message),
           client' \in [Docs -> 0 .. MaxVersion]
    PROVE  TypeOK'
<1>1. wire' \in Seq(Message)
  BY DEF Send, TypeOK
<1> QED
  BY <1>1 DEF Send, wiring, TypeOK, WiringOK

LEMMA TypeStep == ASSUME TypeOK, [Next]_vars PROVE TypeOK'
<1>1. ASSUME NEW s \in Servers, NEW m \in Methods, Register(s, m) PROVE TypeOK'
  <2>1. s \in 0 .. N + 2 /\ s \in 0 .. N /\ Observer \in 0 .. N + 2
    BY NAssumption DEF Servers, Observer
  <2> QED
    BY <1>1, <2>1 DEF Register, GoesStraight, IsKept, IsLost, Subscribe, TypeOK, WiringOK
<1>2. ASSUME NEW wish \in Wishes, Register(wish[1], wish[2]) PROVE TypeOK'
  <2>1. wish[1] \in Servers /\ wish[2] \in Methods
    BY WishesAssumption
  <2> QED
    BY <1>1, <1>2, <2>1
<1>3. CASE Constructed
  <2>1. building' \in 1 .. N + 1
    BY <1>3, NAssumption DEF Constructed, TypeOK, WiringOK
  <2> QED
    BY <1>3, <2>1 DEF Constructed, TypeOK, WiringOK
<1>4. CASE Listen
  <2>1. Observer \in 0 .. N + 2 /\ Documents \in 0 .. N
    BY NAssumption DEF Observer, Documents
  <2>2. listening' \in BOOLEAN
    BY <1>4, Zenon DEF Listen
  <2> QED
    BY <1>4, <2>1, <2>2 DEF Listen, TypeOK, WiringOK
<1>5. ASSUME NEW d \in Docs, Edit(d) PROVE TypeOK'
  <2>1. \E message \in Message : Send(message) /\ client' \in [Docs -> 0 .. MaxVersion]
    BY <1>5, Sent
  <2> QED
    BY <2>1, TypeSend
<1>6. CASE Chat \/ \E event \in Events : Tell(event)
  <2>1. \E message \in Message : Send(message) /\ client' \in [Docs -> 0 .. MaxVersion]
    BY <1>6, Asking DEF TypeOK
  <2> QED
    BY <2>1, TypeSend
<1>7. CASE Handle
  <2> DEFINE message == Head(wire)
  <2>1. message \in Message /\ wire' \in Seq(Message)
    BY <1>7, HeadTailProperties DEF Handle, TypeOK
  <2> HIDE DEF message
  <2>2. docs' \in [Docs -> 0 .. MaxVersion]
    BY <1>7, <2>1, AppliedType DEF Handle, TypeOK, message
  <2>3. PassedOver(message.method) \subseteq Servers \X Methods
    BY <2>1, MessageMethod DEF PassedOver, TypeOK, WiringOK
  <2>4. missed' \subseteq Servers \X Methods
    BY <1>7, <2>3 DEF Handle, message, TypeOK, WiringOK
  <2> QED
    BY <1>7, <2>1, <2>2, <2>4 DEF Handle, wiring, TypeOK, WiringOK
<1>8. CASE UNCHANGED vars
  BY <1>8 DEF vars, wiring, TypeOK, WiringOK
<1> QED
  BY <1>2, <1>3, <1>4, <1>5, <1>6, <1>7, <1>8 DEF Next

(* A message that is sent prolongs the way by one step.                    *)
LEMMA SendStep ==
    ASSUME WInv, NEW message \in Message, Send(message),
           client' = Applied(message, client), client' \in [Docs -> 0 .. MaxVersion]
    PROVE  WInv'
<1> USE DEF WInv
<1>1. /\ wire \in Seq(Message) /\ wire' = Append(wire, message)
      /\ UNCHANGED <<building, listening, slot, subs, registered, docs, missed>>
      /\ listening
  BY DEF Send, wiring, TypeOK
<1>2. /\ wire' \in Seq(Message) /\ Len(wire') = Len(wire) + 1
      /\ \A i \in 1 .. Len(wire) : wire'[i] = wire[i]
      /\ wire'[Len(wire) + 1] = message
      /\ Len(wire) \in Nat
  BY <1>1
<1>3. TypeOK'
  BY TypeSend
<1>4. Wired' /\ (Alone => NoneMissed')
  BY <1>1 DEF Wired, NoneMissed
<1>5. PICK h : IsPath(h)
  BY DEF OnTheWay
<1>0. PICK g : g = [i \in 0 .. Len(wire) + 1 |-> IF i <= Len(wire) THEN h[i] ELSE client']
  OBVIOUS
<1>6. IsPath(g)'
  <2>1. /\ h \in [0 .. Len(wire) -> [Docs -> 0 .. MaxVersion]]
        /\ h[0] = docs /\ h[Len(wire)] = client
        /\ \A i \in 1 .. Len(wire) : h[i] = Applied(wire[i], h[i - 1])
    BY <1>5 DEF IsPath
  <2>2. g \in [0 .. Len(wire') -> [Docs -> 0 .. MaxVersion]]
    BY <1>0, <1>2, <2>1
  <2>3. g[0] = docs' /\ g[Len(wire')] = client'
    BY <1>0, <1>1, <1>2, <2>1
  <2>4. ASSUME NEW i \in 1 .. Len(wire') PROVE g[i] = Applied(wire'[i], g[i - 1])
    <3>1. CASE i <= Len(wire)
      <4>1. i \in 1 .. Len(wire) /\ g[i] = h[i] /\ g[i - 1] = h[i - 1] /\ wire'[i] = wire[i]
        BY <1>0, <1>2, <3>1
      <4> QED
        BY <4>1, <2>1
    <3>2. CASE i = Len(wire) + 1
      <4>1. g[i] = client' /\ g[i - 1] = client /\ wire'[i] = message
        BY <1>0, <1>2, <2>1, <3>2
      <4> QED
        BY <4>1
    <3> QED
      BY <1>2, <3>1, <3>2
  <2>5. \A i \in 1 .. Len(wire') : g[i] = Applied(wire'[i], g[i - 1])
    BY <2>4
  <2> QED
    BY <2>2, <2>3, <2>5 DEF IsPath, Applied
<1> QED
  BY <1>3, <1>4, <1>6 DEF OnTheWay

(* Handling the first message makes the first step of the way.             *)
LEMMA HandleStep ==
    ASSUME WInv, Handle
    PROVE  WInv'
<1> USE DEF WInv
<1> DEFINE message == Head(wire)
<1>1. /\ wire \in Seq(Message) /\ wire # <<>> /\ wire' = Tail(wire) /\ listening
      /\ UNCHANGED <<building, listening, slot, subs, registered, client>>
  BY DEF Handle, wiring, TypeOK, Wired
<1>2. /\ message \in Message /\ message = wire[1]
      /\ wire' \in Seq(Message) /\ Len(wire) \in Nat \ {0} /\ Len(wire') = Len(wire) - 1
      /\ \A i \in 1 .. Len(wire') : wire'[i] = wire[i + 1]
  BY <1>1, HeadTailProperties
<1>3. message.method \in Methods
  BY <1>2, MessageMethod
<1> HIDE DEF message
<1>4. Alone => PassedOver(message.method) = {}
  <2> SUFFICES ASSUME Alone PROVE PassedOver(message.method) = {}
    OBVIOUS
  <2>1. CASE message.method \in DocEvents
    <3>1. slot[message.method] = Observer /\ registered[message.method] \subseteq subs[message.method]
      BY <1>1, <2>1 DEF Wired
    <3> QED
      BY <2>1, <3>1 DEF PassedOver, Called
  <2>2. CASE message.method \in Fanned
    <3>1. slot[message.method] = Router /\ Router # Observer
      BY <2>2, NAssumption DEF Wired, Router, Observer
    <3> QED
      BY <2>2, <3>1 DEF PassedOver, Called
  <2>3. CASE message.method \in Asked
    <3>1. CASE registered[message.method] = {}
      BY <3>1 DEF PassedOver
    <3>2. CASE registered[message.method] # {}
      <4>1. slot[message.method] \in Servers
        BY <2>3, <3>2 DEF Wired
      <4>2. slot[message.method] # Observer /\ slot[message.method] # Router
        BY <4>1, NAssumption DEF Servers, Observer, Router
      <4> QED
        BY <2>3, <4>1, <4>2 DEF PassedOver, Called
    <3> QED
      BY <3>1, <3>2
  <2>4. CASE message.method \in Noted
    <3>1. ASSUME NEW s \in registered[message.method] PROVE s \in Called(message.method)
      <4>1. slot[message.method] = s /\ s \in Servers
        BY <1>3, <2>4 DEF Wired, TypeOK, WiringOK
      <4>2. slot[message.method] # Observer /\ slot[message.method] # Router
        BY <4>1, NAssumption DEF Servers, Observer, Router
      <4> QED
        BY <4>1, <4>2 DEF Called
    <3> QED
      BY <2>4, <3>1 DEF PassedOver, Asked, Noted
  <2> QED
    BY <1>3, <2>1, <2>2, <2>3, <2>4 DEF Methods
<1>5. docs' = Applied(message, docs)
  <2>1. CASE message.method \in DocEvents
    <3>1. Documents \in Called(message.method)
      BY <1>1, <2>1 DEF Wired, Called
    <3> QED
      BY <3>1 DEF Handle, message
  <2>2. CASE message.method \notin DocEvents
    <3>1. Applied(message, docs) = docs
      BY <2>2 DEF Applied, DocEvents
    <3> QED
      BY <3>1 DEF Handle, message
  <2> QED
    BY <2>1, <2>2
<1>6. Alone => missed' = missed
  BY <1>4 DEF Handle, message
<1>7. TypeOK'
  BY TypeStep DEF Next
<1>8. Wired' /\ (Alone => NoneMissed')
  BY <1>1, <1>6 DEF Wired, NoneMissed
<1>9. PICK h : IsPath(h)
  BY DEF OnTheWay
<1>0. PICK g : g = [i \in 0 .. Len(wire) - 1 |-> h[i + 1]]
  OBVIOUS
<1>10. IsPath(g)'
  <2>1. /\ h \in [0 .. Len(wire) -> [Docs -> 0 .. MaxVersion]]
        /\ h[0] = docs /\ h[Len(wire)] = client
        /\ \A i \in 1 .. Len(wire) : h[i] = Applied(wire[i], h[i - 1])
    BY <1>9 DEF IsPath
  <2>2. g \in [0 .. Len(wire') -> [Docs -> 0 .. MaxVersion]]
    BY <1>0, <1>2, <2>1
  <2>3. g[0] = docs'
    <3>1. g[0] = h[1] /\ h[1] = Applied(wire[1], h[1 - 1])
      BY <1>0, <1>2, <2>1
    <3>2. h[1 - 1] = docs
      BY <2>1
    <3> QED
      BY <1>2, <1>5, <3>1, <3>2
  <2>4. g[Len(wire')] = client'
    BY <1>0, <1>1, <1>2, <2>1
  <2>5. ASSUME NEW i \in 1 .. Len(wire') PROVE g[i] = Applied(wire'[i], g[i - 1])
    <3>1. i + 1 \in 1 .. Len(wire) /\ wire'[i] = wire[i + 1] /\ (i + 1) - 1 = i
      BY <1>2
    <3>2. g[i] = h[i + 1] /\ g[i - 1] = h[i]
      BY <1>0, <1>2
    <3>3. h[i + 1] = Applied(wire[i + 1], h[(i + 1) - 1])
      BY <2>1, <3>1
    <3> QED
      BY <3>1, <3>2, <3>3
  <2>6. \A i \in 1 .. Len(wire') : g[i] = Applied(wire'[i], g[i - 1])
    BY <2>5
  <2> QED
    BY <2>2, <2>3, <2>4, <2>6 DEF IsPath, Applied
<1> QED
  BY <1>7, <1>8, <1>10 DEF OnTheWay

(* Registration keeps the observer where it is, and messages alone.        *)
LEMMA WireStep ==
    ASSUME Shared, WInv,
           \/ \E wish \in Wishes : Register(wish[1], wish[2])
           \/ Constructed
           \/ Listen
    PROVE  WInv'
<1> USE DEF WInv
<1>1. UNCHANGED <<docs, client, wire, missed>>
  BY DEF Register, GoesStraight, IsKept, IsLost, Constructed, Listen
<1>2. OnTheWay' /\ (Alone => NoneMissed')
  <2>1. PICK h : IsPath(h)
    BY DEF OnTheWay
  <2>2. IsPath(h)'
    BY <1>1, <2>1 DEF IsPath, Applied
  <2> QED
    BY <1>1, <2>2 DEF OnTheWay, NoneMissed
<1>3. ASSUME NEW s \in Servers, NEW m \in Methods, Register(s, m), <<s, m>> \in Wishes
      PROVE  Wired'
  <2>3. /\ registered' = [registered EXCEPT ![m] = @ \cup {s}] /\ listening' = listening
        /\ registered \in [Methods -> SUBSET Servers]
        /\ slot \in [Methods -> 0 .. N + 2] /\ subs \in [Methods -> SUBSET (0 .. N)]
    BY <1>3 DEF Register, GoesStraight, IsKept, IsLost, TypeOK, WiringOK
  <2>4. DocEvents \subseteq Methods /\ Fanned \subseteq Methods /\ Asked \subseteq Methods
        /\ Noted \subseteq Methods
    BY DEF Methods
  <2>A. \A other \in Methods \ {m} : registered'[other] = registered[other]
    BY <2>3
  <2>B. registered'[m] = registered[m] \cup {s}
    BY <2>3
  <2>C. wire' # <<>> => listening'
    BY <1>1, <2>3 DEF Wired
  <2>5. ASSUME m \in Straight /\ slot' = [slot EXCEPT ![m] = s] /\ UNCHANGED subs
       PROVE  Wired'
    <3>1. m \in Asked \cup Noted /\ m \notin DocEvents /\ m \notin Fanned
      BY <2>5, StraightAssumption DEF Shared, Asked, Noted, DocEvents, Fanned
    <3>2. /\ slot'[m] = s /\ UNCHANGED <<listening, subs>>
          /\ \A other \in Methods \ {m} : slot'[other] = slot[other]
      BY <2>3, <2>5
    <3>3. ASSUME Alone, m \in Noted, NEW t \in registered[m] PROVE t = s
      <4>1. <<t, m>> \in Wishes
        BY <3>3 DEF Wired
      <4> QED
        BY <1>3, <3>3, <4>1 DEF Alone
    <3>4. Alone => \A n \in Noted : \A t \in registered'[n] : slot'[n] = t /\ <<t, n>> \in Wishes
      <4> SUFFICES ASSUME Alone, NEW n \in Noted, NEW t \in registered'[n]
                   PROVE  slot'[n] = t /\ <<t, n>> \in Wishes
        OBVIOUS
      <4>1. CASE n = m
        <5>1. t \in registered[m] \cup {s}
          BY <2>B, <4>1
        <5>2. t = s
          BY <3>3, <4>1, <5>1
        <5> QED
          BY <1>3, <3>2, <4>1, <5>2
      <4>2. CASE n # m
        <5>1. registered'[n] = registered[n] /\ slot'[n] = slot[n]
          BY <2>4, <2>A, <3>2, <4>2
        <5> QED
          BY <5>1 DEF Wired
      <4> QED
        BY <4>1, <4>2
    <3>5. \A n \in Asked : registered'[n] # {} => slot'[n] \in Servers
      BY <2>4, <2>A, <3>2 DEF Wired
    <3> QED
      BY <2>4, <2>A, <2>C, <3>1, <3>2, <3>4, <3>5 DEF Wired
  <2>6. ASSUME m \in DocEvents \ Straight /\ Subscribe(m, s)
       PROVE  Wired'
    <3>1. m \notin Asked /\ m \notin Fanned /\ m \notin Noted
      BY <2>6 DEF Asked, Noted, DocEvents, Fanned
    <3>2. subs' = [subs EXCEPT ![m] = @ \cup {s}] /\ slot'[m] = Observer
      BY <2>3, <2>6 DEF Subscribe, Wired
    <3>3. \A other \in Methods \ {m} : slot'[other] = slot[other]
      BY <2>3, <2>6 DEF Subscribe
    <3> QED
      BY <2>3, <2>4, <2>A, <2>B, <2>C, <3>1, <3>2, <3>3 DEF Wired
  <2>7. ASSUME m \in Fanned /\ UNCHANGED <<slot, subs>>
       PROVE  Wired'
    <3>1. m \notin Asked /\ m \notin DocEvents /\ m \notin Noted
      BY <2>7 DEF Asked, Noted, DocEvents, Fanned
    <3> QED
      BY <2>3, <2>4, <2>7, <2>A, <2>C, <3>1 DEF Wired
  <2>8. ASSUME m \in Unheard /\ UNCHANGED <<slot, subs>>
       PROVE  Wired'
    <3>1. m \in Noted /\ m \notin Asked /\ m \notin Fanned /\ m \notin DocEvents /\ ~Alone
      BY <2>8, UnheardAssumption DEF Alone, Asked, Noted, DocEvents, Fanned
    <3> QED
      BY <2>3, <2>4, <2>8, <2>A, <2>C, <3>1 DEF Wired
  <2> QED
    BY <1>3, <2>5, <2>6, <2>7, <2>8 DEF Register, GoesStraight, IsKept, IsLost
<1>4. ASSUME NEW wish \in Wishes, Register(wish[1], wish[2]) PROVE Wired'
  <2>1. wish[1] \in Servers /\ wish[2] \in Methods /\ <<wish[1], wish[2]>> \in Wishes
    BY WishesAssumption
  <2> QED
    BY <1>3, <1>4, <2>1
<1>5. ASSUME Constructed PROVE Wired'
  BY <1>1, <1>5 DEF Constructed, Wired
<1>6. ASSUME Listen PROVE Wired'
  BY <1>1, <1>6 DEF Listen, Wired, TypeOK, WiringOK, Methods, DocEvents, Fanned, Asked, Noted
<1>7. Wired'
  BY <1>4, <1>5, <1>6
<1>8. TypeOK'
  BY TypeStep DEF Next
<1> QED
  BY <1>2, <1>7, <1>8

LEMMA TypeInit == Init => TypeOK
<1> SUFFICES ASSUME Init PROVE TypeOK
  OBVIOUS
<1>1. listening \in BOOLEAN
  BY Zenon DEF Init
<1>2. building \in 1 .. N + 1 /\ Router \in 0 .. N + 2 /\ Nobody \in 0 .. N + 2
  BY NAssumption DEF Init, Router, Nobody
<1>3. slot \in [Methods -> 0 .. N + 2]
  BY <1>2 DEF Init
<1>4. WiringOK
  BY <1>1, <1>2, <1>3 DEF Init, WiringOK
<1> QED
  BY <1>4, BoundsAssumption DEF Init, TypeOK

LEMMA InitWInv == Init => WInv
<1> SUFFICES ASSUME Init PROVE WInv
  OBVIOUS
<1>1. TypeOK
  BY TypeInit
<1>2. Wired /\ NoneMissed
  BY DEF Init, Wired, NoneMissed, Methods, DocEvents, Fanned, Asked, Noted
<1>3. PICK h : h = [i \in 0 .. 0 |-> docs]
  OBVIOUS
<1>4. IsPath(h)
  BY <1>1, <1>3 DEF Init, IsPath, TypeOK
<1> QED
  BY <1>1, <1>2, <1>4 DEF WInv, OnTheWay

LEMMA StepWInv == ASSUME Shared, WInv, [Next]_vars PROVE WInv'
<1>1. CASE \/ \E wish \in Wishes : Register(wish[1], wish[2])
           \/ Constructed \/ Listen
  BY <1>1, WireStep
<1>2. ASSUME NEW d \in Docs, Edit(d) PROVE WInv'
  BY <1>2, Sent, SendStep DEF WInv
<1>3. CASE Chat \/ \E event \in Events : Tell(event)
  <2>1. /\ client' = client
        /\ client \in [Docs -> 0 .. MaxVersion]
        /\ \E message \in Message : Send(message) /\ client = Applied(message, client)
    BY <1>3, Asking DEF WInv, TypeOK
  <2> QED
    BY <2>1, SendStep
<1>4. CASE Handle
  BY <1>4, HandleStep
<1>5. CASE UNCHANGED vars
  <2>1. TypeOK' /\ Wired' /\ (Alone => NoneMissed')
    BY <1>5 DEF vars, wiring, WInv, TypeOK, WiringOK, Wired, NoneMissed
  <2>2. PICK h : IsPath(h)
    BY DEF WInv, OnTheWay
  <2>3. IsPath(h)'
    BY <1>5, <2>2 DEF vars, IsPath, Applied
  <2> QED
    BY <2>1, <2>3 DEF WInv, OnTheWay
<1> QED
  BY <1>1, <1>2, <1>3, <1>4, <1>5 DEF Next

LEMMA Inductive == Shared => (SpecAll => []WInv)
<1> SUFFICES ASSUME Shared PROVE SpecAll => []WInv
  OBVIOUS
<1>1. InitAll => WInv
  BY InitWInv DEF InitAll
<1>2. WInv /\ [NextAll]_allVars => WInv'
  BY StepOfWiring, StepWInv
<1> QED
  BY <1>1, <1>2, PTL DEF SpecAll

-----------------------------------------------------------------------------
(* If all handlers of document events go through the observer, as in the   *)
(* standalone runtime, every server hears every event it has a handler for *)
(* (NoneMissed), for any number of servers and whenever they register, as  *)
(* long as no two of them want the same chat notification.                 *)
THEOREM EveryHandlerHears == Shared /\ Alone => (SpecAll => []NoneMissed)
<1> SUFFICES ASSUME Shared, Alone PROVE SpecAll => []NoneMissed
  OBVIOUS
<1>1. WInv => NoneMissed
  BY DEF WInv
<1>2. SpecAll => []WInv
  BY Inductive
<1> QED
  BY <1>1, <1>2, PTL

(* If all handlers of document events go through the observer, the         *)
(* documents that servers read are those of the client as soon as its      *)
(* messages are handled (DocumentsFollowClient).                           *)
THEOREM DocumentsAreTheClients == Shared => (SpecAll => []DocumentsFollowClient)
<1>1. WInv => DocumentsFollowClient
  <2> SUFFICES ASSUME WInv, wire = <<>> PROVE docs = client
    BY DEF DocumentsFollowClient
  <2>1. PICK h : IsPath(h)
    BY DEF WInv, OnTheWay
  <2> QED
    BY <2>1 DEF IsPath
<1> QED
  BY <1>1, Inductive, PTL

-----------------------------------------------------------------------------
(* The folders.                                                            *)

(* What an event makes of a set of folders.                                *)
Updated(there, message) ==
    IF message.method = "didChangeWorkspaceFolders"
    THEN LET kept == there \ message.event.removed
         IN  kept \cup (Elements(message.event.added) \cap NewTo(kept))
    ELSE there

(* A path from the folders of the router to those of the client, along the *)
(* messages that are on their way.                                         *)
IsFolderPath(h) ==
    /\ h \in [0 .. Len(wire) -> SUBSET Uris]
    /\ h[0] = Elements(folders)
    /\ h[Len(wire)] = mine
    /\ \A i \in 1 .. Len(wire) : h[i] = Updated(h[i - 1], wire[i])

FInv ==
    /\ TypeOKAll
    /\ ~initialized => wire = <<>>
    /\ \E h : IsFolderPath(h)

(* A step with folders leaves the type of the folders right.               *)
LEMMA ChangedType ==
    ASSUME folders \in Seq(Uris), NEW event \in Events, didChangeWorkspaceFolders(event)
    PROVE  /\ folders' \in Seq(Uris)
           /\ Elements(folders') =
                 Updated(Elements(folders), [method |-> "didChangeWorkspaceFolders", event |-> event])
           /\ Once(folders) /\ Once(event.added) => Once(folders')
<1> DEFINE kept == filter(folders, Uris \ event.removed)
           fresh == filter(event.added, NewTo(Elements(kept)))
<1>1. event.added \in Seq(Uris) /\ event.removed \subseteq Uris
  BY EventsAssumption
<1>2. /\ kept \in Seq(Uris)
      /\ Elements(kept) = Elements(folders) \cap (Uris \ event.removed)
      /\ Once(folders) => Once(kept)
  BY Filtered
<1>3. /\ fresh \in Seq(Uris)
      /\ Elements(fresh) = Elements(event.added) \cap NewTo(Elements(kept))
      /\ Once(event.added) => Once(fresh)
  BY <1>1, Filtered
<1>4. folders' = kept \o fresh
  BY DEF didChangeWorkspaceFolders
<1> HIDE DEF kept, fresh
<1>5. /\ folders' \in Seq(Uris) /\ Len(folders') = Len(kept) + Len(fresh)
      /\ Len(kept) \in Nat /\ Len(fresh) \in Nat
      /\ \A i \in 1 .. Len(kept) : folders'[i] = kept[i]
      /\ \A i \in Len(kept) + 1 .. Len(folders') :
            folders'[i] = fresh[i - Len(kept)] /\ i - Len(kept) \in 1 .. Len(fresh)
  BY <1>2, <1>3, <1>4
<1>6. Elements(folders') = Elements(kept) \cup Elements(fresh)
  <2>1. ASSUME NEW x \in Elements(folders') PROVE x \in Elements(kept) \cup Elements(fresh)
    BY <1>5 DEF Elements
  <2>2. ASSUME NEW x \in Elements(kept) PROVE x \in Elements(folders')
    BY <1>5 DEF Elements
  <2>3. ASSUME NEW x \in Elements(fresh) PROVE x \in Elements(folders')
    <3>1. PICK k \in 1 .. Len(fresh) : x = fresh[k]
      BY DEF Elements
    <3>2. k + Len(kept) \in Len(kept) + 1 .. Len(folders') /\ (k + Len(kept)) - Len(kept) = k
      BY <1>5
    <3>3. folders'[k + Len(kept)] = x /\ k + Len(kept) \in 1 .. Len(folders')
      BY <1>5, <3>1, <3>2
    <3> QED
      BY <3>3 DEF Elements
  <2> QED
    BY <2>1, <2>2, <2>3
<1>7. Elements(folders) \subseteq Uris
  BY DEF Elements
<1>8. ASSUME Once(folders), Once(event.added) PROVE Once(folders')
  <2>1. ASSUME NEW i \in 1 .. Len(kept), NEW j \in 1 .. Len(fresh) PROVE ~Same(fresh[j], kept[i])
    <3>1. kept[i] \in Elements(kept) /\ fresh[j] \in NewTo(Elements(kept))
      BY <1>3 DEF Elements
    <3> QED
      BY <3>1 DEF NewTo
  <2> SUFFICES ASSUME NEW i \in 1 .. Len(folders'), NEW j \in 1 .. Len(folders'),
                      Same(folders'[i], folders'[j])
               PROVE  i = j
    BY DEF Once
  <2>2. \A f, g : Same(f, g) => Same(g, f)
    BY DEF Same
  <2>3. CASE i <= Len(kept) /\ j <= Len(kept)
    BY <1>2, <1>5, <1>8, <2>3 DEF Once
  <2>4. CASE i > Len(kept) /\ j > Len(kept)
    <3>1. /\ i - Len(kept) \in 1 .. Len(fresh) /\ j - Len(kept) \in 1 .. Len(fresh)
          /\ folders'[i] = fresh[i - Len(kept)] /\ folders'[j] = fresh[j - Len(kept)]
      BY <1>5, <2>4
    <3>2. i - Len(kept) = j - Len(kept)
      BY <1>3, <1>8, <3>1 DEF Once
    <3> QED
      BY <1>5, <3>2
  <2>5. ASSUME NEW k \in 1 .. Len(folders'), NEW l \in 1 .. Len(folders'),
               k <= Len(kept), l > Len(kept)
        PROVE  ~Same(folders'[l], folders'[k])
    <3>1. /\ k \in 1 .. Len(kept) /\ l - Len(kept) \in 1 .. Len(fresh)
          /\ folders'[k] = kept[k] /\ folders'[l] = fresh[l - Len(kept)]
      BY <1>5, <2>5
    <3> QED
      BY <2>1, <3>1
  <2>6. CASE (i <= Len(kept) /\ j > Len(kept)) \/ (i > Len(kept) /\ j <= Len(kept))
    BY <2>2, <2>5, <2>6
  <2> QED
    BY <1>5, <2>3, <2>4, <2>6
<1> QED
  BY <1>2, <1>3, <1>5, <1>6, <1>7, <1>8 DEF Updated

(* A message that is sent prolongs the way of the folders.                 *)
LEMMA FolderSend ==
    ASSUME FInv, TypeOK', initialized' = initialized, folders' = folders, mine' \subseteq Uris,
           initialized, NEW message \in Message, Send(message), mine' = Updated(mine, message)
    PROVE  FInv'
<1>1. /\ wire \in Seq(Message) /\ wire' = Append(wire, message)
  BY DEF Send, TypeOK, TypeOKAll, FInv
<1>2. /\ Len(wire') = Len(wire) + 1 /\ Len(wire) \in Nat
      /\ \A i \in 1 .. Len(wire) : wire'[i] = wire[i]
      /\ wire'[Len(wire) + 1] = message
  BY <1>1
<1>3. PICK h : IsFolderPath(h)
  BY DEF FInv
<1>4. /\ h \in [0 .. Len(wire) -> SUBSET Uris]
      /\ h[0] = Elements(folders) /\ h[Len(wire)] = mine
      /\ \A i \in 1 .. Len(wire) : h[i] = Updated(h[i - 1], wire[i])
  BY <1>3 DEF IsFolderPath
<1>5. PICK g : g = [i \in 0 .. Len(wire) + 1 |-> IF i <= Len(wire) THEN h[i] ELSE mine']
  OBVIOUS
<1>6. g \in [0 .. Len(wire') -> SUBSET Uris]
  BY <1>2, <1>4, <1>5
<1>7. g[0] = Elements(folders') /\ g[Len(wire')] = mine'
  BY <1>2, <1>4, <1>5
<1>8. ASSUME NEW i \in 1 .. Len(wire') PROVE g[i] = Updated(g[i - 1], wire'[i])
  <2>1. CASE i <= Len(wire)
    <3>1. i \in 1 .. Len(wire) /\ g[i] = h[i] /\ g[i - 1] = h[i - 1] /\ wire'[i] = wire[i]
      BY <1>2, <1>5, <2>1
    <3> QED
      BY <3>1, <1>4
  <2>2. CASE i = Len(wire) + 1
    <3>1. g[i] = mine' /\ g[i - 1] = mine /\ wire'[i] = message
      BY <1>2, <1>4, <1>5, <2>2
    <3> QED
      BY <3>1
  <2> QED
    BY <1>2, <2>1, <2>2
<1>9. IsFolderPath(g)'
  BY <1>6, <1>7, <1>8 DEF IsFolderPath, Updated, Elements, NewTo, Same
<1> QED
  BY <1>9 DEF FInv, TypeOKAll

(* Handling a message makes the first step of the way of the folders.      *)
LEMMA FolderHandle ==
    ASSUME FInv, TypeOK', HandleAny
    PROVE  FInv' /\ (Once(folders) /\ (\A event \in Events : Once(event.added)) => Once(folders'))
<1> DEFINE message == Head(wire)
<1>1. /\ wire \in Seq(Message) /\ wire # <<>> /\ wire' = Tail(wire)
      /\ folders \in Seq(Uris) /\ mine' = mine /\ initialized' = initialized
  BY DEF HandleAny, Handle, TypeOK, TypeOKAll, FInv
<1>2. /\ message \in Message /\ message = wire[1]
      /\ Len(wire) \in Nat \ {0} /\ Len(wire') = Len(wire) - 1
      /\ \A i \in 1 .. Len(wire') : wire'[i] = wire[i + 1]
  BY <1>1, HeadTailProperties
<1>3. IF message.method = "didChangeWorkspaceFolders"
      THEN didChangeWorkspaceFolders(message.event)
      ELSE folders' = folders
  BY DEF HandleAny
<1> HIDE DEF message
<1>4. /\ folders' \in Seq(Uris)
      /\ Elements(folders') = Updated(Elements(folders), message)
      /\ Once(folders) /\ (\A event \in Events : Once(event.added)) => Once(folders')
  <2>1. CASE message.method = "didChangeWorkspaceFolders"
    <3>1. message.event \in Events
      BY <1>2, <2>1 DEF Message, Fanned, DocEvents, Asked, Noted
    <3> QED
      BY <1>1, <1>3, <2>1, <3>1, ChangedType DEF Updated
  <2>2. CASE message.method # "didChangeWorkspaceFolders"
    BY <1>1, <1>3, <2>2 DEF Updated
  <2> QED
    BY <2>1, <2>2
<1>5. PICK h : IsFolderPath(h)
  BY DEF FInv
<1>6. /\ h \in [0 .. Len(wire) -> SUBSET Uris]
      /\ h[0] = Elements(folders) /\ h[Len(wire)] = mine
      /\ \A i \in 1 .. Len(wire) : h[i] = Updated(h[i - 1], wire[i])
  BY <1>5 DEF IsFolderPath
<1>7. PICK g : g = [i \in 0 .. Len(wire) - 1 |-> h[i + 1]]
  OBVIOUS
<1>8. g \in [0 .. Len(wire') -> SUBSET Uris] /\ g[Len(wire')] = mine'
  BY <1>1, <1>2, <1>6, <1>7
<1>9. g[0] = Elements(folders')
  <2>1. g[0] = h[1] /\ h[1] = Updated(h[1 - 1], wire[1]) /\ h[1 - 1] = Elements(folders)
    BY <1>2, <1>6, <1>7
  <2> QED
    BY <1>2, <1>4, <2>1
<1>10. ASSUME NEW i \in 1 .. Len(wire') PROVE g[i] = Updated(g[i - 1], wire'[i])
  <2>1. i + 1 \in 1 .. Len(wire) /\ wire'[i] = wire[i + 1] /\ (i + 1) - 1 = i
    BY <1>2
  <2>2. g[i] = h[i + 1] /\ g[i - 1] = h[i]
    BY <1>2, <1>7
  <2>3. h[i + 1] = Updated(h[(i + 1) - 1], wire[i + 1])
    BY <1>6, <2>1
  <2> QED
    BY <2>1, <2>2, <2>3
<1>11. IsFolderPath(g)'
  BY <1>8, <1>9, <1>10 DEF IsFolderPath, Updated, Elements, NewTo, Same
<1> QED
  BY <1>1, <1>4, <1>11 DEF FInv, TypeOKAll

(* No event adds a folder twice, written one way or the other.             *)
AddedOnce == \A event \in Events : Once(event.added)

LEMMA FolderInit == InitAll => FInv /\ Once(folders)
<1> SUFFICES ASSUME InitAll PROVE FInv /\ Once(folders)
  OBVIOUS
<1>1. TypeOK
  BY TypeInit DEF InitAll
<1>2. folders \in Seq(Uris) /\ Len(folders) = 0 /\ Len(wire) = 0 /\ 1 .. 0 = {}
  BY DEF InitAll, Init
<1>3. Once(folders) /\ Elements(folders) = {}
  BY <1>2 DEF Once, Elements
<1>4. PICK h : h = [i \in 0 .. 0 |-> {}]
  OBVIOUS
<1>5. IsFolderPath(h)
  BY <1>2, <1>3, <1>4 DEF InitAll, IsFolderPath
<1> QED
  BY <1>1, <1>2, <1>3, <1>5, Zenon DEF InitAll, Init, FInv, TypeOKAll

(* Initialization sets the folders of both sides, before a message is sent.*)
LEMMA FolderInitialize ==
    ASSUME FInv, TypeOK', Initialize
    PROVE  FInv' /\ Once(folders')
<1>1. wire = <<>> /\ wire' = wire
  BY DEF FInv, Initialize, vars
<1>2. /\ folders' \in Seq(Uris) /\ mine' \subseteq Uris /\ mine' = Elements(folders')
      /\ Once(folders')
  <2>1. PICK f \in Uris, g \in Uris :
          \/ folders' = <<>> /\ mine' = {}
          \/ folders' = <<f>> /\ mine' = {f}
          \/ ~Same(f, g) /\ folders' = <<f, g>> /\ mine' = {f, g}
    <3>1. \A f : <<f>> # <<>>
      OBVIOUS
    <3>2. \A f, g : <<f, g>> # <<>>
      OBVIOUS
    <3> QED
      BY <3>1, <3>2 DEF Initialize, getWorkspaceFoldersFromInit
  <2>2. CASE folders' = <<>> /\ mine' = {}
    BY <2>2 DEF Elements, Once
  <2>3. CASE folders' = <<f>> /\ mine' = {f}
    <3>1. folders' \in Seq(Uris) /\ Len(folders') = 1 /\ folders'[1] = f /\ 1 .. 1 = {1}
      BY <2>3
    <3> QED
      BY <2>3, <3>1 DEF Elements, Once
  <2>4. CASE ~Same(f, g) /\ folders' = <<f, g>> /\ mine' = {f, g}
    <3>1. /\ folders' \in Seq(Uris) /\ Len(folders') = 2 /\ 1 .. 2 = {1, 2}
          /\ folders'[1] = f /\ folders'[2] = g
      BY <2>4
    <3> QED
      BY <2>4, <3>1 DEF Elements, Once, Same
  <2> QED
    BY <2>1, <2>2, <2>3, <2>4
<1>3. PICK h : h = [i \in 0 .. 0 |-> mine']
  OBVIOUS
<1>4. Len(wire') = 0 /\ 1 .. 0 = {}
  BY <1>1
<1>5. IsFolderPath(h)'
  BY <1>2, <1>3, <1>4 DEF IsFolderPath
<1> QED
  BY <1>1, <1>2, <1>5 DEF FInv, TypeOKAll, Initialize

LEMMA FolderStep ==
    ASSUME FInv, [NextAll]_allVars
    PROVE  FInv' /\ (AddedOnce /\ Once(folders) => Once(folders'))
<1>0. TypeOK'
  BY TypeStep, StepOfWiring DEF FInv, TypeOKAll
<1>1. CASE Initialize
  BY <1>0, <1>1, FolderInitialize
<1>2. CASE HandleAny
  BY <1>0, <1>2, FolderHandle DEF AddedOnce
<1>3. ASSUME NEW event \in Events, ChangeFolders(event)
      PROVE  FInv' /\ folders' = folders
  <2> DEFINE message == [method |-> "didChangeWorkspaceFolders", event |-> event]
  <2>1. message \in Message
    BY DEF Message, Fanned
  <2>2. Send(message) /\ folders' = folders /\ initialized' = initialized /\ initialized
    BY <1>3 DEF ChangeFolders, Tell
  <2>3. mine' = Updated(mine, message)
    BY <1>3 DEF ChangeFolders, Updated
  <2>4. mine' \subseteq Uris
    BY <2>3 DEF Updated, NewTo, FInv, TypeOKAll
  <2> HIDE DEF message
  <2> QED
    BY <1>0, <2>1, <2>2, <2>3, <2>4, FolderSend
<1>4. ASSUME initialized, Chat \/ (\E d \in Docs : Edit(d)), UNCHANGED <<folders, mine, initialized>>
      PROVE  FInv' /\ folders' = folders
  <2>1. PICK message \in Message : Send(message) /\ message.method # "didChangeWorkspaceFolders"
    <3>1. ASSUME NEW method \in DocEvents, NEW d \in Docs, NEW version \in 0 .. MaxVersion,
                 ClientDoes(method, d, version)
          PROVE  \E message \in Message : Send(message) /\ message.method # "didChangeWorkspaceFolders"
      <4>1. [method |-> method, doc |-> d, version |-> version] \in Message
        BY DEF Message
      <4> QED
        BY <3>1, <4>1 DEF ClientDoes, DocEvents
    <3>2. ASSUME NEW d \in Docs, Edit(d)
          PROVE  \E method \in DocEvents, version \in 0 .. MaxVersion : ClientDoes(method, d, version)
      BY <3>2, BoundsAssumption DEF Edit, DocEvents, FInv, TypeOKAll, TypeOK
    <3>3. CASE Chat
      <4>1. PICK method \in Asked \cup Noted : Send([method |-> method])
        BY <3>3 DEF Chat
      <4>2. [method |-> method] \in Message /\ method # "didChangeWorkspaceFolders"
        BY DEF Message, Asked, Noted
      <4> QED
        BY <4>1, <4>2
    <3> QED
      BY <1>4, <3>1, <3>2, <3>3
  <2>2. mine' = Updated(mine, message) /\ mine' \subseteq Uris
    BY <1>4, <2>1 DEF Updated, FInv, TypeOKAll
  <2> QED
    BY <1>0, <1>4, <2>1, <2>2, FolderSend
<1>5. ASSUME UNCHANGED <<folders, mine, initialized>>,
             \/ \E wish \in Wishes : Register(wish[1], wish[2])
             \/ Constructed \/ Listen \/ UNCHANGED vars
      PROVE  FInv' /\ folders' = folders
  <2>1. wire' = wire /\ folders' = folders /\ mine' = mine
    BY <1>5 DEF Register, Constructed, Listen, vars
  <2>2. PICK h : IsFolderPath(h)
    BY DEF FInv
  <2>3. IsFolderPath(h)'
    <3>1. \A i \in 1 .. Len(wire) : h[i] = Updated(h[i - 1], wire[i])
      BY <2>2 DEF IsFolderPath
    <3>2. \A i \in 1 .. Len(wire') : h[i] = Updated(h[i - 1], wire'[i])
      BY <2>1, <3>1
    <3> QED
      BY <2>1, <2>2, <3>2 DEF IsFolderPath, Updated, Elements, NewTo, Same
  <2> QED
    BY <1>5, <1>0, <2>1, <2>3 DEF FInv, TypeOKAll
<1> QED
  BY <1>1, <1>2, <1>3, <1>4, <1>5 DEF NextAll, allVars

LEMMA FolderInvariant == SpecAll => []FInv
  BY FolderInit, FolderStep, PTL DEF SpecAll

(* Type correctness of the documents and of the folders together.          *)
THEOREM TypeCorrect == SpecAll => []TypeOKAll
<1>1. FInv => TypeOKAll
  BY DEF FInv
<1> QED
  BY <1>1, FolderInvariant, PTL

(* If no event adds a folder twice, then the router lists no folder twice, *)
(* however the client has written it, and lists the folders of the client  *)
(* as soon as its messages are handled (FoldersFollowClient): for any      *)
(* events, number of messages on their way, and order among documents,     *)
(* chat and folders.                                                       *)
THEOREM FoldersAreTheClients == AddedOnce => (SpecAll => []FoldersFollowClient)
<1> SUFFICES ASSUME AddedOnce PROVE SpecAll => []FoldersFollowClient
  OBVIOUS
<1>1. InitAll => Once(folders)
  BY FolderInit
<1>2. FInv /\ Once(folders) /\ [NextAll]_allVars => Once(folders)'
  BY FolderStep DEF Once, Same
<1>3. FInv /\ Once(folders) => FoldersFollowClient
  <2> SUFFICES ASSUME FInv, Once(folders) PROVE FoldersFollowClient
    OBVIOUS
  <2>1. ASSUME wire = <<>> PROVE Elements(folders) = mine
    <3>1. PICK h : IsFolderPath(h)
      BY DEF FInv
    <3> QED
      BY <2>1, <3>1 DEF IsFolderPath
  <2> QED
    BY <2>1 DEF FoldersFollowClient, Once
<1> QED
  BY <1>1, <1>2, <1>3, FolderInvariant, PTL DEF SpecAll

=============================================================================
