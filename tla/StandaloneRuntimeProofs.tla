----------------------- MODULE StandaloneRuntimeProofs ------------------------
(***************************************************************************)
(* Proofs about StandaloneRuntime, for any machines, settings, clients and *)
(* changes: what EncryptionStartupProofs shows of the start holds with the *)
(* clients beside it, and in the experimental way a proxy of the           *)
(* environment reaches all of them whose class accepts it.                 *)
(***************************************************************************)
EXTENDS StandaloneRuntime, EncryptionStartupProofs

(* A step of the composition is one of the start or leaves it alone.       *)
LEMMA StartupRefined == SpecAll => Spec
<1>1. InitAll => Init
  BY DEF InitAll
<1>2. [NextAll]_varsAll => [Next]_vars
  BY DEF NextAll, varsAll, Startup, Machine, Client
<1> QED BY <1>1, <1>2, PTL DEF SpecAll, Spec

(* However the chunks of stdin fall, every byte goes to one reader, split  *)
(* at the newline, with servers and their clients running beside.          *)
THEOREM StreamSplitAll == SpecAll => []StreamSplitAtNewline
  BY StartupRefined, StreamSplit, PTL

(* With clients beside it too, the runtime starts only after details that  *)
(* pass the validation, and ends only without a line in time, for a line   *)
(* that is no JSON, or, not asked for details, for a server that throws.   *)
THEOREM ReasonedStartAll == SpecAll => []StartsAndEndsForAReason
  BY StartupRefined, ReasonedStart, PTL

-----------------------------------------------------------------------------
(* The environment's proxy.  What has to be known of the cache is that its *)
(* agent was made for the environment too.                                 *)

Explicit == getProxyUrlFromEnv

ProxyInv ==
    /\ clients = [c \in Clients |-> clients[c]]
    /\ machine.experimental /\ Explicit # NoProxy =>
           /\ agent # NoAgent => agent.proxy = Explicit
           /\ \A c \in Clients : \/ clients[c] = NoAgent
                                 \/ clients[c].proxy = Explicit
                                 \/ clients[c] = Bare /\ c \in refused

(* The loop over PROXY_ENV_VARS finds the first URL.                       *)
LEMMA FirstUrl ==
    ASSUME NEW i \in DOMAIN PROXY_ENV_VARS,
           machine.env[PROXY_ENV_VARS[i]] = "url",
           \A j \in 1 .. (i - 1) : machine.env[PROXY_ENV_VARS[j]] # "url"
    PROVE  Explicit = FromEnv(PROXY_ENV_VARS[i])
<1> DEFINE I == { j \in 1 .. 4 : machine.env[PROXY_ENV_VARS[j]] = "url" }
<1>1. DOMAIN PROXY_ENV_VARS = 1 .. 4 /\ Len(PROXY_ENV_VARS) = 4
  BY DEF PROXY_ENV_VARS
<1>2. i \in I /\ \A j \in I : i <= j
  BY <1>1
<1>3. Min(I) = i
  BY <1>2 DEF Min
<1>4. SelectInSeq(PROXY_ENV_VARS, LAMBDA v : machine.env[v] = "url") = i
  BY <1>1, <1>2, <1>3 DEF SelectInSeq
<1> QED BY <1>1, <1>4 DEF Explicit, getProxyUrlFromEnv

(* A proxy of the environment is no other, and its URL parses.             *)
LEMMA ExplicitType ==
    Explicit # NoProxy => Explicit.host \in Range(PROXY_ENV_VARS) /\ Explicit.scheme = "env"
<1> DEFINE J == SelectInSeq(PROXY_ENV_VARS, LAMBDA v : machine.env[v] = "url")
           I == { j \in 1 .. 4 : machine.env[PROXY_ENV_VARS[j]] = "url" }
<1>1. DOMAIN PROXY_ENV_VARS = 1 .. 4 /\ Len(PROXY_ENV_VARS) = 4
  BY DEF PROXY_ENV_VARS
<1>2. J = IF I # {} THEN Min(I) ELSE 0
  BY <1>1 DEF SelectInSeq
<1>3. ASSUME I # {} PROVE Min(I) \in I
  <2>1. \E m \in I : \A j \in I : m <= j
    <3>1. CASE 1 \in I
      BY <3>1
    <3>2. CASE 1 \notin I /\ 2 \in I
      BY <3>2
    <3>3. CASE 1 \notin I /\ 2 \notin I /\ 3 \in I
      BY <3>3
    <3>4. CASE 1 \notin I /\ 2 \notin I /\ 3 \notin I
      BY <1>3, <3>4
    <3> QED BY <3>1, <3>2, <3>3, <3>4
  <2> QED BY <2>1 DEF Min
<1> QED BY <1>1, <1>2, <1>3 DEF Explicit, getProxyUrlFromEnv, FromEnv, Range

LEMMA ExplicitParses == Explicit # NoProxy => ~ConstructorThrows(Explicit)
<1>1. Range(PROXY_ENV_VARS) = {"HTTPS_PROXY", "https_proxy", "HTTP_PROXY", "http_proxy"}
  BY DEF Range, PROXY_ENV_VARS
<1> QED BY <1>1, ExplicitType, ProxyAssumption DEF ConstructorThrows, Throws

(* An agent that is made with a proxy in the environment is made for it.   *)
LEMMA ExplicitAgent ==
    Explicit # NoProxy =>
        createSecureAgent.proxy = Explicit /\ createSecureAgent # NoAgent
<1>1. ASSUME Explicit # NoProxy PROVE createSecureAgent = Agent("Explicit", Explicit, getCertificates)
  BY <1>1 DEF createSecureAgent, Explicit
<1> QED BY <1>1 DEF Agent, NoAgent

LEMMA ProxyInit == InitProxy => ProxyInv
  BY DEF InitProxy, ProxyInv

LEMMA ProxyStep == ProxyInv /\ [NextAll]_varsAll => ProxyInv'
<1> SUFFICES ASSUME ProxyInv, [NextAll]_varsAll PROVE ProxyInv'
  OBVIOUS
<1> USE DEF ProxyInv
<1>0. machine' = machine
  BY DEF NextAll, varsAll, proxyVars, Startup, Machine, MachineChanges, Client, sdkInitializator,
         UseCachedAgent, UseNewAgent, UseStandard, Fallback, NewClient, world
<1>1. machine' = machine /\ Explicit' = Explicit
  BY <1>0 DEF Explicit, getProxyUrlFromEnv, SelectInSeq, PROXY_ENV_VARS, FromEnv, NoProxy
<1>2. CASE UNCHANGED <<agent, clients, refused>>
  BY <1>1, <1>2
<1>3. ASSUME NEW c \in Clients, sdkInitializator(c) PROVE ProxyInv'
  <2>1. CASE UseCachedAgent(c)
    BY <1>1, <2>1 DEF UseCachedAgent
  <2>2. CASE UseNewAgent(c)
    BY <1>1, <2>2, ExplicitAgent DEF UseNewAgent
  <2>3. CASE UseStandard(c)
    BY <1>1, <2>3 DEF UseStandard
  <2>4. CASE Fallback(c)
    <3>1. NoHandler => ~(machine.experimental /\ Explicit # NoProxy)
      BY ExplicitAgent, ExplicitParses DEF NoHandler
    <3>2. refused \subseteq refused' /\ (~NoHandler => c \in refused')
      BY <2>4 DEF Fallback
    <3>3. ~NoHandler => agent' = agent \/ agent' = createSecureAgent
      BY <2>4 DEF Fallback
    <3>4. NoHandler => agent' = agent
      BY <2>4 DEF Fallback
    <3>5. /\ clients' = [d \in Clients |-> clients'[d]]
          /\ \A d \in Clients : clients'[d] = clients[d] \/ (d = c /\ clients'[d] = Bare)
      BY <2>4 DEF Fallback
    <3> QED BY <1>1, <3>1, <3>2, <3>3, <3>4, <3>5, ExplicitAgent
  <2> QED BY <1>3, <2>1, <2>2, <2>3, <2>4 DEF sdkInitializator
<1> QED BY <1>2, <1>3
        DEF NextAll, varsAll, proxyVars, Startup, Machine, MachineChanges, Client

(* For every environment, machine and history of changes, a valid proxy of *)
(* the environment is what every client of the experimental way uses whose *)
(* class does not throw on it.                                             *)
THEOREM ExplicitProxy == SpecAll => []ExplicitProxyHonoured
<1>1. InitAll => ProxyInv
  BY ProxyInit DEF InitAll
<1>2. ProxyInv => ExplicitProxyHonoured
  <2> SUFFICES ASSUME ProxyInv,
                      NEW i \in DOMAIN PROXY_ENV_VARS, NEW c \in Clients,
                      machine.experimental,
                      machine.env[PROXY_ENV_VARS[i]] = "url",
                      \A j \in 1 .. (i - 1) : machine.env[PROXY_ENV_VARS[j]] # "url",
                      clients[c] # NoAgent
               PROVE  \/ clients[c].proxy = FromEnv(PROXY_ENV_VARS[i])
                      \/ clients[c] = Bare /\ c \in refused
    BY DEF ExplicitProxyHonoured
  <2>1. Explicit = FromEnv(PROXY_ENV_VARS[i])
    BY FirstUrl
  <2>2. Explicit # NoProxy
    BY <2>1 DEF FromEnv, NoProxy
  <2> QED BY <2>1, <2>2 DEF ProxyInv
<1> QED BY <1>1, <1>2, ProxyStep, PTL DEF SpecAll

-----------------------------------------------------------------------------
(* The cache.  It is filled once, and whoever has an agent has that one.   *)

CacheInv ==
    /\ clients = [c \in Clients |-> clients[c]]
    /\ machine.experimental =>
           /\ agent # NoAgent => reported = IF refused = {} THEN agent.mode ELSE "Failed"
           /\ agent = NoAgent => refused = {}
           /\ \A c \in Clients : clients[c] \in {NoAgent, Bare, agent}

LEMMA AgentModes ==
    createSecureAgent.mode \in {"Explicit", "AutoDetect", "NoProxy"}
  BY DEF createSecureAgent, Agent

LEMMA CacheStep == CacheInv /\ [NextAll]_varsAll => CacheInv'
<1> SUFFICES ASSUME CacheInv, [NextAll]_varsAll PROVE CacheInv'
  OBVIOUS
<1> USE DEF CacheInv
<1>1. machine' = machine
  BY DEF NextAll, varsAll, proxyVars, Startup, Machine, MachineChanges, Client, sdkInitializator,
         UseCachedAgent, UseNewAgent, UseStandard, Fallback, NewClient, world
<1>2. CASE UNCHANGED <<agent, clients, refused, reported>>
  BY <1>1, <1>2
<1>3. ASSUME NEW c \in Clients, sdkInitializator(c) PROVE CacheInv'
  <2>1. CASE UseCachedAgent(c)
    BY <1>1, <2>1 DEF UseCachedAgent
  <2>2. CASE UseNewAgent(c)
    BY <1>1, <2>2 DEF UseNewAgent
  <2>3. CASE UseStandard(c)
    BY <1>1, <2>3 DEF UseStandard
  <2>4. CASE Fallback(c)
    <3>1. CASE ~machine.experimental
      BY <1>1, <2>4, <3>1 DEF Fallback
    <3>2. CASE machine.experimental /\ agent # NoAgent
      BY <1>1, <2>4, <3>2 DEF Fallback, NoHandler
    <3>3. CASE machine.experimental /\ agent = NoAgent
      <4>1. createSecureAgent # NoAgent
        BY AgentModes DEF NoAgent, Agent
      <4>2. \/ refused' # {} /\ agent' = createSecureAgent
            \/ refused' = {} /\ agent' = NoAgent
        BY <2>4, <3>3 DEF Fallback
      <4>3. \A d \in Clients : clients'[d] \in {NoAgent, Bare}
        BY <2>4, <3>3 DEF Fallback
      <4> QED BY <1>1, <2>4, <3>3, <4>1, <4>2, <4>3 DEF Fallback
    <3> QED BY <3>1, <3>2, <3>3
  <2> QED BY <1>3, <2>1, <2>2, <2>3, <2>4 DEF sdkInitializator
<1> QED BY <1>2, <1>3
        DEF NextAll, varsAll, proxyVars, Startup, Machine, MachineChanges, Client

(* All clients of a runtime in the experimental way that have an agent     *)
(* share the one of its manager, and the last metric names the way it was  *)
(* chosen or, once the class of a client has thrown on it, a failure.      *)
THEOREM OneAgent == SpecAll => []OneAgentAsReported
<1>1. InitAll => CacheInv
  BY DEF InitAll, InitProxy, CacheInv
<1>2. CacheInv => OneAgentAsReported
  BY DEF CacheInv, OneAgentAsReported
<1> QED BY <1>1, <1>2, CacheStep, PTL DEF SpecAll

-----------------------------------------------------------------------------
(* Types.  TypeOK is part of the invariant of EncryptionStartupProofs; of  *)
(* the clients it has to be known that they are a function.                *)

ClientsOK == ProxyOK /\ clients = [c \in Clients |-> clients[c]]

LEMMA ProxyOKInit == InitProxy => ClientsOK
  BY ProxyAssumption DEF InitProxy, ClientsOK, ProxyOK, NoAgent, Agent

LEMMA ProxyOKStep == ClientsOK /\ [NextAll]_varsAll => ClientsOK'
<1> SUFFICES ASSUME ClientsOK, [NextAll]_varsAll PROVE ClientsOK'
  OBVIOUS
<1> USE DEF ClientsOK, ProxyOK
<1>1. CASE UNCHANGED proxyVars
  BY <1>1 DEF proxyVars
<1>2. CASE MachineChanges
  <2>1. changes' \in 0 .. MaxChanges
    BY <1>2, ProxyAssumption DEF MachineChanges
  <2>2. setting' \in Settings[machine.platform]
    BY <1>2 DEF MachineChanges
  <2>3. unreadable' \subseteq Fragile[machine.platform]
    BY <1>2 DEF MachineChanges
  <2>4. expired' \subseteq Perishable
    BY <1>2 DEF MachineChanges
  <2> QED BY <1>2, <2>1, <2>2, <2>3, <2>4 DEF MachineChanges
<1>3. ASSUME NEW c \in Clients, sdkInitializator(c) PROVE ClientsOK'
  <2>1. UNCHANGED world
    BY <1>3 DEF sdkInitializator, UseCachedAgent, UseNewAgent, UseStandard, Fallback, NewClient
  <2>2. CASE UseCachedAgent(c)
    BY <2>1, <2>2 DEF UseCachedAgent, world
  <2>3. CASE UseNewAgent(c)
    <3>1. agent.mode = "none"
      BY <2>3 DEF UseNewAgent, NoAgent, Agent
    <3>2. agent'.mode \in {"Explicit", "AutoDetect", "NoProxy"}
      BY <2>3, AgentModes DEF UseNewAgent
    <3>3. \A d \in Clients : clients'[d] = IF d = c THEN agent' ELSE clients[d]
      BY <2>3 DEF UseNewAgent
    <3> QED BY <2>1, <2>3, <3>1, <3>2, <3>3 DEF UseNewAgent, world
  <2>4. CASE UseStandard(c)
    <3>1. makeProxyConfigv3Standalone.mode \in {"standard", "bare"}
      BY DEF makeProxyConfigv3Standalone, Agent, Bare
    <3> QED BY <2>1, <2>4, <3>1 DEF UseStandard, world
  <2>5. CASE Fallback(c)
    <3>1. refused' \subseteq Clients
      BY <2>5 DEF Fallback
    <3>2. \/ agent' = agent
          \/ agent.mode = "none" /\ agent'.mode \in {"Explicit", "AutoDetect", "NoProxy"}
      BY <2>5, AgentModes DEF Fallback, NoAgent, Agent
    <3>3. /\ clients' = [d \in Clients |-> clients'[d]]
          /\ \A d \in Clients : clients'[d].mode = "bare" \/ clients'[d] = clients[d]
      BY <2>5 DEF Fallback, Bare, Agent
    <3> QED BY <2>1, <2>5, <3>1, <3>2, <3>3 DEF Fallback, world
  <2> QED BY <1>3, <2>2, <2>3, <2>4, <2>5 DEF sdkInitializator
<1> QED BY <1>1, <1>2, <1>3 DEF NextAll, varsAll, Startup, Machine, Client

(* Type correctness of the runtime and of its clients.                     *)
THEOREM TypeCorrectAll == SpecAll => []TypeOKAll
<1>1. InitAll => ClientsOK
  BY ProxyOKInit DEF InitAll
<1>2. IInv /\ ClientsOK => TypeOKAll
  BY DEF IInv, ClientsOK, TypeOKAll
<1> QED BY <1>1, <1>2, ProxyOKStep, StartupRefined, Invariance, PTL DEF SpecAll

-----------------------------------------------------------------------------
(* Certificates.                                                           *)

(* What getCertificates has, whatever its readers meet.                    *)
LEMMA DefaultsKept == Defaults \ expired \subseteq getCertificates
<1> SUFFICES ASSUME NEW c \in Defaults, c \notin expired PROVE c \in getCertificates
  OBVIOUS
<1> DEFINE system == IF SystemReaderThrows THEN {} ELSE { <<d>> : d \in readSystemCertificates }
           bundles == readCertificateFile(machine.AWS_CA_BUNDLE)
                          \cup readCertificateFile(machine.NODE_EXTRA_CA_CERTS)
<1>1. <<c>> # <<>> /\ Head(<<c>>) = c /\ c \in Range(<<c>>)
  BY DEF Range
<1>2. <<c>> \in removeExpiredCertificates({ <<d>> : d \in Defaults } \cup system \cup bundles)
  BY <1>1 DEF removeExpiredCertificates
<1> QED BY <1>1, <1>2 DEF getCertificates

LEMMA BundlesKept ==
    ASSUME NEW path \in {machine.AWS_CA_BUNDLE, machine.NODE_EXTRA_CA_CERTS} \ unreadable,
           path # "unset", Holds[path] # <<>>, Head(Holds[path]) \notin expired
    PROVE  Range(Holds[path]) \subseteq getCertificates
<1> DEFINE system == IF SystemReaderThrows THEN {} ELSE { <<d>> : d \in readSystemCertificates }
           bundles == readCertificateFile(machine.AWS_CA_BUNDLE)
                          \cup readCertificateFile(machine.NODE_EXTRA_CA_CERTS)
<1>1. Holds[path] \in bundles
  BY DEF readCertificateFile
<1>2. Holds[path] \in
        removeExpiredCertificates({ <<d>> : d \in Defaults } \cup system \cup bundles)
  BY <1>1 DEF removeExpiredCertificates
<1> QED BY <1>2 DEF getCertificates

(* What the reader of the platform has: every source that it can get at,   *)
(* whatever the others are like, and it does not throw if there is one.    *)
LEMMA LinuxRead ==
    ASSUME machine.platform = "linux", NEW source \in SystemSources
    PROVE  ~SystemReaderThrows /\ Range(Holds[source]) \subseteq readSystemCertificates
<1>1. source \in LinuxSources \ unreadable
  BY DEF SystemSources
<1>2. Range(Holds[source]) \subseteq readLinuxCertificates
  BY <1>1 DEF readLinuxCertificates, In
<1> QED BY <1>2 DEF readSystemCertificates, SystemReaderThrows

LEMMA DarwinRead ==
    ASSUME machine.platform = "darwin", NEW source \in SystemSources
    PROVE  ~SystemReaderThrows /\ Range(Holds[source]) \subseteq readSystemCertificates
<1>1. source \in Keychains \ unreadable /\ "security" \notin unreadable
  BY DEF SystemSources
<1>2. Range(Holds[source]) \subseteq readMacosCertificates
  BY <1>1 DEF readMacosCertificates, In
<1> QED BY <1>1, <1>2 DEF readSystemCertificates, SystemReaderThrows

LEMMA WindowsRead ==
    ASSUME machine.platform = "win32", NEW source \in SystemSources
    PROVE  ~SystemReaderThrows /\ Range(Holds[source]) \subseteq readSystemCertificates
<1>1. source = "win-ca" /\ "win-ca" \notin unreadable
  BY DEF SystemSources
<1>2. Range(Holds[source]) \subseteq readWindowsCertificates
  BY <1>1 DEF readWindowsCertificates, In
<1> QED BY <1>1, <1>2 DEF readSystemCertificates, SystemReaderThrows

LEMMA SystemKept ==
    ASSUME NEW source \in SystemSources
    PROVE  Range(Holds[source]) \ expired \subseteq getCertificates
<1> SUFFICES ASSUME NEW c \in Range(Holds[source]), c \notin expired
             PROVE  c \in getCertificates
  OBVIOUS
<1> DEFINE system == IF SystemReaderThrows THEN {} ELSE { <<d>> : d \in readSystemCertificates }
           bundles == readCertificateFile(machine.AWS_CA_BUNDLE)
                          \cup readCertificateFile(machine.NODE_EXTRA_CA_CERTS)
<1>1. <<c>> # <<>> /\ Head(<<c>>) = c /\ c \in Range(<<c>>)
  BY DEF Range
<1>2. machine.platform \in {"linux", "darwin", "win32"}
  BY DEF SystemSources
<1>3. ~SystemReaderThrows /\ c \in readSystemCertificates
  BY <1>2, LinuxRead, DarwinRead, WindowsRead
<1>4. <<c>> \in system
  BY <1>3
<1>5. <<c>> \in removeExpiredCertificates({ <<d>> : d \in Defaults } \cup system \cup bundles)
  BY <1>1, <1>4 DEF removeExpiredCertificates
<1> QED BY <1>1, <1>5 DEF getCertificates

(* An agent is made by getCertificates and never changes otherwise.        *)
LEMMA AgentStep ==
    ASSUME [NextAll]_varsAll, agent' # agent
    PROVE  agent'.roots = getCertificates
<1>1. PICK c \in Clients : sdkInitializator(c)
  BY DEF NextAll, varsAll, proxyVars, Startup, Machine, MachineChanges, Client
<1>2. agent' = createSecureAgent
  BY <1>1 DEF sdkInitializator, UseCachedAgent, UseNewAgent, UseStandard, Fallback
<1> QED BY <1>2 DEF createSecureAgent, Agent

(* For every machine, and whatever can be read of it at the time, an agent *)
(* is made with every valid certificate of the sources that can be read:   *)
(* Node's own, the bundles of the environment, and the files (listed ones  *)
(* too), keychains or store of the platform.                               *)
THEOREM SourcesApart == SpecAll => SourcesFailAlone
<1>1. [NextAll]_varsAll =>
        [ agent' # agent =>
            /\ Defaults \ expired \subseteq agent'.roots
            /\ \A path \in {machine.AWS_CA_BUNDLE, machine.NODE_EXTRA_CA_CERTS} \ unreadable :
                   path # "unset" /\ Holds[path] # <<>> /\ Head(Holds[path]) \notin expired
                       => Range(Holds[path]) \subseteq agent'.roots
            /\ \A source \in SystemSources :
                   Range(Holds[source]) \ expired \subseteq agent'.roots
        ]_proxyVars
  BY AgentStep, DefaultsKept, BundlesKept, SystemKept
<1> QED BY <1>1, PTL DEF SpecAll, SourcesFailAlone

=============================================================================
