----------------------------- MODULE ProxyConfig ------------------------------
(***************************************************************************)
(* How the SDK clients of a standalone runtime get their proxy and their   *)
(* certificates: sdkInitializator of standalone.ts and what is under it    *)
(* (util/standalone: ProxyConfigManager, makeProxyConfigv3Standalone, the  *)
(* certificate readers and the readers of the system's proxy settings).    *)
(*                                                                         *)
(* One manager serves all servers of a runtime and keeps its first agent.  *)
(* The environment variables are those of the process and do not change;   *)
(* proxy settings, files and the validity of certificates do, under the    *)
(* running process.  A component without a specification of its own:       *)
(* StandaloneRuntime composes it with the start of the runtime.            *)
(***************************************************************************)
EXTENDS Integers, SequencesExt

CONSTANTS
    Clients,      \* SDK clients that the servers create
    Machines,     \* what a process starts with: [platform, experimental,
                  \*   env : [EnvVars -> ...], AWS_CA_BUNDLE, NODE_EXTRA_CA_CERTS]
    Settings,     \* for a platform, the system proxy settings a user can make
    Malformed,    \* host names that no URL can have
    Defaults,     \* tls.rootCertificates
    Holds,        \* the certificates in a file, keychain or store, in order
    Listing,      \* the files of a directory of certificates
    UnixFiles,
    Keychains,
    Fragile,      \* for a platform, the sources that may become unreadable
    Perishable,   \* the certificates that may expire
    MaxChanges    \* bound: how often the machine changes under the process

VARIABLES
    machine,      \* the environment of the process
    setting,      \* the proxy setting of the system now
    unreadable,   \* the sources of certificates that cannot be read now
    expired,      \* the certificates that have expired
    agent,        \* cachedAgent (and the cachedV3Config around it)
    clients,      \* what a client was created with
    refused,      \* history: the clients whose class once threw on what it was given
    reported,     \* the last runtime_httpProxyConfiguration metric
    changes       \* bound: changes of the machine so far

proxyVars == <<machine, setting, unreadable, expired, agent, clients, refused, reported, changes>>
world == <<machine, setting, unreadable, expired, changes>>

-----------------------------------------------------------------------------
(* Proxies.  A proxy is a scheme and a host; an environment variable that  *)
(* holds a URL stands for the proxy it names.                              *)

PROXY_ENV_VARS == <<"HTTPS_PROXY", "https_proxy", "HTTP_PROXY", "http_proxy">>

NoProxy == [scheme |-> "none", host |-> "none"]
Throws == [scheme |-> "throws", host |-> "throws"]

FromEnv(variable) == [scheme |-> "env", host |-> variable]

(* Only what the variables are read for: a value that holds a URL parses.  *)
ASSUME ProxyAssumption ==
    /\ MaxChanges \in Nat
    /\ UnixFiles \cup Keychains \subseteq DOMAIN Holds
    /\ \A m \in Machines : "unset" \notin DOMAIN Holds \cup Fragile[m.platform]
    /\ Malformed \cap {"HTTPS_PROXY", "https_proxy", "HTTP_PROXY", "http_proxy", "throws"} = {}

(* Mutant of getProxyUrlFromEnv: gives up at a variable that is no URL.    *)
getProxyUrlFromEnv_stops ==
    LET i == SelectInSeq(PROXY_ENV_VARS, LAMBDA v : machine.env[v] \notin {"unset", "empty"})
    IN IF i = 0 \/ machine.env[PROXY_ENV_VARS[i]] # "url" THEN NoProxy ELSE FromEnv(PROXY_ENV_VARS[i])

(* The first variable that holds a URL; "empty" and "malformed" ones are   *)
(* passed over.                                                            *)
getProxyUrlFromEnv ==
    LET i == SelectInSeq(PROXY_ENV_VARS, LAMBDA v : machine.env[v] = "url")
    IN IF i = 0 THEN NoProxy ELSE FromEnv(PROXY_ENV_VARS[i])

(* The output of scutil is a sequence of lines: "open" (a dictionary or an *)
(* array, with a key but for the outermost), "close", "entry" (key :       *)
(* value) and "other", which makes the JSON that is built of them          *)
(* malformed, as do braces that do not match.  Only entries of the         *)
(* outermost dictionary matter to the caller.  depth is -1 behind the last *)
(* brace.                                                                  *)
parseScutilOutput(output) ==
    FoldLeft(
        LAMBDA parsed, l :
            CASE l.is = "open" /\ parsed.depth >= 0 /\ (l.key = "" <=> parsed.depth = 0)
                     -> [parsed EXCEPT !.depth = @ + 1]
              [] l.is = "close" /\ parsed.depth > 0
                     -> [parsed EXCEPT !.depth = IF @ = 1 THEN -1 ELSE @ - 1]
              [] l.is = "entry" /\ parsed.depth > 0
                     -> IF parsed.depth = 1
                        THEN [parsed EXCEPT !.settings = (l.key :> l.value) @@ @]
                        ELSE parsed
              [] OTHER -> [parsed EXCEPT !.fails = TRUE],
        [depth |-> 0, settings |-> <<>>, fails |-> FALSE],
        output)

(* The first enabled protocol with a host and a port, or nothing when the  *)
(* command or the parser fails.  An automatic configuration is not used.   *)
getMacSystemProxy(scutil) ==
    LET parsed == parseScutilOutput(scutil.output)
        Of(key) == IF key \in DOMAIN parsed.settings THEN parsed.settings[key] ELSE ""
        Enabled(enable, host, port) == Of(enable) = "1" /\ Of(host) # "" /\ Of(port) # ""
    IN CASE scutil.fails \/ parsed.fails \/ (scutil.output # <<>> /\ parsed.depth # -1) -> NoProxy
         [] Enabled("HTTPEnable", "HTTPProxy", "HTTPPort") ->
                [scheme |-> "http", host |-> Of("HTTPProxy")]
         [] Enabled("HTTPSEnable", "HTTPSProxy", "HTTPSPort") ->
                [scheme |-> "http", host |-> Of("HTTPSProxy")]
         [] OTHER -> NoProxy

(* Of the registry: a URL, pairs of protocol and host, or a bare host.     *)
(* Pairs that name neither https nor http (SOCKS only) are an exception.   *)
getWindowsSystemProxy(registry) ==
    IF registry.ProxyEnable \in {"absent", "0x0"} \/ registry.form = "absent" THEN NoProxy
    ELSE CASE registry.form = "url" -> [scheme |-> registry.scheme, host |-> registry.host]
           [] registry.form = "bare" -> [scheme |-> "http", host |-> registry.host]
           [] registry.form = "pairs" ->
                  LET usable == SelectSeq(<<"https", "http">>, LAMBDA p : p \in DOMAIN registry.hosts)
                  IN IF usable = <<>> THEN Throws
                     ELSE [scheme |-> usable[1], host |-> registry.hosts[usable[1]]]

getSystemProxy ==
    CASE machine.platform = "darwin" -> getMacSystemProxy(setting)
      [] machine.platform = "win32" -> getWindowsSystemProxy(setting)
      [] OTHER -> NoProxy

-----------------------------------------------------------------------------
(* Certificates *)

In(sources) == UNION { Range(Holds[s]) : s \in sources \ unreadable }

(* The well-known files, and those of the directories that can be listed.  *)
LinuxSources == UnixFiles \cup UNION { Listing[d] : d \in DOMAIN Listing \ unreadable }

(* Mutant of readLinuxCertificates: any error is the error of all.         *)
readLinuxCertificates_firstError ==
    IF (LinuxSources \cup DOMAIN Listing) \cap unreadable # {} THEN {} ELSE In(LinuxSources)

(* Errors are kept back: what is readable is used, and the first error is  *)
(* reported only when nothing is.                                          *)
readLinuxCertificates == In(LinuxSources)

(* Both keychains, without duplicates.                                     *)
readMacosCertificates == In(Keychains)

readWindowsCertificates == In({"win-ca"})

(* A command that cannot be run has no stdout; a module may not load.      *)
SystemReaderThrows ==
    \/ machine.platform = "darwin" /\ "security" \in unreadable
    \/ machine.platform = "win32" /\ "win-ca" \in unreadable

readSystemCertificates ==
    CASE machine.platform = "darwin" -> readMacosCertificates
      [] machine.platform = "linux" -> readLinuxCertificates
      [] machine.platform = "win32" -> readWindowsCertificates
      [] OTHER -> {}

(* A bundle named by the environment, one entry for all of the file.       *)
readCertificateFile(path) ==
    IF path = "unset" \/ path \in unreadable THEN {} ELSE {Holds[path]}

(* X509Certificate parses the first certificate of an entry: its date      *)
(* decides for all of a bundle; an entry without a certificate is dropped. *)
removeExpiredCertificates(entries) ==
    { e \in entries : e # <<>> /\ Head(e) \notin expired }

(* Node's own certificates, the system's unless their reader throws, and   *)
(* the bundles.                                                            *)
getCertificates ==
    LET system == IF SystemReaderThrows THEN {} ELSE { <<c>> : c \in readSystemCertificates }
        bundles == readCertificateFile(machine.AWS_CA_BUNDLE)
                       \cup readCertificateFile(machine.NODE_EXTRA_CA_CERTS)
    IN UNION { Range(e) :
               e \in removeExpiredCertificates({ <<c>> : c \in Defaults } \cup system \cup bundles) }

-----------------------------------------------------------------------------
(* Agents and clients.  A client has an agent, or none of its own (Bare),  *)
(* or is not created yet (NoAgent).                                        *)

Agent(mode, proxy, roots) == [mode |-> mode, proxy |-> proxy, roots |-> roots]
NoAgent == Agent("none", NoProxy, {})
Bare == Agent("bare", NoProxy, {})

(* The constructor of the proxy agent (of the library) parses the URL.     *)
ConstructorThrows(proxy) == proxy = Throws \/ proxy.host \in Malformed

(* The environment first; the system's setting is read only without it.    *)
createSecureAgent ==
    LET explicit == getProxyUrlFromEnv
        system == getSystemProxy
    IN CASE explicit # NoProxy -> Agent("Explicit", explicit, getCertificates)
         [] explicit = NoProxy /\ system # NoProxy -> Agent("AutoDetect", system, getCertificates)
         [] OTHER -> Agent("NoProxy", NoProxy, getCertificates)

(* HTTPS_PROXY, even an empty one, hides https_proxy; the others do not    *)
(* count.  An unreadable bundle is an exception with or without a proxy.   *)
standardVariable == IF machine.env["HTTPS_PROXY"] # "unset" THEN "HTTPS_PROXY" ELSE "https_proxy"

StandardThrows ==
    \/ machine.AWS_CA_BUNDLE \in unreadable
    \/ machine.env[standardVariable] = "malformed"

makeProxyConfigv3Standalone ==
    IF machine.env[standardVariable] = "url"
    THEN Agent("standard", FromEnv(standardVariable),
               UNION { Range(e) : e \in readCertificateFile(machine.AWS_CA_BUNDLE) })
    ELSE Bare

-----------------------------------------------------------------------------

InitProxy ==
    /\ machine \in Machines
    /\ setting \in Settings[machine.platform]
    /\ unreadable \in SUBSET Fragile[machine.platform]
    /\ expired \in SUBSET Perishable
    /\ agent = NoAgent
    /\ clients = [c \in Clients |-> NoAgent]
    /\ refused = {}
    /\ reported = "nothing"
    /\ changes = 0

(* The user changes the proxy, a source of certificates goes or comes      *)
(* back, a certificate expires.                                            *)
MachineChanges ==
    /\ changes < MaxChanges
    /\ changes' = changes + 1
    /\ \/ setting' \in Settings[machine.platform] \ {setting} /\ UNCHANGED <<unreadable, expired>>
       \/ /\ \E s \in Fragile[machine.platform] :
                 unreadable' = IF s \in unreadable THEN unreadable \ {s} ELSE unreadable \cup {s}
          /\ UNCHANGED <<setting, expired>>
       \/ \E c \in Perishable \ expired : expired' = expired \cup {c} /\ UNCHANGED <<setting, unreadable>>
    /\ UNCHANGED <<machine, agent, clients, refused, reported>>

NewClient(c) == clients[c] = NoAgent /\ UNCHANGED world

(* Mutant of UseCachedAgent: every client gets an agent of its own time.   *)
UseCachedAgent_rebuilds(c) ==
    /\ NewClient(c)
    /\ machine.experimental /\ agent # NoAgent /\ ~ConstructorThrows(createSecureAgent.proxy)
    /\ clients' = [clients EXCEPT ![c] = createSecureAgent]
    /\ UNCHANGED <<agent, refused, reported>>

(* getV3ProxyConfig and getSecureAgent return what they keep.              *)
UseCachedAgent(c) ==
    /\ NewClient(c)
    /\ machine.experimental /\ agent # NoAgent
    /\ clients' = [clients EXCEPT ![c] = agent]
    /\ UNCHANGED <<agent, refused, reported>>

(* The first time, and every time after an exception.                      *)
UseNewAgent(c) ==
    /\ NewClient(c)
    /\ machine.experimental /\ agent = NoAgent /\ ~ConstructorThrows(createSecureAgent.proxy)
    /\ agent' = createSecureAgent
    /\ clients' = [clients EXCEPT ![c] = agent']
    /\ reported' = agent'.mode
    /\ UNCHANGED refused

(* The standard way keeps nothing and reports nothing.                     *)
UseStandard(c) ==
    /\ NewClient(c)
    /\ ~machine.experimental /\ ~StandardThrows
    /\ clients' = [clients EXCEPT ![c] = makeProxyConfigv3Standalone]
    /\ UNCHANGED <<agent, refused, reported>>

(* The request handler cannot be made.  (For a URL that does not parse, a  *)
(* metric of success goes out just before, by createSecureAgent.)          *)
NoHandler ==
    IF machine.experimental
    THEN agent = NoAgent /\ ConstructorThrows(createSecureAgent.proxy)
    ELSE StandardThrows

(* The catch: a failed metric and a client without the proxy.  It is       *)
(* reached without a request handler, or with one (kept for the next       *)
(* client) on which the class of the client throws.  The second attempt to *)
(* create the client may throw too, in the face of the server.             *)
Fallback(c) ==
    /\ NewClient(c)
    /\ \/ NoHandler /\ UNCHANGED <<agent, refused>>
       \/ /\ ~NoHandler
          /\ agent' = IF machine.experimental /\ agent = NoAgent THEN createSecureAgent ELSE agent
          /\ refused' = refused \cup {c}
    /\ clients' \in {clients, [clients EXCEPT ![c] = Bare]}
    /\ reported' = "Failed"

sdkInitializator(c) == UseCachedAgent(c) \/ UseNewAgent(c) \/ UseStandard(c) \/ Fallback(c)

-----------------------------------------------------------------------------
(* Properties *)

(* The environment, the settings and the validity of certificates are      *)
(* among what was given, and a client has the agent, none or one of the    *)
(* standard way.                                                           *)
ProxyOK ==
    /\ machine \in Machines
    /\ setting \in Settings[machine.platform]
    /\ unreadable \subseteq Fragile[machine.platform]
    /\ expired \subseteq Perishable
    /\ agent.mode \in {"none", "Explicit", "AutoDetect", "NoProxy"}
    /\ \A c \in Clients : clients[c].mode \in {"none", "bare", "standard", agent.mode}
    /\ refused \subseteq Clients
    /\ reported \in {"nothing", "Failed", "Explicit", "AutoDetect", "NoProxy"}
    /\ changes \in 0 .. MaxChanges

(* docs/proxy.md, "Explicit HTTP Proxy", for the experimental way that it  *)
(* describes (the standard one knows two of the four variables): a valid   *)
(* proxy of the environment is honoured by every client, the first in      *)
(* order of precedence, whatever stands in the variables before it,        *)
(* whatever the certificate readers meet and whatever the system's own     *)
(* proxy setting is or becomes.  A client without it is one whose class    *)
(* threw on it.                                                            *)
ExplicitProxyHonoured ==
    \A i \in DOMAIN PROXY_ENV_VARS, c \in Clients :
        /\ machine.experimental
        /\ machine.env[PROXY_ENV_VARS[i]] = "url"
        /\ \A j \in 1 .. (i - 1) : machine.env[PROXY_ENV_VARS[j]] # "url"
        /\ clients[c] # NoAgent
        => \/ clients[c].proxy = FromEnv(PROXY_ENV_VARS[i])
           \/ clients[c] = Bare /\ c \in refused

(* The files, keychains or stores that the reader of the platform can get  *)
(* at now: files in a directory only if it can be listed, keychains only   *)
(* by a command that runs.                                                 *)
SystemSources ==
    CASE machine.platform = "linux"  -> LinuxSources \ unreadable
      [] machine.platform = "darwin" -> IF "security" \in unreadable THEN {} ELSE Keychains \ unreadable
      [] machine.platform = "win32"  -> {"win-ca"} \ unreadable
      [] OTHER -> {}

(* getCertificates: a source that cannot be read costs its own             *)
(* certificates and no others.  An agent is made with every certificate    *)
(* that is valid and stands in a source that is readable then: Node's own  *)
(* list, a bundle of the environment (which counts by its first            *)
(* certificate), a file, keychain or store of the platform.                *)
SourcesFailAlone ==
    [][ agent' # agent =>
            /\ Defaults \ expired \subseteq agent'.roots
            /\ \A path \in {machine.AWS_CA_BUNDLE, machine.NODE_EXTRA_CA_CERTS} \ unreadable :
                   path # "unset" /\ Holds[path] # <<>> /\ Head(Holds[path]) \notin expired
                       => Range(Holds[path]) \subseteq agent'.roots
            /\ \A source \in SystemSources :
                   Range(Holds[source]) \ expired \subseteq agent'.roots
      ]_proxyVars

(* The manager's cache in the experimental way: the clients of all servers *)
(* share one agent, chosen once, however the machine changes between them. *)
(* From then on the last metric names the way it was chosen, even when     *)
(* clients before it fell back, until the class of a client throws on it:  *)
(* one client that does leaves a failure for all, for good.                *)
OneAgentAsReported ==
    machine.experimental =>
        /\ \A c \in Clients : clients[c] \in {NoAgent, Bare, agent}
        /\ agent # NoAgent => reported = IF refused = {} THEN agent.mode ELSE "Failed"

=============================================================================
