# A TLA+ model of language-server-runtimes

This directory holds a formal model of the parts of `language-server-runtimes`
that keep state across messages: what a runtime does with credentials, how it
makes one language server out of several, how a standalone process starts and
how its SDK clients find their proxy and certificates, how it is told to stop
collecting telemetry, and what it does when it crashes. TLC checks every model on a small
instance; the theorems in the `*Proofs` modules hold for every value of the
constants and are checked by TLAPS.

Paths below are relative to `src/runtimes/runtimes/` unless they start with
`src/`. `PROJECT.json` maps every definition to the lines it stands for.

## The system

A *runtime* connects one client (an IDE) with several *servers* (functions that
receive a set of features and register handlers). Everything runs in one
JavaScript event loop: a handler runs without interruption up to its next
pending promise, and messages of the client are handed over one per turn. What
can interleave is therefore exactly what awaits: decryption, requests back to
the client, handlers of servers, the flush of telemetry, timers and stdin.

| Component | Source | State it keeps | Operations | What is hard about it |
|---|---|---|---|---|
| Credential store | `auth/auth.ts` | IAM, bearer and alternate credentials, connection metadata | update and delete on two channels, reads by servers | an update may await decryption and then a request back to the client, while other updates and deletions are handled |
| Credential deletion | `auth/auth.ts`, `lsp/router/*`, `standalone.ts`, `base-runtime.ts` | a handler per server | registration while the servers are constructed, the notification of all servers | a provider whose registration function is pointed at each server in turn, and a second one whose function reaches nobody; a handler that throws |
| LSP router | `lsp/router/*` | per server: initialize result, notification router, handlers; the merged result; workspace folders | initialize, executeCommand, updateConfiguration, getConfigurationFromServer, notifications, follow-ups | servers answer in any order, or not at all; a refused initialize leaves state behind; two servers with one name; results that clash |
| Encryption handshake | `auth/standalone/encryption.ts`, `standalone.ts` | stdin listener, timer | read one line of stdin, validate, set up the servers, start or exit | chunks of any size, the timeout, stdin shared with the LSP connection, an exception where only a log sees it |
| Operational telemetry | `operational-telemetry/*`, `util/telemetryLspServer.ts` | opt-out flag, current and registered providers | opt in, opt out | a shutdown is awaited by nobody and unregisters whoever is registered when it ends |
| Lifecycle and crash monitoring | `standalone.ts`, `util/telemetryLspServer.ts`, `operational-telemetry/*` | listeners of the process | report a crash twice, flush, exit; dispose of the servers | the report needs the provider that the handler next to it shuts down; a rejection that nobody handles is a crash |
| Text documents | `lsp/textDocuments/*`, `standalone.ts`, `base-runtime.ts` | subscribers of each document event, the open documents | subscribe, notify, read a document | the connection has one handler per event; who subscribes when decides who sees what |
| Workspace folders | `lsp/router/lspRouter.ts`, `lsp/router/initializeUtils.ts`, `standalone.ts` | the list of folders | initialize, change, look up | removal by exact uri, addition modulo a trailing slash, lookup by prefix |
| Agent tools | `agent.ts` | tools by name, names of built-in tools | add, remove, run, list | a tool is replaced or removed while it runs; two lists and a map that have to agree |
| Chat and identity results | `chat/*`, `auth/standalone/encryption.ts`, `standalone.ts` | none | decrypt a request, call the handler, encrypt the answer | results are encrypted in place across awaits; progress overtakes answers |
| Proxies and certificates | `util/standalone/*`, `standalone.ts` | one agent for all SDK clients | make a client: environment, system settings, certificates, fallback | every source may fail by itself, and all change under the process that keeps its first agent |
| Logging | `lsp/router/loggingServer.ts`, `util/loggingUtil.ts` | a log level | initialize, change, log | the setting is fetched after each change notification |
| Paths, errors, shared configuration file | `util/*` | none | — | pure functions of strings |

Protocol and interface declarations (`src/runtimes/protocol`,
`src/runtimes/server-interface`, `src/types`, `src/chat-client-ui-types`) have no
behaviour; they give the messages their shape.

How the components interact: the credential store calls
`LspRouter.onCredentialsDeletion`, which calls the deletion handler of each
`LspServer`; the runtime points the store's `onCredentialsDeleted` at the
`LspServer` of each server while it constructs it. The router owns the servers'
`LspServer` objects, the telemetry and the logging server among them, and fans
client messages out to them: a change of the configuration makes both of these
ask the client for their setting. The startup decides whether the store gets a
key; once it has set up the servers, each of them makes its SDK clients through
the one proxy manager of the runtime.

## The modules

| Module | Models | Extends |
|---|---|---|
| `Auth` | the credential store with its awaits | |
| `CredentialStore` | what the store promises: every update takes effect at one instant, in one slot | |
| `AuthProofs` | theorems; `Auth` implements `CredentialStore` | `Auth` |
| `CredentialDeletion` | `Auth` together with several servers that register for deletions and keep what they read | `Auth` |
| `CredentialDeletionProofs` | theorems | `CredentialDeletion`, `AuthProofs` |
| `LspRouter` | initialize, commands, configuration updates, notifications and follow-ups of several servers | |
| `RouterCapabilities` | what the client is told at initialize: `mergeObjects` over the results of the servers, and getConfigurationFromServer | `LspRouter` |
| `LspRouterProofs` | theorems | `RouterCapabilities` |
| `HandlerWiring` | the construction of a runtime, the one connection its servers share, document events and the copy of the documents | |
| `WorkspaceFolders` | workspace folders, fed by the messages of `HandlerWiring` | `HandlerWiring` |
| `WorkspaceProofs` | theorems | `WorkspaceFolders` |
| `AgentTools` | the tools of an agent | |
| `EncryptedSession` | requests to a runtime with a key: prompts, progress, tool runs, SSO and IAM results | `AgentTools` |
| `SessionProofs` | theorems | `EncryptedSession` |
| `EncryptionStartup` | the line of encryption details on stdin and the start of the runtime | |
| `EncryptionStartupProofs` | theorems | `EncryptionStartup` |
| `ProxyConfig` | the proxy and the certificates of SDK clients, on a machine that changes | |
| `StandaloneRuntime` | a runtime that comes up and its clients | `EncryptionStartup`, `ProxyConfig` |
| `StandaloneRuntimeProofs` | theorems | `StandaloneRuntime`, `EncryptionStartupProofs` |
| `OperationalTelemetry` | opting in and out, overlapping shutdowns, the crash | |
| `Logging` | the log level | |
| `RuntimeLifecycle` | a runtime from initialize to its crash: telemetry, log, crash monitors | `OperationalTelemetry`, `Logging` |
| `OperationalTelemetryProofs` | theorems | `RuntimeLifecycle` |
| `MCAuth`, `MCDeletion`, `MCRouter`, `MCWorkspace`, `MCSession`, `MCStartup` | values of the constants for TLC | the module they instantiate |

`RuntimeLifecycle` and, for their two violations, `OperationalTelemetry` and
`EncryptionStartup` are checked directly, their constants being small sets,
numbers and booleans. `ProxyConfig` and `Logging` have no specification of their
own: they are parts of `StandaloneRuntime` and `RuntimeLifecycle`.

## Reading the models

Every module names its correspondence in its header. The conventions are the
same everywhere: a variable is the field of the class it is named after; an
action is a handler, or the part of a handler between two awaits; parameters an
action takes from outside (what the client sends, how a handler settles) are
quantified in `Next`; *mutants* are definitions that a plausible bug would
produce, kept next to the definition they replace, and used only to show that
the properties can fail.

* **`Auth`.** `iam`, `bearer`, `atx` and `meta` are the four fields of the class;
  a credential is named by the request that brought it. `pc` is where the
  handler of a request stands: at `jwtDecrypt` ("decoding"), at the metadata
  request to the client ("fetching"), or answered. `ReceiveUpdate`, `Decoded`,
  `DecodeFailed`, `MetadataArrives`, `MetadataFails` are the stretches between
  the awaits, `DeleteIam` and `DeleteBearer` the notifications. jose's
  `jwtDecrypt` on Node settles within the same turn, WebCrypto really takes
  time: a step of its own covers both.
* **`CredentialDeletion`.** Every server is given two providers. `slot[s]` is the
  `credentialsDeleteHandler` of the `LspServer` of `s`, and
  `onCredentialsDeleted(target, s)` the function of the credentials provider,
  pointed at `target`. That of the provider of alternate tokens sets a field of
  `Auth` that nobody calls (`ownHandler`, `RegisterAtAtx`). `held` has what a
  server keeps of each of the three kinds; alternate tokens are deleted with the
  bearer token (`DeletedAs`). `alive = FALSE` means that an unhandled rejection is
  about to end the process. `gone` is a history variable.
* **`LspRouter`.** `reply`, `ready` and `router` are the promises, the
  `initializeResult` and the `notificationRouter` of each `LspServer`. Servers
  answer one per turn, and the turn of the last answer also runs the router's
  continuation. A client may retry `initialize` after a refusal, with the same
  servers and names. `executors` are the servers that have set an executeCommand
  handler, at any time: one that claims a command without having a handler is
  passed over (`Capable`). Notifications have ids only if they ask for follow-ups,
  and every server has a follow-up handler.
* **`HandlerWiring`.** `slot[m]` is the handler that the connection has for a
  method, `subs[m]` are the subscribers of the rxjs observable behind it. The
  connection and `TextDocuments` of vscode-languageserver and rxjs' `share()`
  are external and modelled by how they are used. One chat request and one chat
  notification stand for all that are registered straight: there the last server
  is the handler, by design. `Straight` and `Unheard` tell the two runtimes
  apart: in a webworker `didClose` goes straight too, and the handlers of pinned
  context go nowhere.
* **`WorkspaceFolders`.** A uri is a path and whether it is written with a
  trailing slash. The client removes a folder under the uri it has added. What
  makes a uri of a `rootUri` or `rootPath` is left out with the `catch` around it
  (`lsp/router/initializeUtils.ts:28`), and so are schemes and authorities, which
  `getWorkspaceFolder` ignores: it compares the pathnames of URLs
  (`standalone.ts:241`, `248`).
* **`EncryptedSession`.** `seals[o][f]` counts how often a member of a result
  object was encrypted, `taken[r]` holds the members as request `r` has read
  them before its awaits. An SSO result has an access token, an IAM result a key
  id, a secret and maybe a session token, and all have data. Results are sealed
  in place, so a server that keeps the object it has returned finds it
  encrypted. What the client can do with a result is `Quality`: decrypt it once,
  or not. The length of a key is not validated anywhere: encryption may fail. A
  handler that throws is answered with an error, by vscode-jsonrpc (`Fail`).
* **`AgentTools`.** A tool is its class and the inputs its schema accepts; the
  arrays of built-in names are counts per name. `runTool` validates the input in
  the turn in which it invokes the tool (`CanRun`), so a tool replaced since the
  model was told of it makes the run fail.
* **`RouterCapabilities`.** A result is a tree, written as a function from the
  paths of its members to what stands there: an object, a list of scalars or a
  scalar (`PartialInitializeResult` has no null). `mergeObjects` descends into
  objects in the code; over paths no recursion is needed, `Meet` says what stands
  where both results have something. It follows the code also where it is odd: two
  lists are joined inside the loop over the first one, so that an empty one
  swallows the other. The order of a list is left out, and so are the index names
  its items get where a list meets an object. `results` is chosen at the start
  among `Possible` ones. `ResultsAssumption` has them be trees
  that agree with the `Claims` of `LspRouter`, `TypesAssumption` what the types
  of the protocol say of the three lists that are looked at. `Configurers` are the
  servers with a handler for getConfigurationFromServer. The members that the
  runtime announces of its own are `OfRuntime`; a server may add others beside
  them, under `textDocumentSync` for instance, and these are announced too.
* **`EncryptionStartup`.** Bytes are numbered; byte `Newline` ends the line.
  `ReadPart` and `ReadLine` are one call of `onStreamIsReadable` that does not,
  or does, find the newline. Settling the promise and its reaction are one step.
  `failing` says that a server will throw when it is set up: `initializeRuntime`
  ends before the connection listens, and the process ends with it if it was not
  to wait for details.
* **`ProxyConfig`.** An environment variable is unset, empty, malformed or a URL,
  which stands for the proxy it names. The output of `scutil` is a sequence of
  kinds of lines, the registry's value one of three forms. A source of
  certificates is a file, directory, keychain or store; a bundle is a sequence,
  because only its first certificate is looked at. `agent` is the manager's cache,
  `clients[c]` what an SDK client was made with, `reported` the last metric. The
  `try` of `sdkInitializator` is around the constructor of the client too:
  `Fallback` is reached without a request handler (`NoHandler`), or with one on
  which the class of the client throws; `refused` has the clients of that kind.
  `LinuxSources` are the well-known files and what is in the directories that can
  be listed.
  `MachineChanges` is the world: the user's settings, files that come and go,
  certificates that expire. hpagent and the JSON parser are external.
* **`OperationalTelemetry`.** One number stands for the logger and the meter
  provider of one start. OpenTelemetry is external: a global provider is set
  only if there is none, and a logger provider shut down twice returns the same
  promise. (A meter provider's second `shutdown` returns at once, so what
  `ExitWaitsForFlush` says of a crash is about the logger provider.)
  `HandleException` is the handler of uncaughtException, which also gets the
  rejection of a handler whose request the client refuses
  (`ConfigurationRefused`).
* **`RuntimeLifecycle`.** `uncaughtExceptionMonitor` is both listeners of that
  name, which Node calls before those of uncaughtException, in the same turn.
  `report` is the provider that has recorded the event of the crash, `lost` and
  `untidy` are history variables. Modelled after the first initialize.

## What the runs check

| Run | Configuration | States | Shows |
|---|---|---|---|
| `credentials` | `MCAuth.cfg` | 310,435 | three updates over both channels, any interleaving with decryption, metadata requests and deletions |
| `deletion` | `MCDeletion.cfg` | 632,561 | no server registered at the credentials provider keeps a deleted credential; without a key, one server may throw and register at the provider of alternate tokens, the last may register late |
| `deletion_late` | `MCDeletionLate.cfg` | violation | a server that registers late displaces the last server's handler |
| `router` | `MCRouter.cfg` | 320,160 | initialize with its merged result, follow-ups, commands with handlers set at any time, and updates of three servers, one of them passive |
| `workspace` | `MCWorkspace.cfg` | 870,192 | handlers, documents and folders with two servers, standalone |
| `workspace_close` | `MCWorkspaceClose.cfg` | violation | the same wiring in a webworker loses `didClose` and pinned context |
| `workspace_lookup` | `MCWorkspaceLookup.cfg` | violation | a file is given the folder of a sibling |
| `session` | `MCSession.cfg` | 323,424 | two requests with a key, results shared or not, tools changing meanwhile |
| `startup` | `MCStartup.cfg` | 357,676 | all ways to cut a line and the messages behind it into chunks, and two clients, which may throw, on eight machines that change |
| `startup_invalid` | `MCStartupInvalid.cfg` | violation | details that fail the validation do not end the process |
| `telemetry` | `MCTelemetry.cfg` | 748,265 | three changes of the settings, refused requests and a crash |
| `telemetry_leak` | `MCTelemetryLeak.cfg` | violation | an opt-out that leaves gauges exporting |

The bounds, and why they are enough for what the runs ask:

* `Requests`, three in `credentials`: an update that waits, one that overtakes
  it, and one that sees what the two have left. Two suffice in `deletion`,
  where the servers multiply the states, and the proof covers the rest.
* `Payloads` leaves out "both" in `credentials`: a payload with keys and a token
  at once would make `isIamCredentials` and `isBearerCredentials` both true,
  which no client sends; `BearerPaired` and `StoreImplemented` name the premise.
* `N = 3` servers in `router`: a clash of names between servers that are not
  neighbours, and a command claimed by two of them. `MaxInitializes = 2` is one
  retry. `N = 2` elsewhere: what one server does to another.
* `MaxVersion = 2`, `MaxInFlight = 2`: one edit after opening, and two messages
  of which the second is sent before the first is handled.
* `MaxParts`, `MaxCalls`, `MaxListed = 1`: one part of progress in flight behind
  an answer, one tool chosen before and run after a change of the tools.
* `MaxChanges = 3` in `telemetry`: out, in, out, two shutdowns that overlap and a
  crash at any point between them; every change notifies both settings and
  the request for either may be refused. 6 for the leak, which takes five. Two
  log levels and a value that is none: a later level replaces an earlier one.
* `DetailBytes = 2`, `MessageBytes = 2` (1 for `startup_invalid`): chunks that end
  before, at and behind the newline, in the middle of the messages and between
  the two.
* Two clients and one change of the machine in `startup`: a client before and one
  after it, with the agent kept or not. The machines of `MCStartup` are four on
  Linux, with a malformed or an empty variable before one that is set, two on
  macOS, one on Windows, one elsewhere, with and without bundles; a bundle whose
  first certificate has expired; scutil outputs that nest, end early or fail;
  each form of the registry's value, a SOCKS-only one and a host that no URL can
  have among them.
* The events in `MCWorkspace` add no folder, the same one with and without a slash,
  or two, and remove any of those the client has.
* The results in `MCRouter`, two choices of them: servers clash with the runtime's
  name and with its document synchronisation, as a whole and in its members, and
  have an empty list before, or behind, one of another server that is not; the
  passive server answers with nothing. Which of the results are in varies with
  the order of the answers.
* Unreadable sources in `MCStartup`: on Linux a directory, a bundle and a file of
  the directory, on macOS the command, the user's keychain and a bundle.

`CHECK_DEADLOCK FALSE` is said where the system comes to rest: all requests
answered, the setting not changed any more, the process exited. Routers and
workspaces always have something to do and are checked for deadlock.

Each property has at least one mutant in `PROJECT.json` that breaks it.

## Fairness

Weak fairness is assumed of what the event loop and the other parties owe:

* `Auth`: decryption settles, and the client answers the metadata request, with
  metadata or an error. The code sets no timeout on that request
  (`auth/auth.ts:272`): against a client that never answers,
  `EveryUpdateIsAnswered` fails, and so does the real request.
* `LspRouter`: the handlers of servers settle. Nothing is assumed of the client.
* `EncryptedSession`: promises of the crypto library settle; handlers of prompts
  and tools come to an end, and do not list tools or send progress for ever
  (they are bounded).
* `EncryptionStartup`: data that has arrived is read, timers fire. Nothing is
  assumed of the client: it may stop in the middle of the line. `StandaloneRuntime`
  adds nothing: a client is made when a server wants one.
* `OperationalTelemetry`: the client answers `workspace/configuration` or refuses
  it, answers are handled, each flush ends or fails, the exit timer fires.
  `RuntimeLifecycle` asks the same of the log level.

`CredentialDeletion`, `HandlerWiring` and `WorkspaceFolders` are checked for
safety only and assume no fairness.

## What is proved

Every theorem is checked by TLAPS for all values of the constants that satisfy
the `ASSUME`s of the modules, which TLC evaluates in the runs above. Where a
theorem has a premise it is named.

| Theorem | Says | Premise |
|---|---|---|
| `AuthProofs!TypeCorrect` | the store is well typed | |
| `AuthProofs!AcceptedVisible` | servers read accepted credentials of the right kind only | |
| `AuthProofs!BearerPaired` | a bearer token is beside the metadata of its own connection | `NoBoth` |
| `AuthProofs!StoreImplemented` | the handlers implement `CredentialStore` | `NoBoth` |
| `AuthProofs!AnsweredStaysAway` | no late continuation brings a credential back | |
| `AuthProofs!RefusalContained` | a refused update touches its own channel only | |
| `CredentialDeletionProofs!NoCredentialIsKept` | servers registered at the credentials provider drop deleted credentials, alternate tokens too | `Disciplined` |
| `CredentialDeletionProofs!TypeAllCorrect`, `StoreAll` | types, and what `AuthProofs` says of the store, with the servers beside it | `NoBoth` where the store needs it |
| `LspRouterProofs!TypeCorrect` | the router's state is well typed | |
| `LspRouterProofs!UpdateIsWhole` | success means all servers have applied an update | |
| `LspRouterProofs!FollowupsReturn` | follow-ups reach their server and no other | |
| `LspRouterProofs!RoutingIsStable` | commands go to the first server that claims them and has a handler | |
| `LspRouterProofs!AnnouncedIsClaimed` | what the client is told is what the router does | |
| `WorkspaceProofs!TypeCorrect` | handlers, documents, messages and folders are well typed | |
| `WorkspaceProofs!EveryHandlerHears` | no handler is passed over | `Shared`, `Alone` |
| `WorkspaceProofs!DocumentsAreTheClients` | the runtime's documents are the client's | `Shared` |
| `WorkspaceProofs!FoldersAreTheClients` | the router's folders are the client's, each listed once | `AddedOnce` |
| `SessionProofs!TypeCorrect` | requests, tools and results are well typed | |
| `SessionProofs!CredentialsLeaveEncrypted` | nothing leaves in plain text | |
| `SessionProofs!EncryptedOnceUnlessShared` | a result is encrypted once | |
| `SessionProofs!ProgressComesFirst` | awaited progress comes before the answer | |
| `SessionProofs!ToolsListed` | built-in tools are listed as such | |
| `EncryptionStartupProofs!StreamSplit` | each byte goes to the right reader | |
| `EncryptionStartupProofs!ReasonedStart` | a runtime starts and ends for a reason | |
| `StandaloneRuntimeProofs!StreamSplitAll`, `ReasonedStartAll` | the same with clients beside it | |
| `StandaloneRuntimeProofs!TypeCorrectAll` | start, machine and clients are well typed | |
| `StandaloneRuntimeProofs!SourcesApart` | a source of certificates that fails takes no other with it, on any platform | |
| `StandaloneRuntimeProofs!ExplicitProxy` | in the experimental way, clients honour the proxy of the environment unless their class throws on it | |
| `StandaloneRuntimeProofs!OneAgent` | in the experimental way, clients share one agent, which the metric names unless a client has thrown on it | |
| `OperationalTelemetryProofs!TypeCorrect`, `LifeTypeCorrect` | telemetry, log and monitors are well typed | |
| `OperationalTelemetryProofs!OptOutStopsEvents` | no event is recorded after an opt-out | |
| `OperationalTelemetryProofs!ApartOptOutStopsAll` | nothing is collected after one | no two shutdowns overlap |
| `OperationalTelemetryProofs!CrashReported` | a crash is told, recorded and flushed | |
| `OperationalTelemetryProofs!OptOutInLife` | both of an opt-out, in the whole life of a runtime | |
| `OperationalTelemetryProofs!ExitWaits` | a crash exits once what it waits for is flushed | |
| `OperationalTelemetryProofs!SettingsApply` | with no question or answer on its way, the client's last settings are in force: what is collected, too, but for shutdowns that overlap, fail or meet an opt-in | |

The premises: `NoBoth` excludes payloads that are IAM credentials and a token at
once. `Disciplined` lets only the last server register late and has a throwing
handler end the process (Node's default), which is what `deletion_late` shows
to be needed. `Shared` excludes document events that go straight to the
connection, as `didClose` does in a webworker (`workspace_close`), and `Alone`
has no two servers want the same chat notification, and all of those straight.
`AddedOnce`: no single event adds one folder under two uris that differ by a slash
(the router compares an added folder with those it has, not with the others of
the event).

The arguments:

* *Credentials.* A handler that waits for metadata stores its payload without
  looking at it again, so the invariant says what it has established before
  (`Waiting`). For the refinement, answered requests are final and each slot
  changes only in the turn that answers its request.
* *Deletion.* Three facts survive every step: each registered server is in a
  slot of its own, what is gone was answered, and what was answered does not
  come back to the provider. The last one is a lemma of `AuthProofs`.
* *Refusals.* Only the turn that has the payload of a request refuses it
  (`FinishRefuses`), or the one whose decryption fails; metadata that do not come
  leave an update accepted. What such a turn writes is decided by the channel.
* *Router.* The verdict the client was told is the verdict on the answers at
  hand (`Told`), what a server has left in the runtime agrees with its answer
  (`Kept`), and the answer to an update agrees with the handlers (`Settled`).
* *Capabilities.* `Merged` is a recursive function of the number of servers that
  were merged. That it exists (`MergeExists`) and what it holds at the path of a
  list (`MergedFrom`: the union of what is claimed, or what is left where an empty
  list swallowed it) goes by induction on that number. The runtime's own result comes
  last: it has no lists, and its scalars stand. When the client is told that the
  runtime is initialized every server is ready (`Announced`), so the result kept
  is that of all of them, in the order of the list and not that of the answers.
* *Workspace.* A document event has the observer as its handler as soon as it
  has a subscriber (`Wired`); the messages in flight lead from the runtime's
  documents to those of the client, one message at a time (`OnTheWay`).
* *Folders.* The same with sets of folders (`IsFolderPath`): each message on its
  way turns one set into the next (`Updated`), and two lemmas say what the filter
  and the concatenation of the code do to the set of a list. `SelectSeq` is
  recursive, so the model names the function behind it (`filter`) and a lemma
  says, by induction on the length, which elements it keeps (`KeptOf`). That the list has no
  folder twice (`Once`) is kept only by events that add none twice.
* *Induction.* The induction theorems of the library take an operator and cannot
  be used here. `Induction`, in `WorkspaceProofs` and in `LspRouterProofs`, is
  the principle for *sets* of numbers, from `Smallest`: what is proved by it is put as
  membership in a set first.
* *Session.* What a request does to an object is invisible to the others until
  it replaces a member. `Past`: members a request is past are encrypted, whoever
  has replaced them since, because nobody ever puts back a member that was not
  encrypted one time more than when it was read. `Exact`: in an object of one
  request alone, members are encrypted exactly as often as it has got to. A step
  either touches no result (`Quiet`, `Apart`) or writes its own object
  (`Writes`), and one lemma for each kind covers all requests but the one that
  takes the step.
* *Startup.* The details reader is attached exactly as long as the runtime waits
  and the timer is armed, and has then not seen a newline (`Reading`). With
  clients beside it, a step of the composition is one of the start or a stutter.
* *Proxies.* The invariant speaks of the cache: an agent that is kept was made
  for the environment's proxy too. That the environment does not change while
  the process runs is what makes the first valid variable the same each time.
* *Certificates.* An agent is made by `getCertificates` of that moment and kept
  as it is (`AgentStep`); one lemma for each kind of source follows a certificate
  from its file into the result, whatever the other sources do.
* *Telemetry.* A shutdown captures the *current* provider, so the invariant says
  that the registered provider, as long as it runs, is the current one; without
  overlap the tail of a shutdown never finds a running one registered.
* *Crash.* While telemetry is opted in and no opt-in has met a shutdown, the
  current provider is registered and runs (`Tidy`): it records the event, and it
  is the one that the shutdown of the crash captures.
* *Settings.* A change is always followed by a question, and answers are handled
  in order: the last answer on its way, if there is no question behind it, is
  the client's setting of now (`Follows`). This is the safe half of `SettingsAreFollowed`.

## Only model-checked

* Liveness (`EveryUpdateIsAnswered`, `EveryRequestIsAnswered`, `SettingsAreFollowed`,
  `CrashExits`, `StartupDecides`, `MessagesReachConnection`, `ClientIsAnswered`):
  temporal properties under fairness are out of the prover's reach. Every
  invariant and every action property of the passing runs is also a theorem.
* That `TypesAssumption` and the other assumptions on constants hold is evaluated
  for the instances of the runs; for the program it is what TypeScript's types
  say.

## Findings

Five statements of the repository do not hold of its code; each has a run that
shows it and an entry in `PROJECT.json`.

1. `telemetry_leak` (`operational-telemetry/operational-telemetry-service.ts:167`):
   out, in, out, the end of the first shutdown, in, and the end of the second make
   the service forget a provider that is running. The next opt-out finds nothing
   to shut down.
2. `startup_invalid` (`standalone.ts:208`): details that are JSON but fail the
   validation do not end the process with code 10, as `src/runtimes/README.md:467`
   says; the exception is thrown where only a `catch` that logs can see it.
3. `deletion_late` (`standalone.ts:490`): `onCredentialsDeleted`, called after the
   construction of the servers, displaces the handler of the last server.
4. `workspace_close` (`base-runtime.ts:279`): in a webworker `didClose` bypasses
   the observer that the other document events share. (The handlers that
   `onPinnedContextAdd` and `onPinnedContextRemove` are given are sent to the
   client there instead of being registered, `base-runtime.ts:200`; the same
   property fails for them.)
5. `workspace_lookup` (`standalone.ts:249`): `/w/app` is returned for a file in
   `/w/app-tests`.

Seen while modelling, and not made runs of:

* An opt-in while a shutdown is in flight leaves telemetry off: the new provider
  is not registered, or unregistered at the end of that shutdown. It is the case
  that `SettingsAreFollowed` and `CrashIsReported` except (`untidy`).
* The provider of alternate tokens describes the connection of the bearer token
  (`auth/auth.ts:144`), whatever connection the alternate token is of, and
  its `onCredentialsDeleted` reaches nobody (`auth/auth.ts:152`): a server that
  registers only there keeps what was deleted.
* A client whose class throws on the shared agent leaves a failure as the last
  metric, though the other clients use the agent (`standalone.ts:475`).
* In a webworker a deletion handler that throws (`lsp/router/lspRouter.ts:271`)
  leaves the servers behind it untold, since nothing ends the process there.
* Of two lists `mergeObjects` merges, an empty first one makes the result `{}`
  (`lsp/router/util.ts:32`): the list of a server is lost, and the client is
  given an object where it expects an array. `AnnouncedAsClaimed` excepts it.
* A server that throws while it is set up leaves a process without a runtime
  (`standalone.ts:377`), when encryption details were read.
* The date of a bundle's first certificate decides for the whole bundle
  (`util/standalone/experimentalProxyUtil.ts:210`).
* A SOCKS-only setting on Windows throws, and the client has no proxy
  (`getWindowsProxySettings.ts:71`); the metric of success of an agent is sent
  before its constructor, which may throw (`experimentalProxyUtil.ts:182`).
* The log level of initialize is not validated: a value that is none silences the
  log (`lsp/router/loggingServer.ts:18`).
* A retried initialize keeps the telemetry service with its old opt-out, and adds
  crash listeners (`operational-telemetry-service.ts:38`, `telemetryLspServer.ts:68`).
* A client that refuses the request for a setting ends the process
  (`telemetryLspServer.ts:81`, `loggingServer.ts:24`).
* The names of built-in tools keep tools that were removed, and those that an
  MCP tool has replaced (`agent.ts:51`).
* A server that returns an object it keeps (a cache of tokens) finds it encrypted
  in its cache, and a second request for it is encrypted twice
  (`auth/standalone/encryption.ts:107`); `SealedOnce` allows exactly that case.
* `src/runtimes/README.md:309` has tools "shared between all servers", while
  `base-runtime.ts:329` makes an agent for each server.

## What is not modelled, and the plan

Not modelled, and why:

* *Disposal of the servers on exit*: a loop over functions of which nothing is
  said.
* *Paths, descriptions of errors, the shared configuration file*: pure functions
  of strings.
* *Protocol, interface and type declarations, test features, scripts*: no
  behaviour.
* Left out within modelled parts: fan-outs that keep no state, will-save events
  (no server can register for them), `beforeExit` of telemetry, contents of
  messages, events and errors, cancellation (no handler of the runtime looks at
  its token), a second `initialize` in `WorkspaceFolders` and `RuntimeLifecycle`.

The order in which the project is built:

1. Done: the credential store and its specification, deletion across servers,
   telemetry, startup, the router, wiring of handlers, documents and folders,
   encrypted sessions with tools; their runs and theorems.
2. Done: the merging of capabilities and getConfigurationFromServer
   (`RouterCapabilities`), proxies and certificates (`ProxyConfig`) composed with
   the start (`StandaloneRuntime`), logging and crashes composed with telemetry
   (`RuntimeLifecycle`), chat notifications and the two runtimes' wiring.
3. Next: a second `initialize` that changes folders, log level and telemetry;
   `Auth` composed with `EncryptionStartup` (a store exists only once the line was
   read).
4. Done: all invariants and action properties as theorems, for the composed
   modules too; the merging of capabilities and the folders without recursion.
5. Theorems still worth proving: the refinement of the router to one server that
   answers for all, of the folders to the client's set of them, and of the
   telemetry service to one that is on or off.
