-------------------------- MODULE RouterCapabilities --------------------------
(***************************************************************************)
(* What the client is told that a runtime can do: LspRouter.initialize     *)
(* merges the results of the servers (mergeObjects of lsp/router/util.ts)  *)
(* behind its own, and keeps the outcome for getConfigurationFromServer.   *)
(* Beside LspRouter, which says who executes what.                         *)
(*                                                                         *)
(* A result is an object (PartialInitializeResult): a function from the    *)
(* paths of its members to what stands there, an object, a list or a       *)
(* scalar.  The order of a list is left out, and so are the indices by     *)
(* which the items of a list are called once it was merged with an object. *)
(* (The name of a server is the one of LspRouter; here it only meets that  *)
(* of the runtime.)                                                        *)
(***************************************************************************)
EXTENDS LspRouter, Sequences

CONSTANTS
    Possible,      \* what the servers may answer initialize with
    Configurers    \* servers with a getServerConfiguration handler

VARIABLES
    results,            \* what each server answers initialize with
    initializeResult    \* of the router

Object == [type |-> "object"]
List(items) == [type |-> "list", items |-> items]
Scalar(value) == [type |-> "scalar", value |-> value]
Undefined == [type |-> "undefined"]

(* The objects that a path leads through.                                  *)
Above(path) == { SubSeq(path, 1, i) : i \in 0 .. Len(path) - 1 }

(* The result that has these members and the objects around them.          *)
Tree(members) ==
    [ path \in {<<>>} \cup DOMAIN members \cup UNION { Above(p) : p \in DOMAIN members } |->
          IF path \in DOMAIN members THEN members[path] ELSE Object ]

At(result, path) == IF path \in DOMAIN result THEN result[path] ELSE Undefined

Items(node) == IF node.type = "list" THEN node.items ELSE {}

-----------------------------------------------------------------------------

(* What stands where both have something.  Two lists are joined, unless    *)
(* the first one is empty: then nothing is merged at all.  Of two scalars, *)
(* or a scalar and something else, the second one wins.                    *)
Meet(node1, node2) ==
    CASE "scalar" \in {node1.type, node2.type} -> node2
      [] node1.type = "list" /\ node2.type = "list" /\ node1.items # {} ->
             List(node1.items \cup node2.items)
      [] OTHER -> Object

(* Mutant of mergeObjects: a property that both have is not merged.        *)
mergeObjects_shallow(obj1, obj2) ==
    LET kept == { p \in DOMAIN obj1 : p = <<>> \/ <<Head(p)>> \notin DOMAIN obj2 }
    IN  [ p \in kept \cup DOMAIN obj2 |-> IF p \in DOMAIN obj2 THEN obj2[p] ELSE obj1[p] ]

(* A scalar of the second object replaces what is below it in the first.   *)
mergeObjects(obj1, obj2) ==
    LET kept == { p \in DOMAIN obj1 : \A q \in Above(p) : At(obj2, q).type # "scalar" }
    IN  [ p \in kept \cup DOMAIN obj2 |->
              IF p \notin kept THEN obj2[p]
              ELSE IF p \notin DOMAIN obj2 THEN obj1[p]
              ELSE Meet(obj1[p], obj2[p]) ]

NamePath == <<"serverInfo", "name">>
SyncPath == <<"capabilities", "textDocumentSync">>
OpenClosePath == <<"capabilities", "textDocumentSync", "openClose">>
ChangePath == <<"capabilities", "textDocumentSync", "change">>
IncludeTextPath == <<"capabilities", "textDocumentSync", "save", "includeText">>

(* What the runtime says of itself.                                        *)
defaultResponse ==
    Tree([ path \in {NamePath, OpenClosePath, ChangePath, IncludeTextPath} |->
               CASE path = NamePath -> Scalar("runtime")
                 [] path = ChangePath -> Scalar("incremental")
                 [] OTHER -> Scalar(TRUE) ])

Nothing == [ path \in {} |-> Undefined ]

(* reduceRight over the runtime's own result and those of the servers that *)
(* have answered something, in the order of the list.  It begins with the  *)
(* last result, as if that were merged with nothing.                       *)
Merged(answered) ==
    LET last[n \in 0 .. N] ==   \* of the last n servers
            IF n = 0 THEN Nothing
            ELSE IF N + 1 - n \in answered THEN mergeObjects(last[n - 1], results[N + 1 - n])
            ELSE last[n - 1]
    IN  mergeObjects(last[N], defaultResponse)

-----------------------------------------------------------------------------

CommandsPath == <<"capabilities", "executeCommandProvider", "commands">>
SectionsPath == <<"awsServerCapabilities", "configurationProvider", "sections">>
TriggersPath == <<"capabilities", "completionProvider", "triggerCharacters">>

Lists == {CommandsPath, SectionsPath, TriggersPath}

ASSUME ConfigurersAssumption == Configurers \subseteq Servers

(* Results are trees, and the claims of LspRouter are theirs.              *)
ASSUME ResultsAssumption ==
    \A r \in Possible : \A s \in Servers \ Passive :
        /\ \A p \in DOMAIN r[s] : \A q \in Above(p) : At(r[s], q) = Object
        /\ Claims[s] = Items(At(r[s], CommandsPath))

(* What the types of the protocol say of these members: they are lists,    *)
(* and what leads to them are objects.                                     *)
ASSUME TypesAssumption ==
    \A r \in Possible : \A s \in Servers \ Passive, path \in Lists :
        /\ path \in DOMAIN r[s] => r[s][path] = List(Items(r[s][path]))
        /\ \A q \in Above(path) : At(r[s], q).type # "scalar"

(* tryGetServerConfiguration: the server names the section and has a       *)
(* handler.                                                                *)
Configurable(section) ==
    { s \in ready \cap Configurers : section \in Items(At(results[s], SectionsPath)) }

(* getConfigurationFromServer of a section: the first capable server is    *)
(* asked, if there is one.  (For one reserved section the router answers   *)
(* with the awsServerCapabilities of the merged result.)                   *)
ConfigurationOf(section) ==
    { s \in Configurable(section) : \A t \in Configurable(section) : s <= t }

-----------------------------------------------------------------------------

varsCap == <<vars, results, initializeResult>>

InitCap ==
    /\ Init
    /\ results \in Possible
    /\ initializeResult = Nothing

NextCap ==
    /\ Next
    /\ UNCHANGED results
    /\ initializeResult' =
           IF phase # "initialized" /\ phase' = "initialized" THEN Merged(ready')
           ELSE initializeResult

SpecCap == InitCap /\ [][NextCap]_varsCap

FairSpecCap == SpecCap /\ Fairness

-----------------------------------------------------------------------------
(* Properties *)

(* The servers whose result has a list at a path.                          *)
Listing(path) == { s \in Servers \ Passive : At(results[s], path).type = "list" }

(* The last list is empty, and another one is before it.                   *)
Swallowed(path) ==
    \E s, t \in Listing(path) :
        /\ s < t /\ \A u \in Listing(path) : u <= t
        /\ At(results[t], path).items = {}

(* What the results of some servers have at a path.                        *)
Claimed(servers, path) == UNION { Items(At(results[s], path)) : s \in servers \ Passive }

(* The members in which the runtime speaks for itself.                     *)
OfRuntime == {NamePath, OpenClosePath, ChangePath, IncludeTextPath}

(* What the client is told and what the router does are of one piece,      *)
(* whichever servers answer first or after a retry: a command or section   *)
(* that is announced is handed to a server, if one that claims it has a    *)
(* handler; all that a server claims is announced (but for lists that an   *)
(* empty one behind them swallows); and no server speaks for the runtime,  *)
(* whose name and textDocumentSync members are announced as they are.      *)
(* (Other members that a server has beside those are announced as well.)   *)
AnnouncedAsClaimed ==
    phase = "initialized" =>
        LET announced(path) == Items(At(initializeResult, path))
        IN  /\ \A c \in announced(CommandsPath) \cap Claimed(executors, CommandsPath) :
                   Capable(c) # {}
            /\ \A c \in announced(SectionsPath) \cap Claimed(Configurers, SectionsPath) :
                   ConfigurationOf(c) # {}
            /\ \A path \in Lists :
                   announced(path) = IF Swallowed(path) THEN {} ELSE Claimed(Servers, path)
            /\ \A path \in OfRuntime :
                   At(initializeResult, path) = At(defaultResponse, path)

=============================================================================
