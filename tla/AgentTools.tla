------------------------------ MODULE AgentTools ------------------------------
(***************************************************************************)
(* The tools of an agent: newAgent of agent.ts.  Tools are kept by name;   *)
(* beside them there are two lists of names, of the built-in tools and of  *)
(* those among them that can write, which are only ever added to.          *)
(*                                                                         *)
(* A tool is its classification and the inputs its schema accepts.         *)
(***************************************************************************)
EXTENDS Naturals

CONSTANTS
    Names,      \* names of tools
    Inputs,     \* what a model may give to a tool
    Schemas,    \* sets of inputs
    NoTool,     \* no tool of that name
    MaxListed   \* bound: how often a name is listed

BuiltIns == {"builtIn", "builtInCanWrite"}

Tool == [class : BuiltIns \cup {"MCP"}, accepts : Schemas]

ASSUME SchemasAssumption == Schemas \subseteq SUBSET Inputs
ASSUME NoToolAssumption == NoTool \notin Tool
ASSUME ListedAssumption == MaxListed \in Nat

VARIABLES
    tools,                 \* the tool of each name
    builtInToolNames,      \* how often each name is in the list
    builtInWriteToolNames

agent == <<tools, builtInToolNames, builtInWriteToolNames>>

-----------------------------------------------------------------------------

Listed(list, name, yes) == IF yes THEN [list EXCEPT ![name] = @ + 1] ELSE list

(* Mutant of addTool: a name that is there already is not listed again.    *)
addTool_newNamesOnly(name, tool) ==
    /\ tools' = [tools EXCEPT ![name] = tool]
    /\ builtInToolNames' =
            Listed(builtInToolNames, name, tools[name] = NoTool /\ tool.class \in BuiltIns)
    /\ builtInWriteToolNames' =
            Listed(builtInWriteToolNames, name, tools[name] = NoTool /\ tool.class = "builtInCanWrite")

(* A tool replaces the one of its name.                                    *)
addTool(name, tool) ==
    /\ tools' = [tools EXCEPT ![name] = tool]
    /\ builtInToolNames' = Listed(builtInToolNames, name, tool.class \in BuiltIns)
    /\ builtInWriteToolNames' =
            Listed(builtInWriteToolNames, name, tool.class = "builtInCanWrite")

removeTool(name) ==
    /\ tools' = [tools EXCEPT ![name] = NoTool]
    /\ UNCHANGED <<builtInToolNames, builtInWriteToolNames>>

(* runTool, which looks the tool up and validates the input in the turn in *)
(* which it invokes the tool, and throws otherwise.                        *)
CanRun(name, input) == tools[name] # NoTool /\ input \in tools[name].accepts

-----------------------------------------------------------------------------

InitAgent ==
    /\ tools = [name \in Names |-> NoTool]
    /\ builtInToolNames = [name \in Names |-> 0]
    /\ builtInWriteToolNames = [name \in Names |-> 0]

(* A server adds a tool, removes one, or replaces one: at any time.        *)
ChangeTools ==
    \E name \in Names :
        \/ \E tool \in Tool :
            /\ builtInToolNames[name] < MaxListed
            /\ addTool(name, tool)
        \/ tools[name] # NoTool /\ removeTool(name)

-----------------------------------------------------------------------------
(* Properties *)

AgentOK ==
    /\ tools \in [Names -> Tool \cup {NoTool}]
    /\ builtInToolNames \in [Names -> Nat]
    /\ builtInWriteToolNames \in [Names -> Nat]

(* Whatever is added, replaced and removed in whichever order, a built-in  *)
(* tool that can be run is listed as one, and one that can write is never  *)
(* listed among those that cannot.                                         *)
BuiltInsAreListed ==
    \A name \in Names :
        /\ builtInWriteToolNames[name] <= builtInToolNames[name]
        /\ tools[name] # NoTool =>
            /\ tools[name].class \in BuiltIns => builtInToolNames[name] > 0
            /\ tools[name].class = "builtInCanWrite" => builtInWriteToolNames[name] > 0

=============================================================================
