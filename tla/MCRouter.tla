------------------------------ MODULE MCRouter ------------------------------
(* An instance of RouterCapabilities for TLC.  The second server is        *)
(* passive, the others clash with the runtime and with each other.         *)
EXTENDS RouterCapabilities, TLC

CONSTANTS A, B, c1

Result(sync, triggers, sections) ==
    Tree(NamePath :> Scalar("server") @@
         sync @@
         TriggersPath :> List(triggers) @@
         CommandsPath :> List({c1}) @@
         SectionsPath :> List(sections))

(* Empty lists behind others that are not, and before them; servers that   *)
(* say in both forms how they want to be told of documents.                *)
MCPossible ==
    { <<Result(SyncPath :> Scalar("full"), {"dot"}, {"a", "b"}),
        Nothing,
        Result(ChangePath :> Scalar("full"), {}, {"b", "c"})>>,
      <<Result(OpenClosePath :> Scalar(FALSE), {}, {}),
        Nothing,
        Result(IncludeTextPath :> Scalar(FALSE), {"dot", "at"}, {"b"})>> }

(* All but the passive server claim the command.                           *)
MCClaims == [s \in Servers |-> IF s \in Passive THEN {} ELSE Commands]

=============================================================================
