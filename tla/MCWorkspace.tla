----------------------------- MODULE MCWorkspace -----------------------------
(* Instances of WorkspaceFolders for TLC: directories /w/app and           *)
(* /w/app-tests, and a file in the second one.                             *)
EXTENDS WorkspaceFolders

App == [path |-> "app", form |-> "plain"]
AppSlash == [path |-> "app", form |-> "slash"]
Tests == [path |-> "app-tests", form |-> "slash"]

MCUris == {App, AppSlash, Tests}

MCEvents ==
    { e \in [added : {<<>>, <<App>>, <<AppSlash>>, <<Tests, App>>}, removed : SUBSET MCUris] :
        /\ ~({App, AppSlash} \subseteq e.removed)
        /\ e.added # <<>> \/ e.removed # {} }

MCFiles == {"app-tests/a.ts"}
MCInside == {<<"app-tests", "app-tests/a.ts">>}
MCStartsWith == {<<"app", "app-tests/a.ts">>} \cup MCInside

MCUnheard == Noted \ Straight

(* Two servers that want some of the same events; one works with pinned    *)
(* context.                                                                *)
MCWishes ==
    ({1, 2} \X {"didClose", "chatPrompt"})
        \cup {<<1, "didChangeWorkspaceFolders">>, <<2, "didSave">>, <<1, "pinnedContextAdd">>}

=============================================================================
