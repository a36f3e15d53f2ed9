--------------------------- MODULE WorkspaceFolders ---------------------------
(***************************************************************************)
(* The workspace folders of a runtime, beside its documents: the list that *)
(* LspRouter keeps (lsp/router/lspRouter.ts, initializeUtils.ts), and      *)
(* workspace.getWorkspaceFolder (standalone.ts).  Folders change with the  *)
(* messages that HandlerWiring hands over.                                 *)
(*                                                                         *)
(* The uri of a folder is its path, written with a trailing slash or       *)
(* without ("plain").                                                      *)
(***************************************************************************)
EXTENDS HandlerWiring

CONSTANTS
    Uris,        \* the uris the client uses
    Files,       \* files that servers look up
    StartsWith,  \* <<path, file>>: the file's path starts with the path's text
    Inside       \* <<path, file>>: the file is in that directory

ASSUME InsideAssumption == Inside \subseteq StartsWith
ASSUME EventsAssumption ==
    \A event \in Events : event.added \in Seq(Uris) /\ event.removed \subseteq Uris

VARIABLES
    folders,      \* workspaceFolders of the router
    mine,         \* the folders of the client, as it writes them
    initialized   \* the initialize request was handled

allVars == <<vars, folders, mine, initialized>>

Elements(seq) == { seq[i] : i \in 1 .. Len(seq) }

Same(f, g) == f.path = g.path

(* Array.prototype.filter, as a recursive function: SelectSeq is opaque to *)
(* the proof system.                                                       *)
filter(seq, wanted) ==
    LET kept[i \in 0 .. Len(seq)] ==
            IF i = 0 THEN <<>>
            ELSE IF seq[i] \in wanted THEN Append(kept[i - 1], seq[i])
            ELSE kept[i - 1]
    IN  kept[Len(seq)]

(* The uris that no folder of a set has, but for a slash at their end.     *)
NewTo(there) == { f \in Uris : \A g \in there : ~Same(f, g) }

-----------------------------------------------------------------------------

(* The initialize request: the folders, or else a root uri or path.  The   *)
(* three members say the same of a client that sends more than one.  What  *)
(* makes a uri of a root, and the catch around it, which leaves no folders *)
(* (initializeUtils.ts:28-31), is left out: the root is a folder's uri.    *)
getWorkspaceFoldersFromInit(workspaceFolders, root) ==
    IF workspaceFolders # <<>> THEN workspaceFolders ELSE root

Initialize ==
    /\ listening /\ ~initialized
    /\ initialized' = TRUE
    /\ \E f \in Uris, g \in Uris :
        \/ /\ folders' = getWorkspaceFoldersFromInit(<<>>, <<>>)
           /\ mine' = {}
        \/ /\ folders' = getWorkspaceFoldersFromInit(<<>>, <<f>>)
           /\ mine' = {f}
        \/ /\ ~Same(f, g)
           /\ folders' = getWorkspaceFoldersFromInit(<<f, g>>, <<f>>)
           /\ mine' = {f, g}
    /\ UNCHANGED vars

(* The client removes folders, and adds some, which it may announce again  *)
(* although they are there, written one way or the other.                  *)
ChangeFolders(event) ==
    /\ initialized
    /\ event.removed \subseteq mine
    /\ LET kept == mine \ event.removed
       IN  mine' = kept \cup (Elements(event.added) \cap NewTo(kept))
    /\ Tell(event)
    /\ UNCHANGED <<folders, initialized>>

(* Mutant of didChangeWorkspaceFolders: what is added is compared with the *)
(* list as it was before.                                                  *)
didChangeWorkspaceFolders_addFirst(event) ==
    folders' = filter(folders, Uris \ event.removed)
                   \o filter(event.added, NewTo(Elements(folders)))

(* The router's list: removal by uri, addition unless the uri is there     *)
(* already but for a slash at its end.                                     *)
didChangeWorkspaceFolders(event) ==
    LET kept == filter(folders, Uris \ event.removed)
    IN  folders' = kept \o filter(event.added, NewTo(Elements(kept)))

(* The first folder whose path the file's path starts with, as a set of at *)
(* most one folder.  The code compares the pathnames of URLs, so that      *)
(* schemes and authorities play no role (standalone.ts:241, 248).          *)
getWorkspaceFolder(file) ==
    LET matching == { f \in Uris :
            <<f.path, file>> \in (IF f.form = "slash" THEN Inside ELSE StartsWith) }
        found == filter(folders, matching)
    IN  IF found = <<>> THEN {} ELSE {Head(found)}

HandleAny ==
    /\ Handle
    /\ LET message == Head(wire) IN
        IF message.method = "didChangeWorkspaceFolders"
        THEN didChangeWorkspaceFolders(message.event)
        ELSE UNCHANGED folders
    /\ UNCHANGED <<mine, initialized>>

-----------------------------------------------------------------------------

InitAll ==
    /\ Init
    /\ folders = <<>>
    /\ mine = {}
    /\ initialized = FALSE

NextAll ==
    \/ /\ \/ \E wish \in Wishes : Register(wish[1], wish[2])
          \/ Constructed
          \/ Listen
          \/ initialized /\ (Chat \/ \E d \in Docs : Edit(d))
       /\ UNCHANGED <<folders, mine, initialized>>
    \/ Initialize
    \/ \E event \in Events : ChangeFolders(event)
    \/ HandleAny

SpecAll == InitAll /\ [][NextAll]_allVars

-----------------------------------------------------------------------------
(* Properties *)

TypeOKAll ==
    /\ TypeOK
    /\ folders \in Seq(Uris)
    /\ mine \subseteq Uris
    /\ initialized \in BOOLEAN

(* When all messages are handled, the router lists the folders that the    *)
(* client has: a folder renamed (removed and added in one event) stays and *)
(* one that was removed is gone.  And it never lists a folder twice, also  *)
(* one that is announced twice, written one way or the other.              *)
FoldersFollowClient ==
    /\ wire = <<>> => Elements(folders) = mine
    /\ \A i, j \in 1 .. Len(folders) : Same(folders[i], folders[j]) => i = j

(* "return the workspace folder that contains the uri" (standalone.ts:238):*)
(* a folder that getWorkspaceFolder returns contains the file.             *)
FolderContainsFile ==
    \A file \in Files, f \in Uris :
        f \in getWorkspaceFolder(file) => <<f.path, file>> \in Inside

=============================================================================
