------------------------- MODULE EncryptionStartup --------------------------
(***************************************************************************)
(* How a standalone runtime comes up: readEncryptionDetails and            *)
(* validateEncryptionDetails of auth/standalone/encryption.ts and their    *)
(* caller, initializeAuth of standalone.ts.                                *)
(*                                                                         *)
(* With --set-credentials-encryption-key the client first writes one line  *)
(* of JSON to stdin, the encryption details, and then LSP messages; stdin  *)
(* is read for the line and, once the runtime has started, by the LSP      *)
(* connection.  A byte is its position in what the client writes, and the  *)
(* bytes come in chunks of any size.                                       *)
(*                                                                         *)
(* Settling a promise and the reaction of initializeAuth are one step: no  *)
(* other event is handled between them.  A wait of five seconds, for the   *)
(* line or before the exit, may take any time relative to the client.      *)
(***************************************************************************)
EXTENDS Naturals

CONSTANTS
    DetailBytes,   \* the length of the line without its newline
    MessageBytes   \* how many bytes of LSP messages the client writes

ASSUME BytesAssumption == DetailBytes \in Nat /\ MessageBytes \in Nat

(* The first line of the client: details that pass the validation, details *)
(* that fail one of its tests (version, key, encoding mode) or are no      *)
(* object at all, a line that is no JSON; or "none", the flag not given.   *)
Kinds == {"valid", "badVersion", "noKey", "badMode", "null", "notJson", "none"}

VARIABLES
    kind,        \* which of these the client sends
    sent,        \* how many bytes it has written
    pos,         \* how many were read off the stream
    line,        \* the bytes read by readEncryptionDetails
    handed,      \* the bytes read by the LSP connection
    listening,   \* onStreamIsReadable is attached
    timer,       \* the timer of readEncryptionDetails
    failing,     \* one of the servers throws when it is set up
    runtime      \* what became of the runtime

stream == <<sent, pos, line, handed>>
vars == <<kind, stream, listening, timer, failing, runtime>>

-----------------------------------------------------------------------------

Newline == IF kind = "none" THEN 0 ELSE DetailBytes + 1

Total == Newline + MessageBytes

(* Mutant of validateEncryptionDetails: does not look at the mode.         *)
validateEncryptionDetails_anyMode == kind \in {"valid", "badMode"}

(* validateEncryptionDetails does not throw.                               *)
validateEncryptionDetails == kind = "valid"

(* initializeRuntime sets up the servers one after the other and then      *)
(* calls lspConnection.listen(): an exception of one server ends it before *)
(* that.  It is thrown inside the reaction to the encryption details, and  *)
(* the final catch logs it: nothing runs and nothing exits.  Without the   *)
(* flag nothing catches it and the process ends.                           *)
initializeRuntime ==
    CASE ~failing -> "running"
      [] failing /\ kind # "none" -> "dead"
      [] failing /\ kind = "none" -> "exited"

(* The line was read: resolve or reject with the result of JSON.parse      *)
(* (nothing if the promise is settled), and the reaction.  The exception   *)
(* of a failed validation is thrown INSIDE the reaction to the success: it *)
(* reaches the final catch, which logs it, and not the handler that arms   *)
(* the exit with code 10.                                                  *)
LineRead ==
    runtime' = CASE runtime # "waiting" -> runtime
                 [] runtime = "waiting" /\ kind = "notJson" -> "exiting"
                 [] runtime = "waiting" /\ kind # "notJson" ->
                        IF validateEncryptionDetails THEN initializeRuntime ELSE "dead"

-----------------------------------------------------------------------------

Init ==
    /\ kind \in Kinds
    /\ sent = 0
    /\ pos = 0
    /\ line = {}
    /\ handed = {}
    /\ listening = (kind # "none")
    /\ timer = IF kind = "none" THEN "off" ELSE "armed"
    /\ failing \in BOOLEAN
    /\ runtime = IF kind = "none" THEN initializeRuntime ELSE "waiting"

(* A chunk of any size arrives.                                            *)
ClientWrites ==
    /\ runtime # "exited"
    /\ sent' \in (sent + 1) .. Total
    /\ UNCHANGED <<kind, pos, line, handed, listening, timer, failing, runtime>>

(* Mutant of ReadPart: any data is taken for an answer in time.            *)
ReadPart_clearsTimer ==
    /\ listening
    /\ pos < sent
    /\ sent < Newline
    /\ pos' = sent
    /\ line' = line \cup (pos + 1) .. sent
    /\ timer' = "off"
    /\ UNCHANGED <<kind, sent, handed, listening, failing, runtime>>

(* onStreamIsReadable reads all there is when the newline is not there.    *)
ReadPart ==
    /\ listening
    /\ pos < sent
    /\ sent < Newline
    /\ pos' = sent
    /\ line' = line \cup (pos + 1) .. sent
    /\ UNCHANGED <<kind, sent, handed, listening, timer, failing, runtime>>

(* Mutant of ReadLine: takes the whole chunk.                              *)
ReadLine_wholeChunk ==
    /\ listening
    /\ pos < sent
    /\ sent >= Newline
    /\ pos' = sent
    /\ line' = line \cup (pos + 1) .. sent
    /\ listening' = FALSE
    /\ timer' = "off"
    /\ LineRead
    /\ UNCHANGED <<kind, sent, handed, failing>>

(* It stops right after the newline and leaves the rest to the connection. *)
ReadLine ==
    /\ listening
    /\ pos < sent
    /\ sent >= Newline
    /\ pos' = Newline
    /\ line' = line \cup (pos + 1) .. Newline
    /\ listening' = FALSE
    /\ timer' = "off"
    /\ LineRead
    /\ UNCHANGED <<kind, sent, handed, failing>>

(* Five seconds without the line: the listener goes, reject, and the       *)
(* reaction arms the exit.                                                 *)
Timeout ==
    /\ timer = "armed"
    /\ timer' = "off"
    /\ listening' = FALSE
    /\ runtime' = "exiting"
    /\ UNCHANGED <<kind, stream, failing>>

(* process.exit(10)                                                        *)
Exit ==
    /\ runtime = "exiting"
    /\ runtime' = "exited"
    /\ UNCHANGED <<kind, stream, listening, timer, failing>>

(* Mutant of LspReads: leaves what it reads on the stream.                 *)
LspReads_peeks ==
    /\ runtime = "running"
    /\ pos < sent
    /\ handed' = handed \cup (pos + 1) .. sent
    /\ UNCHANGED <<kind, sent, pos, line, listening, timer, failing, runtime>>

(* initializeRuntime has called lspConnection.listen().                    *)
LspReads ==
    /\ runtime = "running"
    /\ pos < sent
    /\ pos' = sent
    /\ handed' = handed \cup (pos + 1) .. sent
    /\ UNCHANGED <<kind, sent, line, listening, timer, failing, runtime>>

Next ==
    \/ ClientWrites
    \/ ReadPart \/ ReadLine \/ Timeout \/ Exit
    \/ LspReads

Spec == Init /\ [][Next]_vars

(* Timers fire and pending input is read.  Nothing is assumed of the       *)
(* client: it may stop writing at any byte.                                *)
Fairness ==
    /\ WF_vars(ReadPart \/ ReadLine)
    /\ WF_vars(Timeout)
    /\ WF_vars(Exit)
    /\ WF_vars(LspReads)

FairSpec == Spec /\ Fairness

-----------------------------------------------------------------------------
(* Properties *)

(* Neither reader has a byte that was not read off the stream.             *)
TypeOK ==
    /\ kind \in Kinds
    /\ sent \in 0 .. Total
    /\ pos \in 0 .. sent
    /\ line \subseteq 1 .. pos
    /\ handed \subseteq 1 .. pos
    /\ listening \in BOOLEAN
    /\ timer \in {"armed", "off"}
    /\ failing \in BOOLEAN
    /\ runtime \in {"waiting", "running", "dead", "exiting", "exited"}

UpToNewline == IF pos < Newline THEN pos ELSE Newline

(* The contract of initializeAuth: "Only read up to (and including) the    *)
(* first newline".  However the chunks fall, every byte that was read went *)
(* to exactly one reader, the details reader took nothing behind its       *)
(* newline, and the connection starts with the byte after it.              *)
StreamSplitAtNewline ==
    /\ line = 1 .. UpToNewline
    /\ handed = (Newline + 1) .. pos

(* The runtime comes up only after details that passed every test, or      *)
(* without asking for any, and with servers that were all set up; and the  *)
(* process ends by itself only for a reason: asked for details, no         *)
(* complete line in time or a line that is no JSON (so neither for a       *)
(* server that cannot be set up then, nor for a line that comes after the  *)
(* timeout); not asked, a server that cannot be set up.                    *)
StartsAndEndsForAReason ==
    /\ runtime = "running" => kind \in {"valid", "none"} /\ ~failing
    /\ runtime \in {"exiting", "exited"} =>
           \/ kind = "none" /\ failing
           \/ kind # "none" /\ Newline \notin line
           \/ kind = "notJson"

(* Whatever the client does with the line, the runtime is eventually up or *)
(* its process gone, unless the line is JSON that fails the validation or  *)
(* a server cannot be set up.                                              *)
StartupDecides ==
    runtime = "waiting" ~>
        \/ runtime \in {"running", "exited"}
        \/ failing \/ kind \in {"badVersion", "noKey", "badMode", "null"}

(* What the client writes to a runtime that is up reaches the connection.  *)
MessagesReachConnection ==
    \A b \in 1 .. DetailBytes + 1 + MessageBytes :
        runtime = "running" /\ Newline < b /\ b <= sent ~> b \in handed

(* README.md:467: if the JSON object is invalid, the process will exit     *)
(* with status code 10.                                                    *)
InvalidDetailsExit ==
    Newline \in line /\ kind \in {"badVersion", "noKey", "badMode", "null", "notJson"}
        ~> runtime = "exited"

=============================================================================
