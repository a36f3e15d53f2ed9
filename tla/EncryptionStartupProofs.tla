----------------------- MODULE EncryptionStartupProofs -----------------------
(***************************************************************************)
(* Proofs about EncryptionStartup, for lines and messages of any length.   *)
(*                                                                         *)
(* The two safety properties need to know when the details reader is       *)
(* attached: exactly as long as the runtime waits and its timer is armed,  *)
(* and then it has not seen a newline yet (Reading).                       *)
(***************************************************************************)
EXTENDS EncryptionStartup, TLAPS

Reading ==
    /\ listening <=> timer = "armed"
    /\ listening <=> runtime = "waiting"
    /\ listening => pos < Newline
    /\ runtime = "running" => Newline <= pos

IInv ==
    /\ TypeOK
    /\ Reading
    /\ StreamSplitAtNewline
    /\ StartsAndEndsForAReason

LEMMA NewlineType == Newline \in Nat /\ Total \in Nat /\ Newline <= Total
  BY BytesAssumption DEF Newline, Total

LEMMA InitInvariant == Init => IInv
<1> SUFFICES ASSUME Init PROVE IInv
  OBVIOUS
<1> USE NewlineType DEF Init, initializeRuntime
<1>1. TypeOK /\ StartsAndEndsForAReason
  BY DEF TypeOK, StartsAndEndsForAReason
<1>2. UpToNewline = 0
  BY DEF UpToNewline
<1>3. StreamSplitAtNewline
  BY <1>2 DEF StreamSplitAtNewline
<1>4. CASE kind = "none"
  <2>1. Newline <= pos
    BY <1>4 DEF Newline
  <2>2. ~listening /\ timer # "armed" /\ runtime # "waiting"
    BY <1>4
  <2>3. Reading
    BY <2>1, <2>2 DEF Reading
  <2> QED BY <1>1, <1>3, <2>3 DEF IInv
<1>5. CASE kind # "none"
  <2>1. 0 < Newline
    BY <1>5, BytesAssumption DEF Newline
  <2>2. listening /\ timer = "armed" /\ runtime = "waiting"
    BY <1>5
  <2>3. (listening => pos < Newline) /\ (runtime = "running" => Newline <= pos)
    BY <2>1, <2>2
  <2>4. Reading
    BY <2>2, <2>3, Zenon DEF Reading
  <2> QED BY <1>1, <1>3, <2>4 DEF IInv
<1> QED BY <1>4, <1>5

LEMMA StepInvariant == IInv /\ [Next]_vars => IInv'
<1> SUFFICES ASSUME IInv, [Next]_vars PROVE IInv'
  OBVIOUS
<1>n. kind' = kind /\ failing' = failing /\ Newline' = Newline /\ Total' = Total
  BY DEF Next, vars, ClientWrites, ReadPart, ReadLine, Timeout, Exit, LspReads,
         stream, Newline, Total
<1> USE NewlineType, <1>n DEF IInv, TypeOK, Reading
<1>1. CASE ClientWrites
  BY <1>1 DEF ClientWrites, UpToNewline, StreamSplitAtNewline, StartsAndEndsForAReason
<1>2. CASE ReadPart
  <2>1. UpToNewline = pos /\ UpToNewline' = pos'
    BY <1>2 DEF ReadPart, UpToNewline
  <2>2. line' = 1 .. pos' /\ handed' = (Newline + 1) .. pos'
    BY <1>2, <2>1 DEF ReadPart, StreamSplitAtNewline
  <2>3. StreamSplitAtNewline'
    BY <2>1, <2>2 DEF StreamSplitAtNewline
  <2> QED BY <1>2, <2>2, <2>3
          DEF ReadPart, StartsAndEndsForAReason
<1>3. CASE ReadLine
  <2>1. UpToNewline = pos /\ UpToNewline' = Newline /\ pos' = Newline
    BY <1>3 DEF ReadLine, UpToNewline
  <2>2. line' = 1 .. Newline /\ handed' = (Newline + 1) .. pos'
    BY <1>3, <2>1 DEF ReadLine, StreamSplitAtNewline
  <2>3. StreamSplitAtNewline'
    BY <2>1, <2>2 DEF StreamSplitAtNewline
  <2>4. \/ kind = "notJson" /\ runtime' = "exiting"
        \/ kind = "valid" /\ ~failing /\ runtime' = "running"
        \/ runtime' = "dead"
    BY <1>3 DEF ReadLine, LineRead, validateEncryptionDetails, initializeRuntime
  <2>5. StartsAndEndsForAReason'
    BY <2>4 DEF StartsAndEndsForAReason
  <2>6. Reading'
    BY <1>3, <2>1, <2>4 DEF ReadLine
  <2>7. TypeOK'
    <3>1. pos' \in 0 .. sent' /\ line' \subseteq 1 .. pos' /\ handed' \subseteq 1 .. pos'
      BY <1>3, <2>1, <2>2 DEF ReadLine
    <3>2. /\ sent' \in 0 .. Total'
          /\ timer' \in {"armed", "off"}
          /\ listening' = FALSE
      BY <1>3 DEF ReadLine
    <3> QED BY <2>4, <3>1, <3>2
  <2> QED BY <2>3, <2>5, <2>6, <2>7
<1>4. CASE Timeout
  <2>1. kind # "none" /\ Newline \notin line
    BY <1>4, BytesAssumption DEF Newline, Timeout, StreamSplitAtNewline, UpToNewline
  <2>2. StreamSplitAtNewline'
    BY <1>4 DEF Timeout, stream, StreamSplitAtNewline, UpToNewline
  <2>3. TypeOK' /\ Reading'
    BY <1>4 DEF Timeout, stream
  <2> QED BY <1>4, <2>1, <2>2, <2>3
          DEF Timeout, stream, StartsAndEndsForAReason
<1>5. CASE Exit
  BY <1>5 DEF Exit, stream, UpToNewline, StreamSplitAtNewline, StartsAndEndsForAReason
<1>6. CASE LspReads
  <2>1. UpToNewline = Newline /\ UpToNewline' = Newline /\ Newline <= pos'
    BY <1>6 DEF LspReads, UpToNewline
  <2>2. line' = 1 .. Newline /\ handed' = (Newline + 1) .. pos'
    BY <1>6, <2>1 DEF LspReads, StreamSplitAtNewline
  <2>3. StreamSplitAtNewline'
    BY <2>1, <2>2 DEF StreamSplitAtNewline
  <2> QED BY <1>6, <2>1, <2>2, <2>3 DEF LspReads, StartsAndEndsForAReason
<1>7. CASE UNCHANGED vars
  BY <1>7 DEF vars, stream, UpToNewline, StreamSplitAtNewline, StartsAndEndsForAReason
<1> QED BY <1>1, <1>2, <1>3, <1>4, <1>5, <1>6, <1>7 DEF Next

LEMMA Invariance == Spec => []IInv
  BY InitInvariant, StepInvariant, PTL DEF Spec

(* The details reader takes the line and its newline and nothing behind    *)
(* it, and the connection gets every byte after, for every chunking.       *)
THEOREM StreamSplit == Spec => []StreamSplitAtNewline
<1>1. IInv => StreamSplitAtNewline
  BY DEF IInv
<1> QED BY <1>1, Invariance, PTL

(* The runtime never comes up with details that fail the validation or     *)
(* with a server that was not set up; and the process ends only without a  *)
(* line in time or for one that is no JSON when it has asked for details,  *)
(* and only for a server that cannot be set up when it has not.            *)
THEOREM ReasonedStart == Spec => []StartsAndEndsForAReason
<1>1. IInv => StartsAndEndsForAReason
  BY DEF IInv
<1> QED BY <1>1, Invariance, PTL

=============================================================================
