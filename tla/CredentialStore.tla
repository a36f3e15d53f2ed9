--------------------------- MODULE CredentialStore ---------------------------
(***************************************************************************)
(* What the credential store of a runtime promises its clients and its     *)
(* servers, without promises, decryption or metadata requests: every       *)
(* update takes effect at one instant between its arrival and its answer,  *)
(* in one slot, and a token never comes without saying which connection it *)
(* belongs to, unless nothing is said of the connection at all.            *)
(***************************************************************************)

CONSTANTS
    Requests,   \* the update requests, which also name their credentials
    None        \* nothing

VARIABLES
    iam, bearer, atx,   \* the credential in each slot
    meta,               \* the connection described to the servers
    status              \* how far each request has come

vars == <<iam, bearer, atx, meta, status>>

Become(r, s) == status' = [status EXCEPT ![r] = s]

Open(r) == status[r] \in {"new", "pending"}

Init ==
    /\ iam = None
    /\ bearer = None
    /\ atx = None
    /\ meta = None
    /\ status = [r \in Requests |-> "new"]

(* The request is taken up and will be answered later.                     *)
Begin(r) ==
    /\ status[r] = "new"
    /\ Become(r, "pending")
    /\ UNCHANGED <<iam, bearer, atx, meta>>

AcceptIam(r) ==
    /\ Open(r)
    /\ iam' = r
    /\ Become(r, "accepted")
    /\ UNCHANGED <<bearer, atx, meta>>

AcceptAtx(r) ==
    /\ Open(r)
    /\ atx' = r
    /\ Become(r, "accepted")
    /\ UNCHANGED <<iam, bearer, meta>>

AcceptBearer(r) ==
    /\ Open(r)
    /\ bearer' = r
    /\ meta' \in {r, None}
    /\ Become(r, "accepted")
    /\ UNCHANGED <<iam, atx>>

(* A refused update may log the user out of its channel.                   *)
Refuse(r) ==
    /\ Open(r)
    /\ Become(r, "refused")
    /\ \/ iam' = None /\ UNCHANGED <<bearer, atx, meta>>
       \/ bearer' = None /\ atx' = None /\ UNCHANGED <<iam, meta>>
       \/ UNCHANGED <<iam, bearer, atx, meta>>

RevokeIam ==
    /\ iam' = None
    /\ UNCHANGED <<bearer, atx, meta, status>>

RevokeBearer ==
    /\ bearer' = None
    /\ atx' = None
    /\ meta' = None
    /\ UNCHANGED <<iam, status>>

Next ==
    \/ \E r \in Requests :
        Begin(r) \/ AcceptIam(r) \/ AcceptAtx(r) \/ AcceptBearer(r) \/ Refuse(r)
    \/ RevokeIam
    \/ RevokeBearer

Spec == Init /\ [][Next]_vars

=============================================================================
