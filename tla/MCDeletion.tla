----------------------------- MODULE MCDeletion -----------------------------
(* Instances of CredentialDeletion for TLC.                                *)
EXTENDS CredentialDeletion

CONSTANTS r1, r2

(* Two connections, one of IAM Identity Center and a Builder ID.           *)
MCStartUrl == [r \in Requests |-> IF r = r1 THEN "awsHost" ELSE "builderId"]

=============================================================================
