------------------------------ MODULE MCSession ------------------------------
(* Instances of EncryptedSession for TLC: a tool that may take a string or *)
(* a list, an SSO token, and IAM credentials with and without a session    *)
(* token (sts, iam).                                                       *)
EXTENDS EncryptedSession

CONSTANTS r1, r2, sso, iam, sts

MCOf == [o \in Results |-> IF o = sso THEN "sso" ELSE "iam"]

MCSchemas == {{"string"}, {"list"}}

=============================================================================
