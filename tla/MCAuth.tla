------------------------------- MODULE MCAuth -------------------------------
(* Instances of Auth and of the store it implements for TLC.               *)
EXTENDS Auth

CONSTANTS r1, r2, r3

(* The URL kinds of the three connections: an IAM Identity Center one, a   *)
(* Builder ID one and one of an external identity provider.                *)
MCStartUrl ==
    [r \in Requests |->
        IF r = r1 THEN "awsHost" ELSE IF r = r2 THEN "builderId" ELSE "otherHost"]

=============================================================================
