------------------------------ MODULE MCEngine ------------------------------
(* Instances of Engine for TLC.                                            *)
EXTENDS Engine, TLC

CONSTANTS bash, write, rm

Policy == bash :> "Allow" @@ write :> "Ask" @@ rm :> "Deny"
AllowOnly == bash :> "Allow"
=============================================================================
