------------------------------ MODULE MCDeployment ------------------------------
(***************************************************************************)
(* Values for TLC: environments with all that is needed, and with one      *)
(* thing missing or wrong each.                                            *)
(***************************************************************************)
EXTENDS Deployment, TLC

Complete == [connection |-> "set", secret |-> "set", redis |-> "valid",
             limit |-> "positive", sizes |-> "numbers"]

CompleteOnly == {Complete}

AnyEnvironment ==
    {Complete, [Complete EXCEPT !.secret = "missing"], [Complete EXCEPT !.redis = "invalid"],
     [Complete EXCEPT !.limit = "zero"]}
===============================================================================
