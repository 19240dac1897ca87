------------------------------ MODULE MCFailover ------------------------------
(* A task of one message, without anything injected, on four profiles of three *)
(* accounts.                                                                    *)
EXTENDS Failover

FourProfiles == {"p", "q", "r", "q2"}
Shared == [x \in FourProfiles |-> IF x = "q2" THEN "q" ELSE x]
===============================================================================
