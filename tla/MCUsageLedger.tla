---------------------------- MODULE MCUsageLedger ----------------------------
(* One agent reports its use of a memory twice, a second agent once.       *)
EXTENDS UsageLedger, TLC
CONSTANTS cited, retried, other, agentA, agentB
MCAgent == cited :> agentA @@ retried :> agentA @@ other :> agentB
=============================================================================
