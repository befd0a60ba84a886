------------------------ MODULE MCInstanceCreateLock ------------------------
(* Three GETs, two of them on workers of one process, or two GETs of two   *)
(* processes where nextTicket may fail to list the lock directory.         *)
EXTENDS InstanceCreateLock
CONSTANTS p1, p2
MCProcOf == [c \in Gets |-> IF c = 2 THEN p2 ELSE p1]
=============================================================================
