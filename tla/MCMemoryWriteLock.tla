--------------------------- MODULE MCMemoryWriteLock ---------------------------
(* Three lock calls on two worker threads: two retrying calls that share   *)
(* ids, one of them asking for both ids, and one automatic writer that     *)
(* tries once.                                                             *)
EXTENDS MemoryWriteLock, TLC
CONSTANTS put, merge, purge, w1, w2

MCCalls == {put, merge, purge}
MCIdsOf == (put :> {1}) @@ (merge :> {2}) @@ (purge :> {1, 2})
MCAttempts == (put :> 2) @@ (merge :> 1) @@ (purge :> 2)
MCWorkerOf == (put :> w1) @@ (merge :> w2) @@ (purge :> w1)
=============================================================================
