-------------------------- MODULE MCLockedTransaction --------------------------
(* An archive call that holds both rows, with two writes in its scope, a   *)
(* competing call on row 1 with a write of it, and a put on row 1.         *)
EXTENDS LockedTransaction, TLC
CONSTANTS archive, rival, s1, s2, wA, wB, wR, wX, main, pq

MCScopeCall == (s1 :> archive) @@ (s2 :> rival)
MCWriteScope == (wA :> s1) @@ (wB :> s1) @@ (wR :> s2)
MCWriteToken == (wA :> archive) @@ (wB :> archive) @@ (wR :> rival)
MCWriteId == (wA :> 1) @@ (wB :> 2) @@ (wR :> 1)
MCIdsOf == (archive :> {1, 2}) @@ (rival :> {1})
MCAttempts == (archive :> 1) @@ (rival :> 1)
MCPutId == (pq :> 1)
MCWorkerOf == (archive :> main) @@ (rival :> main)

(* The instance of the liveness run: one scope writes row 1 twice and is   *)
(* given a write of row 2, which its token does not cover; the rival on    *)
(* row 1 opens no scope, and nobody writes outside the lock.               *)
LiveScopeCall == (s1 :> archive)
LiveWriteScope == (wA :> s1) @@ (wB :> s1) @@ (wX :> s1)
LiveWriteToken == (wA :> archive) @@ (wB :> archive) @@ (wX :> archive)
LiveWriteId == (wA :> 1) @@ (wB :> 1) @@ (wX :> 2)
LiveIdsOf == (archive :> {1}) @@ (rival :> {1})
LivePutId == <<>>
=============================================================================
