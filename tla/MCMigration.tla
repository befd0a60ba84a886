----------------------------- MODULE MCMigration -----------------------------
EXTENDS MigrationRunner

CONSTANTS p1, p2, h1, h2, r1

(* Both processes on one host, or each on its own.                         *)
TwoHostings == {[p \in Procs |-> h1], [p \in Procs |-> IF p = p1 THEN h1 ELSE h2]}
TwoVersions == [p \in Procs |-> IF p = p1 THEN 1 ELSE 2]
FourIds == 1 .. 4
==============================================================================
