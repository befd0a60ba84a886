--------------------------- MODULE MigrationRunner ---------------------------
(***************************************************************************)
(* The migration cycle of resources/migrations/runner.ts, with the state   *)
(* file of state.ts, running the visibility backfill under the lock of     *)
(* MigrationLock.                                                          *)
(*                                                                         *)
(* A process runs a cycle when it boots: it takes the lock, reads the      *)
(* state file, looks for rows without a visibility, fills them batch by    *)
(* batch, counts again and records the outcome.  It may die at any step,   *)
(* lose its lock to another host, or fail at any call; owners write their  *)
(* rows and rows without a visibility arrive meanwhile.                    *)
(***************************************************************************)
EXTENDS MigrationLock

CONSTANTS
  Rows,         \* the memory rows the corpus may have
  Versions,     \* the program versions
  Version,      \* runningVersion of each process
  MaxCycles,    \* bound on the cycles begun
  MaxArrivals   \* bound on the rows that arrive without a visibility

ASSUME RunnerAssumption ==
  /\ Version \in [Procs -> Versions]
  /\ MaxCycles \in Nat /\ MaxArrivals \in Nat
  /\ None \notin [out : {"success", "halted"}, ver : Versions \cup {None}, unconf : SUBSET Rows]

VARIABLES
  pending,    \* the rows whose visibility nobody has set
  state,      \* the migration's entry in the state file
  stage,      \* where the cycle of each process is
  ent,        \* the entry the cycle read at its start
  unconf,     \* the unconfirmed record of the cycle
  cand,       \* the candidates of the batch not handled yet
  touched,    \* touchedIds of the batch
  next,       \* the entry the cycle is about to record
  base,       \* the file as the state write read it
  arrived,    \* history: rows that arrived since the cycle's last count
  late,       \* history: rows that arrived since the count the entry rests on
  cycles,     \* cycles begun so far
  arrivals    \* rows arrived so far

workVars == <<ent, unconf, cand, touched>>
cycleVars == <<stage, workVars, next, base, arrived>>
runnerVars == <<pending, state, cycleVars, late, cycles, arrivals>>
vars == <<lockVars, runnerVars>>

StateEntry == [out : {"success", "halted"}, ver : Versions \cup {None}, unconf : SUBSET Rows]

Init ==
  /\ LockInit
  /\ pending = Rows
  /\ state = None
  /\ stage = [p \in Procs |-> "begin"]
  /\ ent = [p \in Procs |-> None]
  /\ unconf = [p \in Procs |-> {}]
  /\ cand = [p \in Procs |-> {}]
  /\ touched = [p \in Procs |-> {}]
  /\ next = [p \in Procs |-> None]
  /\ base = [p \in Procs |-> None]
  /\ arrived = [p \in Procs |-> {}]
  /\ late = {}
  /\ cycles = 0 /\ arrivals = 0

-----------------------------------------------------------------------------
(* The state file says that the migration is done.                         *)
Recorded == state # None /\ state.out = "success"

(* A process that holds the lock is at stage s of its cycle.               *)
At(p, s) == p \in alive /\ pc[p] = "work" /\ stage[p] = s
Stage(p, s) == stage' = [stage EXCEPT ![p] = s]

(* What only the steps of others and the end of a state write change.      *)
Same == UNCHANGED <<pending, state, late, cycles, arrivals>>
SameLock == UNCHANGED <<host, alive, callVars, fileVars, memVars, stolen>>

(* What the migration worked with is gone when the cycle leaves it.        *)
Leave(p) ==
  /\ ent' = [ent EXCEPT ![p] = None]
  /\ unconf' = [unconf EXCEPT ![p] = {}]
  /\ cand' = [cand EXCEPT ![p] = {}]
  /\ touched' = [touched EXCEPT ![p] = {}]

(* The cycle goes on to record entry e,                                    *)
Record(p, e) ==
  /\ next' = [next EXCEPT ![p] = e]
  /\ Stage(p, "record")
  /\ Leave(p)

(* or has nothing left to do.                                              *)
Finish(p) ==
  /\ next' = [next EXCEPT ![p] = None]
  /\ base' = [base EXCEPT ![p] = None]
  /\ arrived' = [arrived EXCEPT ![p] = {}]
  /\ Stage(p, "end")
  /\ Leave(p)

(* haltMigration: an entry without a version never short-circuits.         *)
Halted(p, u) == [out |-> "halted", ver |-> None, unconf |-> u]
Succeeded(p, u) == [out |-> "success", ver |-> Version[p], unconf |-> u]

(* runMigrationCycle is called: at most MaxCycles times.                   *)
StartCycle(p) ==
  /\ cycles < MaxCycles
  /\ Acquire(p)
  /\ cycles' = cycles + 1
  /\ UNCHANGED <<pending, state, cycleVars, late, arrivals>>

(* The file is read and the recorded ids are read again: an id is cleared  *)
(* when its row is at the target or gone, and kept when the read throws.   *)
(* A success recorded at the running version ends the cycle, which then    *)
(* writes the entry only if its record has shrunk.                         *)
BeginCycle(p) ==
  /\ At(p, "begin")
  /\ LET recorded == IF state = None THEN {} ELSE state.unconf
         shortCircuited == Recorded /\ state.ver = Version[p]
     IN  \E kept \in SUBSET recorded :
           /\ recorded \cap pending \subseteq kept
           /\ IF kept = recorded \cap pending THEN UNCHANGED lockVars ELSE Fault /\ SameLock
           /\ \/ /\ shortCircuited /\ kept = recorded
                 /\ Finish(p)
              \/ /\ shortCircuited /\ kept # recorded
                 /\ Record(p, [state EXCEPT !.unconf = kept])
                 /\ arrived' = [arrived EXCEPT ![p] = late]
                 /\ UNCHANGED base
              \/ /\ ~shortCircuited
                 /\ unconf' = [unconf EXCEPT ![p] = kept]
                 /\ ent' = [ent EXCEPT ![p] = state]
                 /\ arrived' = [arrived EXCEPT ![p] = late]
                 /\ Stage(p, "detect")
                 /\ UNCHANGED <<cand, touched, next, base>>
  /\ Same

(* detect().  When nothing is pending, a record that still counts rows is  *)
(* kept under its old outcome, and one that has become empty is replaced   *)
(* by a success.                                                           *)
Detect(p) ==
  /\ At(p, "detect")
  /\ LET recorded == IF ent[p] = None THEN {} ELSE ent[p].unconf
     IN  \/ /\ pending # {}
            /\ Stage(p, "preflight")
            /\ UNCHANGED <<workVars, next, base, arrived>>
         \/ /\ pending = {} /\ unconf[p] = recorded
            /\ Finish(p)
         \/ /\ pending = {} /\ unconf[p] # recorded
            /\ Record(p, IF unconf[p] # {} THEN [ent[p] EXCEPT !.unconf = unconf[p]]
                         ELSE Succeeded(p, {}))
            /\ arrived' = IF unconf[p] # {} THEN arrived ELSE [arrived EXCEPT ![p] = {}]
            /\ UNCHANGED base
  /\ UNCHANGED lockVars /\ Same

(* detect() or the pre-hash throws: the cycle ends and records nothing.    *)
CycleFails(p) ==
  /\ At(p, "detect") \/ At(p, "preflight")
  /\ Fault /\ SameLock
  /\ Finish(p)
  /\ Same

(* The rows are counted, the disk has room, the snapshot is taken, and the *)
(* candidates of the first batch are searched; as they are for every other *)
(* batch.  A batch has some of the pending rows, if there are any.         *)
SearchBatch(p) ==
  /\ At(p, "preflight") \/ At(p, "search")
  /\ \E C \in SUBSET pending :
       /\ C = {} => pending = {}
       /\ cand' = [cand EXCEPT ![p] = C]
  /\ touched' = [touched EXCEPT ![p] = {}]
  /\ Stage(p, "write")
  /\ UNCHANGED <<lockVars, ent, unconf, next, base, arrived>> /\ Same

(* One candidate: its id is locked by a writer and left for another cycle, *)
(* or its row has a visibility by now and is skipped, or it is filled and  *)
(* the committed row is read back.                                         *)
WriteRow(p, r) ==
  /\ At(p, "write") /\ r \in cand[p]
  /\ cand' = [cand EXCEPT ![p] = @ \ {r}]
  /\ \/ UNCHANGED <<pending, touched, unconf>>
     \/ /\ r \in pending
        /\ pending' = pending \ {r}
        /\ touched' = [touched EXCEPT ![p] = @ \cup {r}]
        /\ unconf' = [unconf EXCEPT ![p] = @ \ {r}]
  /\ UNCHANGED <<lockVars, state, stage, ent, next, base, arrived, late, cycles, arrivals>>

(* The read-back does not show the write, which may have been stored or    *)
(* not; or the write throws, and the batch ends with what it had done.     *)
WriteRowFails(p, r) ==
  /\ At(p, "write") /\ r \in cand[p]
  /\ Fault /\ SameLock
  /\ pending' \in {pending, pending \ {r}}
  /\ \/ /\ r \in pending
        /\ unconf' = [unconf EXCEPT ![p] = @ \cup {r}]
        /\ cand' = [cand EXCEPT ![p] = @ \ {r}]
        /\ UNCHANGED <<stage, ent, touched, next>>
     \/ \E u \in {unconf[p], unconf[p] \cup {r}} : Record(p, Halted(p, u))
  /\ UNCHANGED <<state, base, arrived, late, cycles, arrivals>>

(* The batch is over: the lock is touched, and a batch that did nothing is *)
(* the last one.                                                           *)
EndBatch(p) ==
  /\ At(p, "write") /\ cand[p] = {}
  /\ Touched(p)
  /\ Stage(p, IF touched[p] = {} THEN "gate" ELSE "search")
  /\ UNCHANGED <<host, alive, callVars, guard, guardFresh, lock, memVars, bounds, stolen>>
  /\ UNCHANGED <<workVars, next, base, arrived>> /\ Same

(* Mutant of Gate: a batch that did nothing counts as the end of the work. *)
GateUncounted(p) ==
  /\ At(p, "gate")
  /\ Record(p, Succeeded(p, unconf[p]))
  /\ arrived' = [arrived EXCEPT ![p] = {}]
  /\ UNCHANGED <<lockVars, base>> /\ Same

(* The completion gate counts the pending rows again.                      *)
Gate(p) ==
  /\ At(p, "gate")
  /\ Record(p, IF pending = {} THEN Succeeded(p, unconf[p]) ELSE Halted(p, unconf[p]))
  /\ arrived' = [arrived EXCEPT ![p] = {}]
  /\ UNCHANGED <<lockVars, base>> /\ Same

(* A preflight step, a search or the final count fails: the migration      *)
(* halts and says so.                                                      *)
MigrationHalts(p) ==
  /\ At(p, "preflight") \/ At(p, "search") \/ At(p, "gate")
  /\ Fault /\ SameLock
  /\ Record(p, Halted(p, unconf[p]))
  /\ UNCHANGED <<base, arrived>> /\ Same

-----------------------------------------------------------------------------
(* writeMigrationStateEntry reads the file,                                *)
ReadStateFile(p) ==
  /\ At(p, "record")
  /\ base' = [base EXCEPT ![p] = state]
  /\ Stage(p, "check")
  /\ UNCHANGED <<lockVars, workVars, next, arrived>> /\ Same

(* looks whether the lock is still its own,                                *)
CheckLock(p) ==
  /\ At(p, "check")
  /\ \/ /\ StillHeld(p)
        /\ Stage(p, "rename")
        /\ UNCHANGED <<workVars, next, base, arrived>>
     \/ /\ ~StillHeld(p)
        /\ Finish(p)
  /\ UNCHANGED lockVars /\ Same

(* and renames a new file over it.                                         *)
RenameState(p) ==
  /\ At(p, "rename")
  /\ state' = next[p]
  /\ late' = IF next[p].out = "success" THEN arrived[p] ELSE {}
  /\ Finish(p)
  /\ UNCHANGED <<lockVars, pending, cycles, arrivals>>

(* A state write that fails is logged, and the cycle goes on.              *)
StateWriteFails(p) ==
  /\ At(p, "record") \/ At(p, "check") \/ At(p, "rename")
  /\ Fault /\ SameLock
  /\ Finish(p)
  /\ Same

(* The cycle ends and gives the lock back.                                 *)
EndCycle(p) ==
  /\ stage[p] = "end"
  /\ Release(p)
  /\ Stage(p, "begin")
  /\ UNCHANGED <<workVars, next, base, arrived>> /\ Same

-----------------------------------------------------------------------------
(* The process dies, in a cycle or outside one.                            *)
Die(p) ==
  /\ Crash(p)
  /\ Stage(p, "begin")
  /\ Leave(p)
  /\ next' = [next EXCEPT ![p] = None]
  /\ base' = [base EXCEPT ![p] = None]
  /\ arrived' = [arrived EXCEPT ![p] = {}]
  /\ Same

(* It boots again.                                                         *)
Restart(p) == Boot(p) /\ UNCHANGED runnerVars

(* The owner of a row sets its visibility.                                 *)
OwnerPut(r) ==
  /\ r \in pending
  /\ pending' = pending \ {r}
  /\ UNCHANGED <<lockVars, state, cycleVars, late, cycles, arrivals>>

(* A row without a visibility is restored or merged in.                    *)
RowArrives(r) ==
  /\ r \notin pending /\ arrivals < MaxArrivals
  /\ pending' = pending \cup {r}
  /\ arrivals' = arrivals + 1
  /\ late' = IF Recorded THEN late \cup {r} ELSE late
  /\ arrived' = [p \in Procs |-> IF stage[p] \in {"begin", "end"} THEN {} ELSE arrived[p] \cup {r}]
  /\ UNCHANGED <<lockVars, state, stage, workVars, next, base, cycles>>

(* The steps of a cycle that do not need a failure.                        *)
CycleStep(p) ==
  \/ BeginCycle(p) \/ Detect(p) \/ SearchBatch(p)
  \/ \E r \in Rows : WriteRow(p, r)
  \/ EndBatch(p) \/ Gate(p) \/ ReadStateFile(p) \/ CheckLock(p) \/ RenameState(p) \/ EndCycle(p)

CycleFault(p) ==
  \/ CycleFails(p) \/ MigrationHalts(p) \/ StateWriteFails(p)
  \/ \E r \in Rows : WriteRowFails(p, r)

LockCall(p) == CallStep(p) /\ UNCHANGED runnerVars

Next ==
  \/ \E p \in Procs :
       \/ StartCycle(p) \/ LockCall(p) \/ CycleStep(p)
       \/ CallFails(p) /\ UNCHANGED runnerVars
       \/ CycleFault(p)
       \/ Die(p) \/ Restart(p)
  \/ \E r \in Rows : OwnerPut(r) \/ RowArrives(r)
  \/ Ages /\ UNCHANGED runnerVars

Spec == Init /\ [][Next]_vars

-----------------------------------------------------------------------------
(* Every variable has its type.                                            *)
TypeOK ==
  /\ LockTypeOK
  /\ pending \subseteq Rows
  /\ state \in StateEntry \cup {None}
  /\ stage \in [Procs -> {"begin", "detect", "preflight", "search", "write", "gate",
                          "record", "check", "rename", "end"}]
  /\ {ent, next, base} \subseteq [Procs -> StateEntry \cup {None}]
  /\ {unconf, cand, touched, arrived} \subseteq [Procs -> SUBSET Rows]
  /\ late \subseteq Rows
  /\ cycles \in 0 .. MaxCycles /\ arrivals \in 0 .. MaxArrivals

(* A success in the state file is true: every row that has no visibility   *)
(* arrived after the count the entry rests on, whatever crashed, failed,   *)
(* was left out of a batch or was taken over since.                        *)
SuccessCovers == Recorded => pending \subseteq late

(* No state write loses another: between the read of the file and the      *)
(* rename that replaces all of it, nobody else writes it, as long as no    *)
(* file of a live process was taken over from another host by its age.     *)
NoLostEntry ==
  ~stolen => \A p \in Procs : stage[p] \in {"check", "rename"} => base[p] = state
==============================================================================
