----------------------------- MODULE UsageLedger -----------------------------
(***************************************************************************)
(* Usage recording (resources/usage-recording.ts) for one memory.          *)
(*                                                                         *)
(* A CONTRIBUTION credits the memory with one agent's use of it, at most   *)
(* once per agent: under the memory id's write lock, tried once, it looks  *)
(* for the ledger row of the (agent, memory) pair, creates it in one owned *)
(* transaction, and then bumps usageCount through writeBackCommittedRow in *)
(* another.  The steps from "selected" on are those of WriteBack.          *)
(*                                                                         *)
(* The same use may be reported again (a citation and a RecordUsage, a     *)
(* client's retry), and the process may crash between any two steps: the   *)
(* row and the ledger survive, the lock and the calls in flight do not.    *)
(*                                                                         *)
(* usageCount is an ordinary attribute of the row for every other writer:  *)
(* an owner's PUT stores its body as the whole row, count included or not, *)
(* and a federation merge copies the peer's.  What is said of the count is *)
(* said relative to those.                                                 *)
(***************************************************************************)
EXTENDS WriteBack

CONSTANTS
  Agent,   \* the contributing agent of each call
  MaxPuts  \* bound on the other writes under the memory id's lock

ASSUME UsageAssumption ==
  /\ IsFiniteSet(Calls) /\ Idempotent = {}
  /\ DOMAIN Agent = Calls
  /\ MaxPuts \in Nat

VARIABLES
  ledger,  \* the agents whose MemoryUsage row for this memory is stored
  holder,  \* the call that holds the memory id's write lock, or NoCall
  puts,    \* the other writes under that lock
  start,   \* history: the last count stored under the lock by another writer,
           \* and the calls whose bump had been stored by then
  given    \* history: the largest count another writer has stored of its own

givenVars == <<puts, start, given>>
usageVars == <<vars, ledger, holder, givenVars>>

Agents == {Agent[c] : c \in Calls}

(* The calls whose bump was stored.                                        *)
Landed == {c \in Calls : landed[c] > 0}

UsageInit ==
  /\ Init
  /\ ledger = {} /\ holder = NoCall
  /\ puts = 0 /\ start = [n |-> 0, bumps |-> {}] /\ given = 0

Larger(m, n) == IF m < n THEN n ELSE m

(* Mutant of Settled: the lock is only released by a bump that applied.    *)
SettledIfApplied(c) ==
  holder' = IF pc'[c] = "answered" /\ answer'[c] = "applied" THEN NoCall ELSE holder

(* The lock is released when the contribution ends, whatever its end.      *)
Settled(c) == holder' = IF pc'[c] = "answered" THEN NoCall ELSE holder

(* Mutant of TakeLock: contributions are not serialised.                   *)
TakeLockShared(c) ==
  /\ pc[c] = "idle"
  /\ holder' = c /\ pc' = [pc EXCEPT ![c] = "locked"] /\ UNCHANGED answer
  /\ UNCHANGED <<row, composed, raw, attempt, basis, seen, landed, ledger, givenVars>>

(* withMemoryWriteLockOnce: one try; a held id skips the contribution.     *)
TakeLock(c) ==
  /\ pc[c] = "idle"
  /\ IF holder = NoCall
       THEN holder' = c /\ pc' = [pc EXCEPT ![c] = "locked"] /\ UNCHANGED answer
       ELSE Answer(c, "busy") /\ UNCHANGED holder
  /\ UNCHANGED <<row, composed, raw, attempt, basis, seen, landed, ledger, givenVars>>

(* The owned transaction's reads: a stored ledger row ends the call, and   *)
(* so does a memory that is absent or not readable.  The memory row read   *)
(* here becomes the expected row of the bump.                              *)
CheckLedger(c) ==
  /\ pc[c] = "locked"
  /\ IF Agent[c] \in ledger THEN Answer(c, "counted") /\ UNCHANGED basis
     ELSE IF row.inst = 0 \/ ~row.fit THEN Answer(c, "skipped") /\ UNCHANGED basis
     ELSE /\ basis' = [basis EXCEPT ![c] = row]
          /\ pc' = [pc EXCEPT ![c] = "claiming"] /\ UNCHANGED answer
  /\ Settled(c)
  /\ UNCHANGED <<row, composed, raw, attempt, seen, landed, ledger, givenVars>>

(* Mutant of LedgerReadFails: a failed read is taken for "no row".         *)
LedgerReadFailsOpen(c) ==
  /\ pc[c] = "locked"
  /\ basis' = [basis EXCEPT ![c] = row]
  /\ row.inst # 0
  /\ pc' = [pc EXCEPT ![c] = "claiming"]
  /\ UNCHANGED <<row, composed, raw, attempt, seen, landed, answer, ledger, holder, givenVars>>

(* UsageLedgerReadError: the ledger read failed, nothing is written.       *)
LedgerReadFails(c) ==
  /\ pc[c] = "locked"
  /\ Answer(c, "error")
  /\ Settled(c)
  /\ UNCHANGED <<row, composed, raw, attempt, basis, seen, landed, ledger, givenVars>>

(* Mutants of CommitClaim: the ledger row is keyed by the report, not by   *)
(* the agent; it is left to be written after the bump.                     *)
CommitClaimPerReport(c) ==
  /\ pc[c] = "claiming"
  /\ ledger' = ledger \cup {c}
  /\ pc' = [pc EXCEPT ![c] = "selected"]
  /\ UNCHANGED <<row, composed, raw, attempt, basis, seen, landed, answer, holder, givenVars>>
CommitClaimLater(c) ==
  /\ pc[c] = "claiming"
  /\ pc' = [pc EXCEPT ![c] = "selected"]
  /\ UNCHANGED <<row, composed, raw, attempt, basis, seen, landed, answer, ledger, holder, givenVars>>

(* The ledger row commits, before the count is touched.                    *)
CommitClaim(c) ==
  /\ pc[c] = "claiming"
  /\ ledger' = ledger \cup {Agent[c]}
  /\ pc' = [pc EXCEPT ![c] = "selected"]
  /\ UNCHANGED <<row, composed, raw, attempt, basis, seen, landed, answer, holder, givenVars>>

(* ... or its transaction fails, and the contribution with it.             *)
ClaimFails(c) ==
  /\ pc[c] = "claiming"
  /\ Answer(c, "error")
  /\ Settled(c)
  /\ UNCHANGED <<row, composed, raw, attempt, basis, seen, landed, ledger, givenVars>>

(* A step of writeBackCommittedRow.                                        *)
Bump(c) == CallStep(c) /\ Settled(c) /\ UNCHANGED <<ledger, givenVars>>

Contribution(c) ==
  \/ CheckLedger(c) \/ LedgerReadFails(c) \/ CommitClaim(c) \/ ClaimFails(c) \/ Bump(c)

Put == puts < MaxPuts /\ puts' = puts + 1

(* An owner's PATCH that does not name the count: it takes the lock, so it *)
(* runs between contributions, and may change whether an agent can read    *)
(* the memory.                                                             *)
OwnerPatch(fit) ==
  /\ holder = NoCall
  /\ row.inst # 0 /\ row.fit # fit
  /\ row' = [row EXCEPT !.fit = fit, !.ver = @ + 1]
  /\ Put
  /\ UNCHANGED <<composed, raw, callVars, ledger, holder, start, given>>

(* The writes under the lock that carry a count: an owner's PUT, whose     *)
(* body is the whole row (without a count it clears it), a PATCH that      *)
(* names the count, and a federation merge, which takes the peer's.        *)
OwnerPut(fit, n) ==
  /\ holder = NoCall
  /\ row.inst # 0
  /\ row' = [row EXCEPT !.fit = fit, !.n = n, !.by = NoCall, !.ver = @ + 1]
  /\ Put
  /\ start' = [n |-> n, bumps |-> Landed]
  /\ given' = Larger(given, n)
  /\ UNCHANGED <<composed, raw, callVars, ledger, holder>>

(* A writer that takes no lock.                                            *)
OtherWriter ==
  \/ /\ ComposedRead \/ Delete \/ Replace \/ Composes(composed.n)
     /\ UNCHANGED <<ledger, holder, givenVars>>
  \/ \E n \in Counts :
       /\ Composes(n)
       /\ given' = Larger(given, n)
       /\ UNCHANGED <<ledger, holder, puts, start>>

(* The process dies: calls in flight, a pending composed PUT and the lock  *)
(* are gone.                                                               *)
Crash ==
  /\ holder # NoCall
  /\ holder' = NoCall
  /\ composed' = row
  /\ pc' = [c \in Calls |-> IF pc[c] = "idle" THEN "idle" ELSE "answered"]
  /\ answer' = [c \in Calls |-> IF pc[c] \in {"idle", "answered"} THEN answer[c] ELSE "lost"]
  /\ UNCHANGED <<row, raw, attempt, basis, seen, landed, ledger, givenVars>>

UsageNext ==
  \/ \E c \in Calls : TakeLock(c) \/ Contribution(c)
  \/ OtherWriter
  \/ \E fit \in BOOLEAN : OwnerPatch(fit) \/ \E n \in Counts : OwnerPut(fit, n)
  \/ Crash

UsageSpec == UsageInit /\ [][UsageNext]_usageVars

(* A contribution that holds the lock runs on.                             *)
FairUsageSpec == UsageSpec /\ \A c \in Calls : WF_usageVars(Contribution(c))

-----------------------------------------------------------------------------
(* Properties.                                                             *)

UsagePCs == PCs \cup {"locked", "claiming"}

(* Every variable of the composition has its type.                         *)
UsageTypeOK ==
  /\ row \in Rows /\ composed \in Rows
  /\ raw \in Nat
  /\ pc \in [Calls -> UsagePCs]
  /\ attempt \in [Calls -> 0 .. Attempts]
  /\ basis \in [Calls -> Rows] /\ seen \in [Calls -> Rows]
  /\ landed \in [Calls -> Nat]
  /\ answer \in [Calls -> Answers \cup {"busy", "counted", "lost"}]
  /\ ledger \subseteq Agents
  /\ holder \in Calls \cup {NoCall}
  /\ puts \in 0 .. MaxPuts
  /\ start \in [n : Nat, bumps : SUBSET Calls] /\ given \in Nat

(* An agent's use of the memory is counted at most once, however often it  *)
(* is reported and wherever a report crashed: no two bumps that were       *)
(* stored are of the same agent, and none was stored twice.                *)
CountedOncePerAgent ==
  /\ \A c \in Calls : landed[c] <= 1
  /\ \A c, d \in Landed : Agent[c] = Agent[d] => c = d

(* Recording never runs the count ahead of the ledger: usageCount exceeds  *)
(* the number of agents with a ledger row by no more than a count another  *)
(* writer has stored of its own, also when a composed PUT restores an      *)
(* older count or the memory is replaced.                                  *)
CountWithinLedger == row.n <= given + Cardinality(ledger)

(* Without a write that bypasses the lock no stored bump is lost but by a  *)
(* write that carries a count: the count is the one last carried and the   *)
(* bumps stored since, so contributions lose none to each other, and none  *)
(* to a PUT or a merge that comes between their steps.                     *)
NoLostBump == raw = 0 => row.n = start.n + Cardinality(Landed \ start.bumps)

(* The memory id's lock does not stay with a contribution: every one that  *)
(* takes it releases it, on every error path.                              *)
LockIsReleased == holder # NoCall ~> holder = NoCall
=============================================================================
