-------------------------- MODULE UsageLedgerProofs --------------------------
(***************************************************************************)
(* Proofs about usage recording, for any calls, agents, attempts and       *)
(* competing writes.                                                       *)
(*                                                                         *)
(* That an agent is counted once is not inductive: it needs that a         *)
(* contribution between its lock and its answer is alone (Serialised),     *)
(* that one past its claim has its agent's ledger row and shares that      *)
(* agent with no bump already stored (Claimed), and that one still to      *)
(* commit has stored nothing (FreshUntilCommit).  That the count stays     *)
(* within the ledger, beyond what other writers gave it, needs the same    *)
(* bound on every copy of the row that may be written back                 *)
(* (CopiesBounded).  That no bump is lost needs that one is staged on the  *)
(* current row (StagedOnCurrent), and that those stored before the count   *)
(* was last given stay stored (StartStored).                               *)
(***************************************************************************)
EXTENDS UsageLedger, FiniteSetTheorems, TLAPS

BumpPCs == {"selected", "staged", "confirmed", "committed"}
Active == {"locked", "claiming"} \cup BumpPCs

Serialised == \A c \in Calls : pc[c] \in Active => holder = c

AttemptsLeft ==
  \A c \in Calls :
    /\ pc[c] \in {"idle", "locked", "claiming"} => attempt[c] = 0
    /\ pc[c] = "selected" => attempt[c] < Attempts

FreshUntilCommit ==
  \A c \in Calls :
    pc[c] \in {"idle", "locked", "claiming", "selected", "staged", "confirmed"} => landed[c] = 0

Claimed ==
  /\ \A c \in Calls : pc[c] = "claiming" => Agent[c] \notin ledger
  /\ \A c \in Calls : pc[c] \in BumpPCs \/ landed[c] > 0 => Agent[c] \in ledger
  /\ \A c, d \in Calls :
       c # d /\ pc[c] \in BumpPCs /\ landed[d] > 0 => Agent[c] # Agent[d]

CopiesBounded ==
  /\ row.n <= given + Cardinality(Landed)
  /\ composed.n <= given + Cardinality(Landed)
  /\ \A c \in Calls : seen[c].n <= given + Cardinality(Landed)

StartStored == start.bumps \subseteq Landed

StagedOnCurrent ==
  raw = 0 => \A c \in Calls : pc[c] \in {"staged", "confirmed"} => seen[c] = row

ControlInv ==
  /\ UsageTypeOK
  /\ Serialised
  /\ AttemptsLeft
  /\ FreshUntilCommit
  /\ IsFiniteSet(ledger)
  /\ Claimed
  /\ CountedOncePerAgent

CountInv == CopiesBounded /\ StartStored /\ StagedOnCurrent /\ NoLostBump

UsageInv == ControlInv /\ CountInv

-----------------------------------------------------------------------------
(* The assumptions on the constants, as the leaves use them.               *)
LEMMA UsageConstants ==
  /\ Idempotent = {} /\ NoCall \notin Calls
  /\ Attempts \in Nat \ {0} /\ MaxRaw \in Nat /\ MaxPuts \in Nat
  /\ Counts \subseteq Nat
  /\ IsFiniteSet(Calls)
  /\ \A c \in Calls : Agent[c] \in Agents
BY WriteBackAssumption, UsageAssumption DEF Agents

(* A blank row is a row with count 0.                                      *)
LEMMA BlankRow == \A k, v \in Nat : Blank(k, v) \in Rows /\ Blank(k, v).n = 0
BY DEF Blank, Rows

(* A row written back or edited is a row.                                  *)
LEMMA RowTypes ==
  /\ \A r \in Rows : r.n \in Nat /\ r.inst \in Nat /\ r.ver \in Nat /\ r.fit \in BOOLEAN
  /\ \A r \in Rows, f \in BOOLEAN, v \in Nat :
       /\ [r EXCEPT !.fit = f, !.ver = v] \in Rows
       /\ [r EXCEPT !.fit = f, !.ver = v].n = r.n
  /\ \A r \in Rows, f \in BOOLEAN, n, v \in Nat, b \in Calls \cup {NoCall} :
       /\ [r EXCEPT !.fit = f, !.n = n, !.by = b, !.ver = v] \in Rows
       /\ [r EXCEPT !.fit = f, !.n = n, !.by = b, !.ver = v].n = n
BY DEF Rows

(* The row a counting plan writes.                                         *)
LEMMA PlannedRow ==
  ASSUME NEW c \in Calls, row \in Rows, seen[c] \in Rows
  PROVE  Planned(c, row) \in Rows /\ Planned(c, row).n = seen[c].n + 1
<1>1. Planned(c, row) = [row EXCEPT !.n = seen[c].n + 1, !.by = c, !.ver = row.ver + 1]
  BY UsageConstants DEF Planned
<1>2. /\ row.ver + 1 \in Nat /\ seen[c].n + 1 \in Nat
      /\ c \in Calls \cup {NoCall}
  BY DEF Rows
<1>3. ASSUME NEW n \in Nat, NEW b \in Calls \cup {NoCall}, NEW v \in Nat
      PROVE  /\ [row EXCEPT !.n = n, !.by = b, !.ver = v] \in Rows
             /\ [row EXCEPT !.n = n, !.by = b, !.ver = v].n = n
  BY <1>3 DEF Rows
<1>4. /\ [row EXCEPT !.n = seen[c].n + 1, !.by = c, !.ver = row.ver + 1] \in Rows
      /\ [row EXCEPT !.n = seen[c].n + 1, !.by = c, !.ver = row.ver + 1].n = seen[c].n + 1
  BY <1>2, <1>3, ZenonT(60)
<1>5. QED BY <1>1, <1>4, ZenonT(60)

(* The number of stored bumps is a number, and no call can lower it.       *)
LEMMA LandedFinite == IsFiniteSet(Landed) /\ Cardinality(Landed) \in Nat
<1>1. Landed \in SUBSET Calls BY DEF Landed
<1>2. IsFiniteSet(Landed) BY <1>1, UsageConstants, FS_Subset
<1>3. QED BY <1>2, FS_CardinalityType

(* Storing a call's first bump adds one to the number of stored bumps, and *)
(* to the number stored since any earlier ones.                            *)
LEMMA LandedGrows ==
  ASSUME NEW c \in Calls, landed \in [Calls -> Nat], landed[c] = 0,
         landed' = [landed EXCEPT ![c] = @ + 1], NEW S \in SUBSET Landed
  PROVE  /\ Cardinality(Landed' \ S) = Cardinality(Landed \ S) + 1
         /\ Cardinality(Landed \ S) \in Nat /\ S \subseteq Landed'
<1>1. Landed' = Landed \cup {c} BY DEF Landed
<1>2. c \notin Landed BY DEF Landed
<1>3. Landed' \ S = (Landed \ S) \cup {c} /\ c \notin Landed \ S BY <1>1, <1>2
<1>4. IsFiniteSet(Landed \ S)
  <2>1. Landed \ S \in SUBSET Landed OBVIOUS
  <2>2. QED BY <2>1, LandedFinite, FS_Subset
<1>5. Cardinality((Landed \ S) \cup {c}) = Cardinality(Landed \ S) + 1
  BY <1>3, <1>4, FS_AddElement
<1>6. QED BY <1>1, <1>3, <1>4, <1>5, FS_CardinalityType

(* The invariant holds at the start: nothing is stored, no call has begun. *)
LEMMA UsageInitInv == UsageInit => UsageInv
<1> SUFFICES ASSUME UsageInit PROVE UsageInv OBVIOUS
<1> USE UsageConstants DEF UsageInit, Init
<1>1. Blank(1, 0) \in Rows /\ Blank(1, 0).n = 0 BY BlankRow
<1>2. Landed = {} BY DEF Landed
<1>3. Landed \ start.bumps = {} /\ Cardinality(Landed) = 0 /\ Cardinality({}) = 0
  BY <1>2, FS_EmptySet
<1>4. UsageTypeOK BY <1>1 DEF UsageTypeOK, UsagePCs, PCs, Answers
<1>5. IsFiniteSet(ledger) BY FS_EmptySet
<1>6. Serialised /\ AttemptsLeft /\ FreshUntilCommit /\ Claimed
  BY DEF Serialised, AttemptsLeft, FreshUntilCommit, Claimed, Active, BumpPCs
<1>7. CountedOncePerAgent BY <1>2 DEF CountedOncePerAgent
<1>8. CountInv
  BY <1>1, <1>2, <1>3 DEF CountInv, CopiesBounded, StartStored, StagedOnCurrent, NoLostBump
<1>9. QED BY <1>4, <1>5, <1>6, <1>7, <1>8 DEF UsageInv, ControlInv

(* A step that stores no bump, and puts into the row only what is given or *)
(* some copy of it already showed, keeps the counts.                       *)
LEMMA CountsKept ==
  ASSUME UsageInv, UNCHANGED landed,
         given' \in Nat, given <= given',
         row'.n <= given' + Cardinality(Landed),
         composed'.n <= given' + Cardinality(Landed),
         \A c \in Calls : seen'[c] = seen[c] \/ seen'[c] = row
  PROVE  CopiesBounded' /\ Landed' = Landed
<1>1. Landed' = Landed BY DEF Landed
<1>2. /\ Cardinality(Landed) \in Nat /\ given \in Nat /\ row.n \in Nat
      /\ \A c \in Calls : seen[c].n \in Nat
  BY LandedFinite, RowTypes DEF UsageInv, ControlInv, UsageTypeOK
<1>3. ASSUME NEW m \in Nat, m <= given + Cardinality(Landed)
      PROVE  m <= given' + Cardinality(Landed)
  BY <1>2, <1>3
<1>4. row.n <= given' + Cardinality(Landed)
      /\ \A c \in Calls : seen[c].n <= given' + Cardinality(Landed)
  BY <1>2, <1>3 DEF UsageInv, CountInv, CopiesBounded
<1>5. QED BY <1>1, <1>4 DEF CopiesBounded

(* A step that only moves one active call, to its end or to a place whose  *)
(* conditions it meets, preserves the invariant.                           *)
LEMMA CallMoves ==
  ASSUME UsageInv, NEW c \in Calls, pc[c] \in Active,
         NEW p \in Active \cup {"answered"},
         pc' = [pc EXCEPT ![c] = p],
         holder' = IF p = "answered" THEN NoCall ELSE holder,
         UNCHANGED <<row, composed, raw, landed, ledger, puts, start, given>>,
         answer' \in [Calls -> Answers \cup {"busy", "counted", "lost"}],
         basis' \in [Calls -> Rows],
         attempt' \in [Calls -> 0 .. Attempts],
         \A d \in Calls \ {c} : attempt'[d] = attempt[d],
         seen' = seen \/ seen' = [seen EXCEPT ![c] = row],
         p \in {"locked", "claiming"} => attempt'[c] = 0,
         p = "claiming" => Agent[c] \notin ledger,
         p \in BumpPCs => pc[c] \in BumpPCs,
         p = "selected" => attempt'[c] < Attempts,
         p \in {"selected", "staged", "confirmed"} => landed[c] = 0,
         p \in {"locked", "claiming"} => landed[c] = 0,
         p \in {"staged", "confirmed"} /\ raw = 0 => seen'[c] = row
  PROVE  UsageInv'
<1> USE UsageConstants
<1>1. UsageTypeOK /\ Serialised /\ AttemptsLeft /\ FreshUntilCommit /\ Claimed
      /\ IsFiniteSet(ledger) /\ CountedOncePerAgent /\ CountInv
  BY DEF UsageInv, ControlInv
<1>2. UsageTypeOK'
  BY <1>1 DEF UsageTypeOK, UsagePCs, PCs, Active, BumpPCs
<1>3. Serialised' BY <1>1 DEF Serialised, UsageTypeOK, Active, BumpPCs
<1>4. AttemptsLeft' BY <1>1 DEF AttemptsLeft, UsageTypeOK, Active, BumpPCs
<1>5. FreshUntilCommit'
  BY <1>1 DEF FreshUntilCommit, UsageTypeOK, Active, BumpPCs
<1>6. Claimed' BY <1>1 DEF Claimed, UsageTypeOK, Active, BumpPCs
<1>7. CountedOncePerAgent' BY <1>1 DEF CountedOncePerAgent, Landed
<1>8. /\ \A d \in Calls : seen'[d] = seen[d] \/ seen'[d] = row
      /\ given \in Nat /\ given <= given
  BY <1>1 DEF UsageTypeOK
<1>9. CopiesBounded' /\ Landed' = Landed
  BY <1>1, <1>8, CountsKept DEF CountInv, CopiesBounded
<1>10. StagedOnCurrent'
  BY <1>1 DEF CountInv, StagedOnCurrent, UsageTypeOK
<1>11. NoLostBump' /\ StartStored' BY <1>1, <1>9 DEF CountInv, StartStored, NoLostBump
<1>12. QED
  BY <1>1, <1>2, <1>3, <1>4, <1>5, <1>6, <1>7, <1>9, <1>10, <1>11
     DEF UsageInv, ControlInv, CountInv

(* Taking the lock, or finding it held, preserves the invariant.           *)
LEMMA TakeLockInv ==
  ASSUME UsageInv, NEW c \in Calls, TakeLock(c)
  PROVE  UsageInv'
<1> USE UsageConstants DEF TakeLock, Answer, givenVars
<1>1. UsageTypeOK /\ Serialised /\ AttemptsLeft /\ FreshUntilCommit /\ Claimed
      /\ IsFiniteSet(ledger) /\ CountedOncePerAgent /\ CountInv
  BY DEF UsageInv, ControlInv
<1>2. UsageTypeOK' BY <1>1 DEF UsageTypeOK, UsagePCs, PCs, Answers
<1>3. Serialised' BY <1>1 DEF Serialised, UsageTypeOK, Active, BumpPCs
<1>4. AttemptsLeft' BY <1>1 DEF AttemptsLeft, UsageTypeOK
<1>5. FreshUntilCommit' BY <1>1 DEF FreshUntilCommit, UsageTypeOK
<1>6. Claimed' BY <1>1 DEF Claimed, UsageTypeOK, BumpPCs
<1>7. CountedOncePerAgent' BY <1>1 DEF CountedOncePerAgent, Landed
<1>8. given \in Nat /\ given <= given BY <1>1 DEF UsageTypeOK
<1>9. CopiesBounded' /\ Landed' = Landed
  BY <1>1, <1>8, CountsKept DEF CountInv, CopiesBounded
<1>10. StagedOnCurrent' BY <1>1 DEF CountInv, StagedOnCurrent, UsageTypeOK
<1>11. NoLostBump' /\ StartStored' BY <1>1, <1>9 DEF CountInv, StartStored, NoLostBump
<1>12. QED
  BY <1>1, <1>2, <1>3, <1>4, <1>5, <1>6, <1>7, <1>9, <1>10, <1>11
     DEF UsageInv, ControlInv, CountInv

(* Ending a call answers with a typed answer and frees the lock.           *)
LEMMA AnswerMoves ==
  ASSUME UsageInv, NEW c \in Calls, pc[c] \in Active,
         NEW a \in Answers \cup {"busy", "counted", "lost"}, Answer(c, a), Settled(c),
         UNCHANGED <<row, composed, raw, landed, ledger, puts, start, given>>,
         basis' \in [Calls -> Rows],
         attempt' \in [Calls -> 0 .. Attempts],
         \A d \in Calls \ {c} : attempt'[d] = attempt[d],
         seen' = seen \/ seen' = [seen EXCEPT ![c] = row]
  PROVE  UsageInv'
<1>1. UsageTypeOK BY DEF UsageInv, ControlInv
<1>2. pc' = [pc EXCEPT ![c] = "answered"] BY DEF Answer
<1>3. holder' = NoCall BY <1>1, <1>2 DEF Settled, UsageTypeOK
<1>4. answer' \in [Calls -> Answers \cup {"busy", "counted", "lost"}]
  BY <1>1 DEF Answer, UsageTypeOK
<1>5. ASSUME NEW p \in Active \cup {"answered"}, p = "answered" PROVE UsageInv'
  <2>1. /\ p \notin BumpPCs
        /\ p \notin {"locked", "claiming", "selected", "staged", "confirmed"}
    BY <1>5 DEF BumpPCs
  <2>2. pc' = [pc EXCEPT ![c] = p] /\ holder' = IF p = "answered" THEN NoCall ELSE holder
    BY <1>2, <1>3, <1>5
  <2>3. QED BY <1>4, <2>1, <2>2, CallMoves
<1>6. QED BY <1>5

(* The ledger check, and its failure, preserve the invariant.              *)
LEMMA CheckLedgerInv ==
  ASSUME UsageInv, NEW c \in Calls, CheckLedger(c) \/ LedgerReadFails(c) \/ ClaimFails(c)
  PROVE  UsageInv'
<1>1. UsageTypeOK /\ AttemptsLeft /\ FreshUntilCommit BY DEF UsageInv, ControlInv
<1>2. pc[c] \in Active BY DEF CheckLedger, LedgerReadFails, ClaimFails, Active
<1>3. basis' \in [Calls -> Rows] /\ attempt' \in [Calls -> 0 .. Attempts]
      /\ UNCHANGED <<row, composed, raw, landed, ledger, puts, start, given, attempt, seen>>
  BY <1>1 DEF CheckLedger, LedgerReadFails, ClaimFails, UsageTypeOK, givenVars
<1>4. CASE \E a \in {"counted", "skipped", "error"} : Answer(c, a) /\ Settled(c)
  BY <1>2, <1>3, <1>4, AnswerMoves DEF Answers
<1>5. CASE /\ CheckLedger(c) /\ Agent[c] \notin ledger
           /\ pc' = [pc EXCEPT ![c] = "claiming"] /\ UNCHANGED answer
  <2>1. holder' = holder BY <1>1, <1>5 DEF CheckLedger, Settled, UsageTypeOK
  <2>2. attempt'[c] = 0 /\ landed[c] = 0
    BY <1>1, <1>3, <1>5 DEF CheckLedger, AttemptsLeft, FreshUntilCommit
  <2>3. answer' \in [Calls -> Answers \cup {"busy", "counted", "lost"}]
    BY <1>1, <1>5 DEF UsageTypeOK
  <2>4. QED BY <1>2, <1>3, <1>5, <2>1, <2>2, <2>3, CallMoves DEF Active, BumpPCs
<1>6. QED
  BY <1>4, <1>5 DEF CheckLedger, LedgerReadFails, ClaimFails

(* Committing the ledger row preserves the invariant: the agent had none,  *)
(* so no stored bump is of this agent.                                     *)
LEMMA CommitClaimInv ==
  ASSUME UsageInv, NEW c \in Calls, CommitClaim(c)
  PROVE  UsageInv'
<1> USE UsageConstants DEF CommitClaim, givenVars
<1>1. UsageTypeOK /\ Serialised /\ AttemptsLeft /\ FreshUntilCommit /\ Claimed
      /\ IsFiniteSet(ledger) /\ CountedOncePerAgent /\ CountInv
  BY DEF UsageInv, ControlInv
<1>2. UsageTypeOK' BY <1>1 DEF UsageTypeOK, UsagePCs, PCs
<1>3. Serialised' BY <1>1 DEF Serialised, UsageTypeOK, Active, BumpPCs
<1>4. AttemptsLeft' BY <1>1 DEF AttemptsLeft, UsageTypeOK
<1>5. FreshUntilCommit' BY <1>1 DEF FreshUntilCommit, UsageTypeOK
<1>6. Agent[c] \notin ledger BY <1>1 DEF Claimed
<1>7. \A d \in Calls \ {c} : pc[d] \notin Active
  BY <1>1 DEF Serialised, Active, UsageTypeOK
<1>8. Claimed' BY <1>1, <1>6, <1>7 DEF Claimed, UsageTypeOK, Active, BumpPCs
<1>9. IsFiniteSet(ledger') BY <1>1, FS_AddElement
<1>10. CountedOncePerAgent' BY <1>1 DEF CountedOncePerAgent, Landed
<1>11. given \in Nat /\ given <= given BY <1>1 DEF UsageTypeOK
<1>12. CopiesBounded' /\ Landed' = Landed
  BY <1>1, <1>11, CountsKept DEF CountInv, CopiesBounded
<1>13. StagedOnCurrent' BY <1>1 DEF CountInv, StagedOnCurrent, UsageTypeOK
<1>14. NoLostBump' /\ StartStored' BY <1>1, <1>12 DEF CountInv, StartStored, NoLostBump
<1>15. QED
  BY <1>2, <1>3, <1>4, <1>5, <1>8, <1>9, <1>10, <1>12, <1>13, <1>14
     DEF UsageInv, ControlInv, CountInv

(* Another attempt or the named failure.                                   *)
LEMMA RetryInv ==
  ASSUME UsageInv, NEW c \in Calls, pc[c] \in {"staged", "confirmed"},
         NEW a \in Answers, RetryOr(c, a), Settled(c),
         UNCHANGED <<row, composed, raw, landed, ledger, puts, start, given, attempt, basis, seen>>
  PROVE  UsageInv'
<1>1. UsageTypeOK /\ FreshUntilCommit BY DEF UsageInv, ControlInv
<1>2. pc[c] \in Active /\ pc[c] \in BumpPCs BY DEF Active, BumpPCs
<1>3. CASE attempt[c] < Attempts
  <2>1. pc' = [pc EXCEPT ![c] = "selected"] /\ UNCHANGED answer BY <1>3 DEF RetryOr
  <2>2. holder' = holder BY <1>1, <2>1 DEF Settled, UsageTypeOK
  <2>3. landed[c] = 0 BY <1>1 DEF FreshUntilCommit
  <2>4. /\ answer' \in [Calls -> Answers \cup {"busy", "counted", "lost"}]
        /\ basis' \in [Calls -> Rows] /\ attempt' \in [Calls -> 0 .. Attempts]
    BY <1>1, <2>1 DEF UsageTypeOK
  <2>5. QED BY <1>2, <1>3, <2>1, <2>2, <2>3, <2>4, CallMoves DEF Active, BumpPCs
<1>4. CASE ~(attempt[c] < Attempts)
  <2>1. Answer(c, a) BY <1>4 DEF RetryOr
  <2>2. basis' \in [Calls -> Rows] /\ attempt' \in [Calls -> 0 .. Attempts]
    BY <1>1 DEF UsageTypeOK
  <2>3. QED BY <1>2, <2>1, <2>2, AnswerMoves
<1>5. QED BY <1>3, <1>4

(* An attempt preserves the invariant: it skips, refuses, or stages.       *)
LEMMA StageAttemptInv ==
  ASSUME UsageInv, NEW c \in Calls, StageAttempt(c), Settled(c), UNCHANGED <<ledger, puts, start, given>>
  PROVE  UsageInv'
<1>1. UsageTypeOK /\ FreshUntilCommit /\ AttemptsLeft BY DEF UsageInv, ControlInv
<1>2. pc[c] \in Active /\ pc[c] \in BumpPCs BY DEF StageAttempt, Active, BumpPCs
<1>3. attempt' \in [Calls -> 0 .. Attempts]
  BY <1>1, UsageConstants DEF StageAttempt, UsageTypeOK, AttemptsLeft
<1>4. /\ \A d \in Calls \ {c} : attempt'[d] = attempt[d]
      /\ seen' = [seen EXCEPT ![c] = row]
      /\ basis' \in [Calls -> Rows]
      /\ UNCHANGED <<row, composed, raw, landed, ledger, puts, start, given>>
  BY <1>1 DEF StageAttempt, UsageTypeOK
<1>5. CASE \E a \in {"skipped", "conflict"} : Answer(c, a)
  BY <1>2, <1>3, <1>4, <1>5, AnswerMoves DEF Answers
<1>6. CASE pc' = [pc EXCEPT ![c] = "staged"] /\ UNCHANGED answer
  <2>1. holder' = holder BY <1>1, <1>6 DEF Settled, UsageTypeOK
  <2>2. landed[c] = 0 BY <1>1 DEF StageAttempt, FreshUntilCommit
  <2>3. answer' \in [Calls -> Answers \cup {"busy", "counted", "lost"}]
    BY <1>1, <1>6 DEF UsageTypeOK
  <2>4. seen'[c] = row BY <1>1, <1>4 DEF UsageTypeOK
  <2>5. QED
    BY <1>2, <1>3, <1>4, <1>6, <2>1, <2>2, <2>3, <2>4, CallMoves DEF Active, BumpPCs
<1>7. QED BY <1>5, <1>6 DEF StageAttempt

(* The confirmation preserves the invariant.                               *)
LEMMA ConfirmInv ==
  ASSUME UsageInv, NEW c \in Calls, ConfirmCommittedRow(c), Settled(c), UNCHANGED <<ledger, puts, start, given>>
  PROVE  UsageInv'
<1>1. UsageTypeOK /\ FreshUntilCommit BY DEF UsageInv, ControlInv
<1>2. pc[c] \in Active /\ pc[c] \in BumpPCs BY DEF ConfirmCommittedRow, Active, BumpPCs
<1>3. /\ basis' \in [Calls -> Rows] /\ attempt' \in [Calls -> 0 .. Attempts]
      /\ UNCHANGED <<row, composed, raw, landed, ledger, puts, start, given, attempt, basis, seen>>
  BY <1>1 DEF ConfirmCommittedRow, UsageTypeOK
<1>4. CASE RetryOr(c, "conflict")
  BY <1>3, <1>4, RetryInv DEF ConfirmCommittedRow, Answers
<1>5. CASE row = seen[c] /\ pc' = [pc EXCEPT ![c] = "confirmed"] /\ UNCHANGED answer
  <2>1. holder' = holder BY <1>1, <1>5 DEF Settled, UsageTypeOK
  <2>2. landed[c] = 0 BY <1>1 DEF ConfirmCommittedRow, FreshUntilCommit
  <2>3. answer' \in [Calls -> Answers \cup {"busy", "counted", "lost"}]
    BY <1>1, <1>5 DEF UsageTypeOK
  <2>4. QED
    BY <1>2, <1>3, <1>5, <2>1, <2>2, <2>3, CallMoves DEF Active, BumpPCs
<1>6. QED BY <1>4, <1>5 DEF ConfirmCommittedRow

(* The commit preserves the invariant: a bump that lands is its call's     *)
(* first and its agent's only one, one above what the call had read.       *)
LEMMA CommitInv ==
  ASSUME UsageInv, NEW c \in Calls, Commit(c), Settled(c), UNCHANGED <<ledger, puts, start, given>>
  PROVE  UsageInv'
<1> USE UsageConstants
<1>1. UsageTypeOK /\ Serialised /\ AttemptsLeft /\ FreshUntilCommit /\ Claimed
      /\ IsFiniteSet(ledger) /\ CountedOncePerAgent /\ CountInv
  BY DEF UsageInv, ControlInv
<1>2. /\ pc[c] = "confirmed" /\ pc' = [pc EXCEPT ![c] = "committed"]
      /\ UNCHANGED <<composed, raw, attempt, basis, seen, answer, ledger, puts, start, given>>
  BY DEF Commit
<1>3. holder' = holder BY <1>1, <1>2 DEF Settled, UsageTypeOK
<1>4. landed[c] = 0 BY <1>1, <1>2 DEF FreshUntilCommit
<1>5. CASE UNCHANGED <<row, landed>>
  BY <1>1, <1>2, <1>3, <1>5, CallMoves DEF UsageTypeOK, Active, BumpPCs
<1>6. CASE row' = Planned(c, row) /\ landed' = [landed EXCEPT ![c] = @ + 1]
  <2>1. row' \in Rows /\ row'.n = seen[c].n + 1
    BY <1>1, <1>6, PlannedRow DEF UsageTypeOK
  <2>2. landed' \in [Calls -> Nat] /\ landed'[c] = 1
        /\ \A d \in Calls \ {c} : landed'[d] = landed[d]
    BY <1>1, <1>4, <1>6 DEF UsageTypeOK
  <2>3. /\ Cardinality(Landed') = Cardinality(Landed) + 1
        /\ Cardinality(Landed' \ start.bumps) = Cardinality(Landed \ start.bumps) + 1
        /\ Cardinality(Landed \ start.bumps) \in Nat /\ StartStored'
    <3>1. landed \in [Calls -> Nat] /\ start.bumps \in SUBSET Landed /\ {} \in SUBSET Landed
      BY <1>1 DEF UsageTypeOK, CountInv, StartStored
    <3>2. /\ Cardinality(Landed' \ start.bumps) = Cardinality(Landed \ start.bumps) + 1
          /\ Cardinality(Landed \ start.bumps) \in Nat /\ start.bumps \subseteq Landed'
      BY <1>4, <1>6, <3>1, LandedGrows
    <3>3. Cardinality(Landed' \ {}) = Cardinality(Landed \ {}) + 1
      BY <1>4, <1>6, <3>1, LandedGrows
    <3>4. Landed' \ {} = Landed' /\ Landed \ {} = Landed OBVIOUS
    <3>5. QED BY <1>2, <3>2, <3>3, <3>4 DEF StartStored
  <2>4. UsageTypeOK'
    BY <1>1, <1>2, <1>3, <2>1, <2>2 DEF UsageTypeOK, UsagePCs, PCs
  <2>5. Serialised' BY <1>1, <1>2, <1>3 DEF Serialised, UsageTypeOK, Active, BumpPCs
  <2>6. AttemptsLeft' BY <1>1, <1>2 DEF AttemptsLeft, UsageTypeOK
  <2>7. FreshUntilCommit' BY <1>1, <1>2, <2>2 DEF FreshUntilCommit, UsageTypeOK
  <2>8. \A d \in Calls \ {c} : pc[d] \notin BumpPCs
    BY <1>1, <1>2 DEF Serialised, Active, BumpPCs
  <2>9. \A d \in Calls \ {c} : landed[d] > 0 => Agent[c] # Agent[d]
    BY <1>1, <1>2 DEF Claimed, BumpPCs
  <2>10. Claimed'
    BY <1>1, <1>2, <2>2, <2>8, <2>9 DEF Claimed, UsageTypeOK, BumpPCs
  <2>11. CountedOncePerAgent'
    BY <1>1, <2>2, <2>9 DEF CountedOncePerAgent, Landed, UsageTypeOK
  <2>12. /\ row.n \in Nat /\ composed.n \in Nat /\ Cardinality(Landed) \in Nat
         /\ given \in Nat /\ start.n \in Nat
         /\ \A d \in Calls : seen[d].n \in Nat
    BY <1>1, RowTypes, LandedFinite DEF UsageTypeOK
  <2>13. CopiesBounded'
    BY <1>1, <1>2, <2>1, <2>3, <2>12 DEF CountInv, CopiesBounded
  <2>14. StagedOnCurrent'
    BY <1>1, <1>2, <2>8 DEF StagedOnCurrent, UsageTypeOK, BumpPCs
  <2>15. NoLostBump'
    BY <1>1, <1>2, <2>1, <2>3, <2>12 DEF CountInv, StagedOnCurrent, NoLostBump
  <2>16. QED
    BY <1>1, <1>2, <2>3, <2>4, <2>5, <2>6, <2>7, <2>10, <2>11, <2>13, <2>14, <2>15
       DEF UsageInv, ControlInv, CountInv
<1>7. QED BY <1>5, <1>6 DEF Commit

(* Every step of the write-back preserves the invariant.                   *)
LEMMA BumpInv ==
  ASSUME UsageInv, NEW c \in Calls, Bump(c)
  PROVE  UsageInv'
<1>1. UsageTypeOK BY DEF UsageInv, ControlInv
<1>2. Settled(c) /\ UNCHANGED <<ledger, puts, start, given>> BY DEF Bump, givenVars
<1>3. CASE CommitThrows(c) \/ Verify(c) \/ VerifyThrows(c)
  <2>1. pc[c] \in Active
    BY <1>3 DEF CommitThrows, Verify, VerifyThrows, Active, BumpPCs
  <2>2. \E a \in Answers : Answer(c, a)
    BY <1>3, UsageConstants DEF CommitThrows, Verify, VerifyThrows, Answers
  <2>3. /\ UNCHANGED <<row, composed, raw, attempt, basis, seen, landed>>
        /\ basis' \in [Calls -> Rows] /\ attempt' \in [Calls -> 0 .. Attempts]
    BY <1>1, <1>3 DEF CommitThrows, Verify, VerifyThrows, UsageTypeOK
  <2>4. QED BY <1>2, <2>1, <2>2, <2>3, AnswerMoves
<1>4. QED
  BY <1>2, <1>3, StageAttemptInv, ConfirmInv, CommitInv DEF Bump, CallStep

(* A write of the row by another writer preserves the invariant, if what   *)
(* it gives is accounted for, and it is counted in raw or comes when no    *)
(* contribution is active.                                                 *)
LEMMA OutsideWrite ==
  ASSUME UsageInv,
         UNCHANGED <<pc, attempt, basis, seen, landed, answer, ledger, holder>>,
         row' \in Rows, composed' \in Rows, puts' \in 0 .. MaxPuts,
         given' \in Nat, given <= given',
         row'.n <= given' + Cardinality(Landed),
         composed'.n <= given' + Cardinality(Landed),
         \/ raw' = raw /\ (row' = row \/ holder = NoCall)
         \/ raw' = raw + 1,
         \/ start' = start /\ (raw' = raw => row'.n = row.n)
         \/ start' = [n |-> row'.n, bumps |-> Landed]
  PROVE  UsageInv'
<1> USE UsageConstants
<1>1. UsageTypeOK /\ Serialised /\ AttemptsLeft /\ FreshUntilCommit /\ Claimed
      /\ IsFiniteSet(ledger) /\ CountedOncePerAgent /\ CountInv
  BY DEF UsageInv, ControlInv
<1>2. row'.n \in Nat BY RowTypes
<1>3. Landed \subseteq Calls BY DEF Landed
<1>4. UsageTypeOK' BY <1>1, <1>2, <1>3 DEF UsageTypeOK
<1>5. Serialised' /\ AttemptsLeft' /\ FreshUntilCommit' /\ Claimed' /\ IsFiniteSet(ledger')
  BY <1>1 DEF Serialised, AttemptsLeft, FreshUntilCommit, Claimed
<1>6. CountedOncePerAgent' BY <1>1 DEF CountedOncePerAgent, Landed
<1>7. CopiesBounded' /\ Landed' = Landed BY CountsKept
<1>8. StagedOnCurrent'
  BY <1>1 DEF CountInv, StagedOnCurrent, Serialised, Active, BumpPCs, UsageTypeOK
<1>9. StartStored' BY <1>1, <1>7 DEF CountInv, StartStored
<1>10. NoLostBump'
  <2>1. CASE start' = [n |-> row'.n, bumps |-> Landed]
    <3>1. Landed' \ start'.bumps = {} /\ start'.n = row'.n BY <1>7, <2>1
    <3>2. Cardinality({}) = 0 BY FS_EmptySet
    <3>3. Cardinality(Landed' \ start'.bumps) = 0 BY <3>1, <3>2, Zenon
    <3>4. row'.n = start'.n + Cardinality(Landed' \ start'.bumps) BY <1>2, <3>1, <3>3
    <3>5. QED BY <3>4, Zenon DEF NoLostBump
  <2>2. CASE start' = start /\ (raw' = raw => row'.n = row.n)
    BY <1>1, <1>7, <2>2 DEF CountInv, NoLostBump, UsageTypeOK
  <2>3. QED BY <2>1, <2>2
<1>11. QED
  BY <1>4, <1>5, <1>6, <1>7, <1>8, <1>9, <1>10 DEF UsageInv, ControlInv, CountInv

(* The larger of two numbers is one of them and below neither.             *)
LEMMA LargerIs ==
  \A m, n \in Nat : Larger(m, n) \in Nat /\ m <= Larger(m, n) /\ n <= Larger(m, n)
BY DEF Larger

(* What the row and its copies show, and the numbers they are bounded by.  *)
LEMMA Shown ==
  ASSUME UsageInv
  PROVE  /\ row \in Rows /\ composed \in Rows /\ row.n \in Nat /\ composed.n \in Nat
         /\ row.ver + 1 \in Nat /\ row.ver + 2 \in Nat /\ 0 \in Nat
         /\ raw \in Nat /\ given \in Nat /\ given <= given /\ Cardinality(Landed) \in Nat
         /\ puts \in 0 .. MaxPuts /\ composed.by \in Calls \cup {NoCall}
         /\ row.n <= given + Cardinality(Landed)
         /\ composed.n <= given + Cardinality(Landed)
<1>1. /\ row \in Rows /\ composed \in Rows /\ raw \in Nat /\ given \in Nat
      /\ puts \in 0 .. MaxPuts /\ CopiesBounded
  BY DEF UsageInv, ControlInv, CountInv, UsageTypeOK
<1>2. /\ row.ver \in Nat /\ row.n \in Nat /\ composed.n \in Nat
      /\ composed.by \in Calls \cup {NoCall}
  BY <1>1 DEF Rows
<1>3. QED BY <1>1, <1>2, LandedFinite DEF CopiesBounded

(* A composed PUT preserves the invariant, whatever count its body has.    *)
LEMMA ComposesInv ==
  ASSUME UsageInv, NEW n \in Nat, Composes(n),
         UNCHANGED <<ledger, holder, puts, start>>,
         given' \in Nat, given <= given', n <= given' + Cardinality(Landed)
  PROVE  UsageInv'
<1>1. PICK fit \in BOOLEAN, by \in {NoCall, composed.by} : ComposedCommit(fit, n, by)
  BY DEF Composes
<1>2. /\ composed \in Rows /\ row.ver + 1 \in Nat
      /\ by \in Calls \cup {NoCall} /\ puts' \in 0 .. MaxPuts
  BY Shown
<1>3. ASSUME NEW v \in Nat
      PROVE  /\ [composed EXCEPT !.fit = fit, !.n = n, !.by = by, !.ver = v] \in Rows
             /\ [composed EXCEPT !.fit = fit, !.n = n, !.by = by, !.ver = v].n = n
  BY <1>2 DEF Rows
<1>4. row' = [composed EXCEPT !.fit = fit, !.n = n, !.by = by, !.ver = row.ver + 1]
  BY <1>1 DEF ComposedCommit
<1>5. row' \in Rows /\ row'.n = n BY <1>2, <1>3, <1>4, ZenonT(60)
<1>6. /\ UNCHANGED <<composed, pc, attempt, basis, seen, landed, answer>> /\ raw' = raw + 1
      /\ raw' # raw
  BY <1>1, Shown DEF ComposedCommit, callVars
<1>7. composed.n <= given' + Cardinality(Landed) BY Shown
<1>8. QED BY <1>2, <1>5, <1>6, <1>7, OutsideWrite

(* The writers that take no lock preserve the invariant.                   *)
LEMMA OtherWriterInv ==
  ASSUME UsageInv, OtherWriter
  PROVE  UsageInv'
<1>1. ASSUME ComposedRead, UNCHANGED <<ledger, holder, givenVars>> PROVE UsageInv'
  <2>1. /\ UNCHANGED <<row, raw, pc, attempt, basis, seen, landed, answer>> /\ composed' = row
        /\ UNCHANGED <<ledger, holder, puts, start, given>>
    BY <1>1 DEF ComposedRead, callVars, givenVars
  <2>2. QED BY <2>1, Shown, OutsideWrite
<1>2. ASSUME Delete \/ Replace, UNCHANGED <<ledger, holder, givenVars>> PROVE UsageInv'
  <2>1. /\ UNCHANGED <<composed, pc, attempt, basis, seen, landed, answer>> /\ raw' = raw + 1
        /\ UNCHANGED <<ledger, holder, puts, start, given>>
    BY <1>2 DEF Delete, Replace, callVars, givenVars
  <2>2. Blank(0, row.ver + 1) \in Rows /\ Blank(0, row.ver + 1).n = 0
    BY Shown, BlankRow, ZenonT(60)
  <2>3. Blank(row.ver + 2, row.ver + 1) \in Rows /\ Blank(row.ver + 2, row.ver + 1).n = 0
    BY Shown, BlankRow, ZenonT(60)
  <2>4. row' \in Rows /\ row'.n = 0 BY <1>2, <2>2, <2>3 DEF Delete, Replace
  <2>5. row'.n <= given + Cardinality(Landed) /\ raw' # raw BY <2>1, <2>4, Shown
  <2>6. QED BY <2>1, <2>4, <2>5, Shown, OutsideWrite
<1>3. ASSUME Composes(composed.n), UNCHANGED <<ledger, holder, givenVars>> PROVE UsageInv'
  <2>1. UNCHANGED <<ledger, holder, puts, start, given>> BY <1>3 DEF givenVars
  <2>2. QED BY <1>3, <2>1, Shown, ComposesInv
<1>4. ASSUME NEW n \in Counts, Composes(n), given' = Larger(given, n),
             UNCHANGED <<ledger, holder, puts, start>>
      PROVE  UsageInv'
  <2>1. n \in Nat BY UsageConstants
  <2>2. given' \in Nat /\ given <= given' /\ n <= given' BY <1>4, <2>1, Shown, LargerIs
  <2>3. n <= given' + Cardinality(Landed) BY <2>1, <2>2, Shown
  <2>4. QED BY <1>4, <2>1, <2>2, <2>3, ComposesInv
<1>5. QED BY <1>1, <1>2, <1>3, <1>4 DEF OtherWriter

(* The owner's writes under the lock preserve the invariant: no            *)
(* contribution is active.                                                 *)
LEMMA OwnerWriteInv ==
  ASSUME UsageInv, NEW fit \in BOOLEAN,
         OwnerPatch(fit) \/ \E n \in Counts : OwnerPut(fit, n)
  PROVE  UsageInv'
<1>1. ASSUME OwnerPatch(fit) PROVE UsageInv'
  <2>1. ASSUME NEW v \in Nat
        PROVE  /\ [row EXCEPT !.fit = fit, !.ver = v] \in Rows
               /\ [row EXCEPT !.fit = fit, !.ver = v].n = row.n
    BY Shown DEF Rows
  <2>2. row' \in Rows /\ row'.n = row.n BY <1>1, <2>1, Shown, ZenonT(60) DEF OwnerPatch
  <2>3. /\ UNCHANGED <<composed, raw, pc, attempt, basis, seen, landed, answer>>
        /\ UNCHANGED <<ledger, holder, start, given>> /\ holder = NoCall
        /\ puts' \in 0 .. MaxPuts
    BY <1>1, UsageConstants, Shown DEF OwnerPatch, Put, callVars
  <2>4. QED BY <2>2, <2>3, Shown, OutsideWrite
<1>2. ASSUME NEW n \in Counts, OwnerPut(fit, n) PROVE UsageInv'
  <2>1. n \in Nat /\ NoCall \in Calls \cup {NoCall} BY UsageConstants
  <2>2. ASSUME NEW v \in Nat
        PROVE  /\ [row EXCEPT !.fit = fit, !.n = n, !.by = NoCall, !.ver = v] \in Rows
               /\ [row EXCEPT !.fit = fit, !.n = n, !.by = NoCall, !.ver = v].n = n
    BY <2>1, Shown DEF Rows
  <2>3. row' = [row EXCEPT !.fit = fit, !.n = n, !.by = NoCall, !.ver = row.ver + 1]
    BY <1>2 DEF OwnerPut
  <2>4. row' \in Rows /\ row'.n = n BY <2>2, <2>3, Shown, ZenonT(60)
  <2>5. /\ UNCHANGED <<composed, raw, pc, attempt, basis, seen, landed, answer>>
        /\ UNCHANGED <<ledger, holder>> /\ holder = NoCall
        /\ start' = [n |-> n, bumps |-> Landed] /\ Put
    BY <1>2, Zenon DEF OwnerPut, callVars
  <2>6. given' \in Nat /\ given <= given' /\ n <= given'
    BY <1>2, <2>1, Shown, LargerIs DEF OwnerPut
  <2>7. /\ row'.n <= given' + Cardinality(Landed)
        /\ composed'.n <= given' + Cardinality(Landed) /\ composed' \in Rows
        /\ puts' \in 0 .. MaxPuts
    BY <2>1, <2>4, <2>5, <2>6, UsageConstants, Shown DEF Put
  <2>8. start' = [n |-> row'.n, bumps |-> Landed] BY <2>4, <2>5, Zenon
  <2>9. QED BY <2>4, <2>5, <2>6, <2>7, <2>8, OutsideWrite
<1>3. QED BY <1>1, <1>2

(* A crash preserves the invariant: no call is active after it, and what   *)
(* was stored stays.                                                       *)
LEMMA CrashInv == UsageInv /\ Crash => UsageInv'
<1> SUFFICES ASSUME UsageInv, Crash PROVE UsageInv' OBVIOUS
<1> USE UsageConstants DEF Crash, givenVars
<1>1. UsageTypeOK /\ Serialised /\ AttemptsLeft /\ FreshUntilCommit /\ Claimed
      /\ IsFiniteSet(ledger) /\ CountedOncePerAgent /\ CountInv
  BY DEF UsageInv, ControlInv
<1>2. \A c \in Calls : pc'[c] \in {"idle", "answered"} /\ (pc'[c] = "idle" => pc[c] = "idle")
  OBVIOUS
<1>3. UsageTypeOK' BY <1>1 DEF UsageTypeOK, UsagePCs, PCs, Answers
<1>4. Serialised' BY <1>2 DEF Serialised, Active, BumpPCs
<1>5. AttemptsLeft' /\ FreshUntilCommit' /\ Claimed' /\ IsFiniteSet(ledger')
  BY <1>1, <1>2 DEF AttemptsLeft, FreshUntilCommit, Claimed, BumpPCs
<1>6. CountedOncePerAgent' BY <1>1 DEF CountedOncePerAgent, Landed
<1>7. given \in Nat /\ given <= given BY <1>1 DEF UsageTypeOK
<1>8. CopiesBounded' /\ Landed' = Landed
  BY <1>1, <1>7, CountsKept DEF CountInv, CopiesBounded
<1>9. StagedOnCurrent' BY <1>2 DEF StagedOnCurrent
<1>10. NoLostBump' /\ StartStored' BY <1>1, <1>8 DEF CountInv, StartStored, NoLostBump
<1>11. QED
  BY <1>3, <1>4, <1>5, <1>6, <1>8, <1>9, <1>10 DEF UsageInv, ControlInv, CountInv

(* A stuttering step preserves the invariant.                              *)
LEMMA UsageStutterInv == UsageInv /\ UNCHANGED usageVars => UsageInv'
BY DEF UsageInv, ControlInv, CountInv, UsageTypeOK, Serialised, AttemptsLeft,
       FreshUntilCommit, Claimed, CountedOncePerAgent, Landed, CopiesBounded,
       StartStored, StagedOnCurrent, NoLostBump, usageVars, vars, callVars, givenVars

-----------------------------------------------------------------------------
(* UsageInv is an invariant of usage recording.                            *)
THEOREM UsageInvariant == UsageSpec => []UsageInv
<1>1. UsageInv /\ [UsageNext]_usageVars => UsageInv'
  <2> SUFFICES ASSUME UsageInv, [UsageNext]_usageVars PROVE UsageInv' OBVIOUS
  <2>1. ASSUME NEW c \in Calls, TakeLock(c) \/ Contribution(c) PROVE UsageInv'
    BY <2>1, TakeLockInv, CheckLedgerInv, CommitClaimInv, BumpInv DEF Contribution
  <2>2. QED
    BY <2>1, OtherWriterInv, OwnerWriteInv, CrashInv, UsageStutterInv DEF UsageNext
<1>2. QED BY <1>1, UsageInitInv, PTL DEF UsageSpec

(* Type correctness of usage recording.                                    *)
THEOREM UsageTypeCorrect == UsageSpec => []UsageTypeOK
<1>1. UsageInv => UsageTypeOK BY DEF UsageInv, ControlInv
<1>2. QED BY <1>1, UsageInvariant, PTL

(* recordUsageContribution counts an agent's use of a memory at most once, *)
(* whatever is reported again and wherever the process crashes.            *)
THEOREM AgentsAreCountedOnce == UsageSpec => []CountedOncePerAgent
<1>1. UsageInv => CountedOncePerAgent BY DEF UsageInv, ControlInv
<1>2. QED BY <1>1, UsageInvariant, PTL

(* Recording keeps usageCount within the ledger: it exceeds the number of  *)
(* ledger rows by no more than the largest count that a PUT, a merge or a  *)
(* raw write has stored of its own, whatever older rows are written back.  *)
THEOREM CountIsWithinLedger == UsageSpec => []CountWithinLedger
<1>1. UsageInv => CountWithinLedger
  <2> SUFFICES ASSUME UsageInv PROVE CountWithinLedger OBVIOUS
  <2>1. /\ UsageTypeOK /\ Claimed /\ CountedOncePerAgent /\ IsFiniteSet(ledger)
        /\ CopiesBounded
    BY DEF UsageInv, ControlInv, CountInv
  <2> DEFINE agentOf == [c \in Landed |-> Agent[c]]
  <2>2. agentOf \in [Landed -> ledger] BY <2>1 DEF Claimed, Landed
  <2>3. \A c, d \in Landed : agentOf[c] = agentOf[d] => c = d
    BY <2>1 DEF CountedOncePerAgent
  <2>4. agentOf \in Injection(Landed, ledger)
    BY <2>2, <2>3 DEF Injection, IsInjective
  <2>5. Cardinality(Landed) <= Cardinality(ledger) BY <2>1, <2>4, FS_Injection
  <2>6. /\ Cardinality(Landed) \in Nat /\ Cardinality(ledger) \in Nat /\ row.n \in Nat
        /\ given \in Nat /\ row.n <= given + Cardinality(Landed)
    BY <2>1, LandedFinite, FS_CardinalityType, RowTypes DEF UsageTypeOK, CopiesBounded
  <2>7. QED BY <2>5, <2>6 DEF CountWithinLedger
<1>2. QED BY <1>1, UsageInvariant, PTL

(* While nothing bypasses the memory id's lock, usageCount is the count    *)
(* the last PUT or merge stored and the bumps stored since: contributions  *)
(* lose no bump, and a PUT or a merge none but those it overwrites.        *)
THEOREM BumpsAreNotLost == UsageSpec => []NoLostBump
<1>1. UsageInv => NoLostBump BY DEF UsageInv, CountInv
<1>2. QED BY <1>1, UsageInvariant, PTL
=============================================================================
