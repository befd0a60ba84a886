------------------------------ MODULE WriteBack ------------------------------
(***************************************************************************)
(* writeBackCommittedRow of resources/write-back.ts, on one stored row.    *)
(*                                                                         *)
(* A CALL reads the row in a transaction it owns, plans an update from     *)
(* that read, stages it, re-reads the committed row and commits; then it   *)
(* reads the row once more, because a commit that resolves is no proof     *)
(* that the write landed: Harper may drop it in favour of a newer write.   *)
(* An idempotent plan stamps the row; a plan that is not adds one to a     *)
(* count, and carries a fresh commit marker.                               *)
(*                                                                         *)
(* The other writers of the row take no lock the call takes: a composed    *)
(* PUT, which stores a whole row built on one it read earlier, a delete,   *)
(* and a same-id replacement.                                              *)
(***************************************************************************)
EXTENDS Integers, FiniteSets

CONSTANTS
  Calls,       \* invocations of writeBackCommittedRow
  Idempotent,  \* the calls whose plan is idempotent
  NoCall,      \* "no commit marker"
  Attempts,    \* WRITE_BACK_ATTEMPTS
  Counts,      \* the counts a request body may carry, 0 standing for none
  MaxRaw       \* bound on the other writers' commits

ASSUME WriteBackAssumption ==
  /\ Idempotent \subseteq Calls
  /\ NoCall \notin Calls
  /\ Attempts \in Nat \ {0}
  /\ Counts \subseteq Nat
  /\ MaxRaw \in Nat

VARIABLES
  row,       \* the committed row
  composed,  \* the row a composed PUT has read and will write back
  raw,       \* commits of the other writers
  pc,        \* where each call is
  attempt,   \* its attempt number
  basis,     \* the row it selected: its target's identity
  seen,      \* the row its transaction read
  landed,    \* history: how often a write of the call was stored
  answer     \* what the call answered

callVars == <<pc, attempt, basis, seen, landed, answer>>
vars == <<row, composed, raw, callVars>>

(* A row: `inst` its incarnation (0 when absent), `n` the count, `by` the  *)
(* commit marker, `stamp` the idempotent field, `fit` whether the plan     *)
(* applies to it (readable, still stale...), `ver` the commit that left it.*)
Rows == [inst : Nat, n : Nat, by : Calls \cup {NoCall}, stamp : BOOLEAN, fit : BOOLEAN, ver : Nat]
Blank(k, v) == [inst |-> k, n |-> 0, by |-> NoCall, stamp |-> FALSE, fit |-> TRUE, ver |-> v]

SameStoredRow(r, b) == r.inst = b.inst

(* The row the plan of c makes of row r, planned on the row c read.        *)
Planned(c, r) ==
  IF c \in Idempotent
    THEN [r EXCEPT !.stamp = TRUE, !.ver = @ + 1]
    ELSE [r EXCEPT !.n = seen[c].n + 1, !.by = c, !.ver = @ + 1]

(* committedShowsWrite: the target's identity and the staged values; for a *)
(* plan that is not idempotent, its own marker.                            *)
ShowsWrite(c) ==
  /\ row.inst # 0 /\ SameStoredRow(row, basis[c])
  /\ IF c \in Idempotent THEN row.stamp ELSE row.by = c /\ row.n = seen[c].n + 1

-----------------------------------------------------------------------------
Init ==
  /\ row = Blank(1, 0)
  /\ composed = row
  /\ raw = 0
  /\ pc = [c \in Calls |-> "idle"]
  /\ attempt = [c \in Calls |-> 0]
  /\ basis = [c \in Calls |-> row]
  /\ seen = [c \in Calls |-> row]
  /\ landed = [c \in Calls |-> 0]
  /\ answer = [c \in Calls |-> "none"]

Answer(c, a) ==
  /\ pc' = [pc EXCEPT ![c] = "answered"]
  /\ answer' = [answer EXCEPT ![c] = a]

(* Mutant of RetryOr: the bound is off by one.                             *)
RetryOrOneMore(c, a) ==
  IF attempt[c] <= Attempts
    THEN pc' = [pc EXCEPT ![c] = "selected"] /\ UNCHANGED answer
    ELSE Answer(c, a)

(* Another attempt while there is one, else the named failure a.           *)
RetryOr(c, a) ==
  IF attempt[c] < Attempts
    THEN pc' = [pc EXCEPT ![c] = "selected"] /\ UNCHANGED answer
    ELSE Answer(c, a)

(* The basis is the row the caller hands over or a first committed read.   *)
Select(c) ==
  /\ pc[c] = "idle"
  /\ pc' = [pc EXCEPT ![c] = "selected"]
  /\ basis' = [basis EXCEPT ![c] = row]
  /\ UNCHANGED <<row, composed, raw, attempt, seen, landed, answer>>

(* An attempt: the read in the owned transaction, the plan, which may      *)
(* skip, the identity check, which is final, and the staged write.         *)
StageAttempt(c) ==
  /\ pc[c] = "selected"
  /\ attempt' = [attempt EXCEPT ![c] = @ + 1]
  /\ seen' = [seen EXCEPT ![c] = row]
  /\ IF row.inst = 0 \/ ~row.fit THEN Answer(c, "skipped")
     ELSE IF ~SameStoredRow(row, basis[c]) THEN Answer(c, "conflict")
     ELSE pc' = [pc EXCEPT ![c] = "staged"] /\ UNCHANGED answer
  /\ UNCHANGED <<row, composed, raw, basis, landed>>

(* Mutant of ConfirmCommittedRow: wait for the row instead of aborting.    *)
ConfirmWaits(c) ==
  /\ pc[c] = "staged"
  /\ row = seen[c]
  /\ pc' = [pc EXCEPT ![c] = "confirmed"]
  /\ UNCHANGED <<row, composed, raw, attempt, basis, seen, landed, answer>>

(* confirmCommittedRow: the committed row is still the one read, or the    *)
(* transaction aborts.                                                     *)
ConfirmCommittedRow(c) ==
  /\ pc[c] = "staged"
  /\ IF row = seen[c] THEN pc' = [pc EXCEPT ![c] = "confirmed"] /\ UNCHANGED answer
                      ELSE RetryOr(c, "conflict")
  /\ UNCHANGED <<row, composed, raw, attempt, basis, seen, landed>>

(* The commit resolves.  The write lands, unless another commit came after *)
(* the confirmation: Harper then keeps either.                             *)
Commit(c) ==
  /\ pc[c] = "confirmed"
  /\ pc' = [pc EXCEPT ![c] = "committed"]
  /\ \/ /\ row.inst # 0
        /\ row' = Planned(c, row)
        /\ landed' = [landed EXCEPT ![c] = @ + 1]
     \/ /\ row # seen[c]
        /\ UNCHANGED <<row, landed>>
  /\ UNCHANGED <<composed, raw, attempt, basis, seen, answer>>

(* The commit itself throws: the error leaves the helper, nothing stored.  *)
CommitThrows(c) ==
  /\ pc[c] = "confirmed"
  /\ Answer(c, "error")
  /\ UNCHANGED <<row, composed, raw, attempt, basis, seen, landed>>

(* Mutant of Verify: every plan is tried again after a mismatch.           *)
VerifyRetriesAll(c) ==
  /\ pc[c] = "committed"
  /\ IF ShowsWrite(c) THEN Answer(c, "applied") ELSE RetryOr(c, "unconfirmed")
  /\ UNCHANGED <<row, composed, raw, attempt, basis, seen, landed>>

(* Mutant of Verify: a mismatch is named a conflict, "nothing written".    *)
VerifyAsConflict(c) ==
  /\ pc[c] = "committed"
  /\ IF ShowsWrite(c) THEN Answer(c, "applied")
     ELSE IF c \in Idempotent THEN RetryOr(c, "conflict")
     ELSE Answer(c, "conflict")
  /\ UNCHANGED <<row, composed, raw, attempt, basis, seen, landed>>

(* The post-commit read shows the write, or does not: only an idempotent   *)
(* plan may then be tried again.                                           *)
Verify(c) ==
  /\ pc[c] = "committed"
  /\ IF ShowsWrite(c) THEN Answer(c, "applied")
     ELSE IF c \in Idempotent THEN RetryOr(c, "unconfirmed")
     ELSE Answer(c, "unconfirmed")
  /\ UNCHANGED <<row, composed, raw, attempt, basis, seen, landed>>

(* The post-commit read fails.                                             *)
VerifyThrows(c) ==
  /\ pc[c] = "committed"
  /\ Answer(c, IF c \in Idempotent THEN "error" ELSE "unconfirmed")
  /\ UNCHANGED <<row, composed, raw, attempt, basis, seen, landed>>

CallStep(c) ==
  \/ StageAttempt(c) \/ ConfirmCommittedRow(c) \/ Commit(c) \/ CommitThrows(c)
  \/ Verify(c) \/ VerifyThrows(c)

(* The other writers.                                                      *)
ComposedRead ==
  /\ composed # row
  /\ composed' = row
  /\ UNCHANGED <<row, raw, callVars>>

(* The composed PUT stores its body as the whole row.  The body keeps the  *)
(* identity of the row it was read from; it may change whether the plan    *)
(* applies, and echoes the count that was read or carries another.  The    *)
(* marker is stripped from a request body and kept by a raw write of the   *)
(* row.                                                                    *)
ComposedCommit(fit, n, by) ==
  /\ raw < MaxRaw /\ composed.inst # 0
  /\ n \in Counts \cup {composed.n} /\ by \in {NoCall, composed.by}
  /\ raw' = raw + 1
  /\ row' = [composed EXCEPT !.fit = fit, !.n = n, !.by = by, !.ver = row.ver + 1]
  /\ UNCHANGED <<composed, callVars>>

Delete ==
  /\ raw < MaxRaw /\ row.inst # 0
  /\ raw' = raw + 1
  /\ row' = Blank(0, row.ver + 1)
  /\ UNCHANGED <<composed, callVars>>

(* A same-id replacement: a new incarnation.                               *)
Replace ==
  /\ raw < MaxRaw
  /\ raw' = raw + 1
  /\ row' = Blank(row.ver + 2, row.ver + 1)
  /\ UNCHANGED <<composed, callVars>>

Composes(n) ==
  \E fit \in BOOLEAN, by \in {NoCall, composed.by} : ComposedCommit(fit, n, by)

RawStep ==
  \/ ComposedRead \/ Delete \/ Replace
  \/ \E n \in Counts \cup {composed.n} : Composes(n)

Next == RawStep \/ \E c \in Calls : Select(c) \/ CallStep(c)

Spec == Init /\ [][Next]_vars

(* A started call runs on: its reads and its commit settle.                *)
FairSpec == Spec /\ \A c \in Calls : WF_vars(CallStep(c))

-----------------------------------------------------------------------------
(* Properties.                                                             *)

Answers == {"none", "skipped", "applied", "conflict", "unconfirmed", "error"}
PCs == {"idle", "selected", "staged", "confirmed", "committed", "answered"}

(* Every variable of the row and of the calls has its type.                *)
TypeOK ==
  /\ row \in Rows /\ composed \in Rows
  /\ raw \in 0 .. MaxRaw
  /\ pc \in [Calls -> PCs]
  /\ attempt \in [Calls -> 0 .. Attempts]
  /\ basis \in [Calls -> Rows] /\ seen \in [Calls -> Rows]
  /\ landed \in [Calls -> Nat]
  /\ answer \in [Calls -> Answers]

(* A call whose plan is not idempotent tells the truth about the store:    *)
(* after `applied` its write had been stored, after `conflict` or          *)
(* `skipped` it never was; only `unconfirmed` and an error leave it open.  *)
AnswerTellsStored ==
  \A c \in Calls \ Idempotent :
    /\ answer[c] = "applied" => landed[c] > 0
    /\ answer[c] \in {"conflict", "skipped"} => landed[c] = 0

(* A plan that is not idempotent is stored at most once per call: the      *)
(* retries that follow a changed row, a dropped commit or a failed         *)
(* verification never repeat a write that may have landed.                 *)
LandsAtMostOnce == \A c \in Calls \ Idempotent : landed[c] <= 1

(* Every started call answers: the attempts are bounded, whatever the      *)
(* other writers do.                                                       *)
EveryCallAnswers == \A c \in Calls : pc[c] = "selected" ~> pc[c] = "answered"
=============================================================================
