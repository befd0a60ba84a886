--------------------------- MODULE WriteBackProofs ---------------------------
(***************************************************************************)
(* Proofs about the write-back of a committed row, for any calls, attempts *)
(* and commits of the other writers.                                       *)
(*                                                                         *)
(* A call learns from the row alone whether its write was stored.  That    *)
(* the marker it finds there is no other writer's doing is not visible in  *)
(* one state: a composed PUT writes back a row it read earlier, possibly   *)
(* with its marker.  So the marker is followed through every copy of the   *)
(* row that may be written back (MarkerTells).  That a counting write is   *)
(* stored at most once needs that a call comes back to its next attempt    *)
(* only while it has stored nothing (NothingStoredYet).                    *)
(***************************************************************************)
EXTENDS WriteBack, TLAPS

(* A call that is about to try again has an attempt left.                  *)
AttemptLeft ==
  \A c \in Calls :
    /\ pc[c] = "idle" => attempt[c] = 0
    /\ pc[c] = "selected" => attempt[c] < Attempts

(* A counting call has stored nothing before its commit, and stores once.  *)
NothingStoredYet ==
  \A c \in Calls \ Idempotent :
    pc[c] \in {"idle", "selected", "staged", "confirmed"} => landed[c] = 0

(* A marker on the row, or on the copy of it a composed PUT has read, is   *)
(* there because its call's write was stored.                              *)
MarkerTells ==
  \A c \in Calls \ Idempotent : c \in {row.by, composed.by} => landed[c] > 0

(* Only a call that has ended has an answer.                               *)
AnswerAtEnd == \A c \in Calls : pc[c] # "answered" => answer[c] = "none"

ControlInv == TypeOK /\ AttemptLeft
StoreInv ==
  /\ ControlInv /\ NothingStoredYet /\ MarkerTells /\ AnswerAtEnd
  /\ AnswerTellsStored /\ LandsAtMostOnce

-----------------------------------------------------------------------------
(* The assumptions on the constants, as the leaves use them.               *)
LEMMA WriteBackConstants ==
  /\ Idempotent \subseteq Calls /\ NoCall \notin Calls
  /\ Attempts \in Nat \ {0} /\ MaxRaw \in Nat /\ Counts \subseteq Nat
BY WriteBackAssumption

(* A stamp on a row makes a row, and leaves the marker.                    *)
LEMMA StampedRow ==
  ASSUME NEW r \in Rows, NEW v \in Nat, NEW f \in BOOLEAN
  PROVE  /\ [r EXCEPT !.stamp = f, !.ver = v] \in Rows
         /\ [r EXCEPT !.stamp = f, !.ver = v].by = r.by
BY DEF Rows

(* The fields of a row.                                                    *)
LEMMA RowFields ==
  \A r \in Rows : r.n \in Nat /\ r.ver \in Nat /\ r.inst \in Nat /\ r.by \in Calls \cup {NoCall}
BY DEF Rows

(* What a composed PUT stores: a row with no marker but one it had read.   *)
LEMMA ComposedIsRow ==
  ASSUME TypeOK, NEW n \in Counts \cup {composed.n}, Composes(n)
  PROVE  /\ row' \in Rows /\ row'.by \in {NoCall, composed.by}
         /\ raw < MaxRaw /\ raw' = raw + 1
         /\ UNCHANGED <<composed, pc, attempt, basis, seen, landed, answer>>
<1>1. PICK fit \in BOOLEAN, by \in {NoCall, composed.by} : ComposedCommit(fit, n, by)
  BY DEF Composes
<1>2. /\ composed \in Rows /\ row.ver + 1 \in Nat /\ n \in Nat
      /\ by \in Calls \cup {NoCall}
  BY WriteBackConstants, RowFields DEF TypeOK
<1>3. ASSUME NEW v \in Nat
      PROVE  /\ [composed EXCEPT !.fit = fit, !.n = n, !.by = by, !.ver = v] \in Rows
             /\ [composed EXCEPT !.fit = fit, !.n = n, !.by = by, !.ver = v].by = by
  BY <1>2 DEF Rows
<1>4. row' = [composed EXCEPT !.fit = fit, !.n = n, !.by = by, !.ver = row.ver + 1]
  BY <1>1 DEF ComposedCommit
<1>5. row' \in Rows /\ row'.by = by
  BY <1>2, <1>3, <1>4, ZenonT(30)
<1> QED
  BY <1>1, <1>5 DEF ComposedCommit, callVars

(* An absent or a new row carries no marker.                               *)
LEMMA BlankIsRow == \A k, v \in Nat : Blank(k, v) \in Rows /\ Blank(k, v).by = NoCall
BY DEF Blank, Rows

(* The row a plan makes: a counting one puts its call's marker on it, a    *)
(* stamping one leaves the marker that is there.                           *)
LEMMA PlannedIsRow ==
  ASSUME NEW c \in Calls, NEW r \in Rows, seen[c] \in Rows
  PROVE  Planned(c, r) \in Rows /\ Planned(c, r).by = (IF c \in Idempotent THEN r.by ELSE c)
<1>1. r.ver + 1 \in Nat /\ seen[c].n + 1 \in Nat /\ c \in Calls \cup {NoCall}
  BY RowFields
<1>2. CASE c \in Idempotent
  <2>1. Planned(c, r) = [r EXCEPT !.stamp = TRUE, !.ver = r.ver + 1]
    BY <1>2 DEF Planned
  <2>2. /\ [r EXCEPT !.stamp = TRUE, !.ver = r.ver + 1] \in Rows
        /\ [r EXCEPT !.stamp = TRUE, !.ver = r.ver + 1].by = r.by
    BY <1>1, StampedRow, ZenonT(30)
  <2>3. Planned(c, r) \in Rows /\ Planned(c, r).by = r.by
    BY <2>1, <2>2, ZenonT(30)
  <2> QED
    BY <1>2, <2>3
<1>3. CASE c \notin Idempotent
  <2>1. Planned(c, r) = [r EXCEPT !.n = seen[c].n + 1, !.by = c, !.ver = r.ver + 1]
    BY <1>3 DEF Planned
  <2>2. \A n \in Nat, v \in Nat :
          /\ [r EXCEPT !.n = n, !.by = c, !.ver = v] \in Rows
          /\ [r EXCEPT !.n = n, !.by = c, !.ver = v].by = c
    BY DEF Rows
  <2>3. Planned(c, r) \in Rows /\ Planned(c, r).by = c
    BY <1>1, <2>1, <2>2, ZenonT(30)
  <2> QED
    BY <1>3, <2>3
<1> QED
  BY <1>2, <1>3

LEMMA InitStore == Init => StoreInv
<1> SUFFICES ASSUME Init PROVE StoreInv
  OBVIOUS
<1>1. row \in Rows /\ row.by = NoCall /\ composed = row
  BY BlankIsRow DEF Init
<1> QED
  BY <1>1, WriteBackConstants
  DEF Init, StoreInv, ControlInv, TypeOK, AttemptLeft, NothingStoredYet, MarkerTells, AnswerAtEnd,
      AnswerTellsStored, LandsAtMostOnce, PCs, Answers

(* Where a call goes on after a mismatch: to another attempt, if it has    *)
(* one, or to an answer.                                                   *)
LEMMA RetryGoes ==
  ASSUME TypeOK, NEW c \in Calls, NEW a \in Answers, RetryOr(c, a)
  PROVE  \/ /\ pc' = [pc EXCEPT ![c] = "selected"] /\ answer' = answer /\ attempt[c] < Attempts
         \/ /\ pc' = [pc EXCEPT ![c] = "answered"] /\ answer' = [answer EXCEPT ![c] = a]
BY DEF RetryOr, Answer

(* Every step keeps the types and the bound on the attempts.               *)
LEMMA StepControl == ControlInv /\ [Next]_vars => ControlInv'
<1> SUFFICES ASSUME TypeOK, AttemptLeft, [Next]_vars PROVE TypeOK' /\ AttemptLeft'
  BY DEF ControlInv
<1> USE WriteBackConstants DEF TypeOK, AttemptLeft, PCs, Answers
<1>1. CASE ComposedRead
  BY <1>1 DEF ComposedRead, callVars
<1>2. CASE Delete
  BY <1>2, BlankIsRow, RowFields DEF Delete, callVars
<1>3. CASE Replace
  BY <1>3, BlankIsRow, RowFields DEF Replace, callVars
<1>4. ASSUME NEW n \in Counts \cup {composed.n}, Composes(n) PROVE TypeOK' /\ AttemptLeft'
  BY <1>4, ComposedIsRow
<1>5. ASSUME NEW c \in Calls, Select(c) PROVE TypeOK' /\ AttemptLeft'
  BY <1>5 DEF Select
<1>6. ASSUME NEW c \in Calls, StageAttempt(c) PROVE TypeOK' /\ AttemptLeft'
  BY <1>6 DEF StageAttempt, Answer
<1>7. ASSUME NEW c \in Calls, ConfirmCommittedRow(c) PROVE TypeOK' /\ AttemptLeft'
  BY <1>7, RetryGoes DEF ConfirmCommittedRow
<1>8. ASSUME NEW c \in Calls, Commit(c) PROVE TypeOK' /\ AttemptLeft'
  BY <1>8, PlannedIsRow DEF Commit
<1>9. ASSUME NEW c \in Calls, CommitThrows(c) PROVE TypeOK' /\ AttemptLeft'
  BY <1>9 DEF CommitThrows, Answer
<1>10. ASSUME NEW c \in Calls, Verify(c) PROVE TypeOK' /\ AttemptLeft'
  BY <1>10, RetryGoes DEF Verify, Answer
<1>11. ASSUME NEW c \in Calls, VerifyThrows(c) PROVE TypeOK' /\ AttemptLeft'
  BY <1>11 DEF VerifyThrows, Answer
<1>12. CASE UNCHANGED vars
  BY <1>12 DEF vars, callVars
<1> QED
  BY <1>1, <1>2, <1>3, <1>4, <1>5, <1>6, <1>7, <1>8, <1>9, <1>10, <1>11, <1>12
  DEF Next, RawStep, CallStep

(* Every step keeps what the answers and the markers tell of the store.    *)
LEMMA StepStore == StoreInv /\ [Next]_vars => StoreInv'
<1> DEFINE Told == NothingStoredYet /\ MarkerTells /\ AnswerAtEnd /\ AnswerTellsStored /\ LandsAtMostOnce
<1> SUFFICES ASSUME TypeOK, Told, [Next]_vars PROVE Told'
  BY StepControl DEF StoreInv, ControlInv
<1> USE WriteBackConstants
        DEF TypeOK, NothingStoredYet, MarkerTells, AnswerAtEnd, AnswerTellsStored, LandsAtMostOnce, PCs, Answers
<1>1. CASE ComposedRead
  BY <1>1 DEF ComposedRead, callVars
<1>2. CASE Delete
  BY <1>2, BlankIsRow, RowFields DEF Delete, callVars
<1>3. CASE Replace
  BY <1>3, BlankIsRow, RowFields DEF Replace, callVars
<1>4. ASSUME NEW n \in Counts \cup {composed.n}, Composes(n) PROVE Told'
  BY <1>4, ComposedIsRow
<1>5. ASSUME NEW c \in Calls, Select(c) PROVE Told'
  BY <1>5 DEF Select
<1>6. ASSUME NEW c \in Calls, StageAttempt(c) PROVE Told'
  BY <1>6 DEF StageAttempt, Answer
<1>7. ASSUME NEW c \in Calls, ConfirmCommittedRow(c) PROVE Told'
  BY <1>7, RetryGoes DEF ConfirmCommittedRow
<1>8. ASSUME NEW c \in Calls, Commit(c) PROVE Told'
  BY <1>8, PlannedIsRow DEF Commit
<1>9. ASSUME NEW c \in Calls, CommitThrows(c) PROVE Told'
  BY <1>9 DEF CommitThrows, Answer
<1>10. ASSUME NEW c \in Calls, Verify(c) PROVE Told'
  BY <1>10, RetryGoes DEF Verify, Answer, ShowsWrite
<1>11. ASSUME NEW c \in Calls, VerifyThrows(c) PROVE Told'
  BY <1>11 DEF VerifyThrows, Answer
<1>12. CASE UNCHANGED vars
  BY <1>12 DEF vars, callVars
<1> QED
  BY <1>1, <1>2, <1>3, <1>4, <1>5, <1>6, <1>7, <1>8, <1>9, <1>10, <1>11, <1>12
  DEF Next, RawStep, CallStep

-----------------------------------------------------------------------------
(* Every variable of the row and of the calls has its type; in particular  *)
(* no call of writeBackCommittedRow makes more than its attempts.          *)
THEOREM WriteBackTypeCorrect == Spec => []TypeOK
<1>1. Init => ControlInv
  BY InitStore DEF StoreInv
<1>2. ControlInv => TypeOK
  BY DEF ControlInv
<1> QED
  BY <1>1, <1>2, StepControl, PTL DEF Spec

(* What writeBackCommittedRow answers for a plan that is not idempotent is *)
(* true of the store, although other writers may carry the marker of a     *)
(* stored write on, or wipe it out.                                        *)
THEOREM AnswersTellTheStore == Spec => []AnswerTellsStored
<1>1. StoreInv => AnswerTellsStored
  BY DEF StoreInv
<1> QED
  BY <1>1, InitStore, StepStore, PTL DEF Spec

(* A plan that is not idempotent is stored at most once, whatever attempts *)
(* the helper makes.                                                       *)
THEOREM CountingWritesLandOnce == Spec => []LandsAtMostOnce
<1>1. StoreInv => LandsAtMostOnce
  BY DEF StoreInv
<1> QED
  BY <1>1, InitStore, StepStore, PTL DEF Spec
==============================================================================
