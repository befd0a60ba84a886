----------------------- MODULE LockedTransactionProofs -----------------------
(***************************************************************************)
(* Proofs about the locked transaction scopes, for any set of calls,       *)
(* scopes, writes and ids.                                                 *)
(*                                                                         *)
(* The argument.  An active scope keeps its lock call's keys (LockInv), so *)
(* no other scope commits one of its rows: until its own commit a row is   *)
(* the one its transaction found, or a put's (SnapshotHeld).  Each staged  *)
(* write was therefore decided on what the row held since a scope last     *)
(* committed it, or on one its own scope staged before (DecidedOnSnapshot),*)
(* which is what AtomicMemory asks of an applied group; and from the       *)
(* commit to the confirmations a row stays the committed one or a put's    *)
(* (CommittedRowsStay).                                                    *)
(***************************************************************************)
EXTENDS LockedTransaction, MemoryWriteLockProofs

Active == {"open", "draining", "confirming"}
Undecided == {"open", "draining"}

(* Every step of the composition is a step of the lock, or leaves it alone.*)
LEMMA NextIsLockStep == ASSUME [Next]_vars PROVE [LockNext]_lockVars
<1> USE ScopesAssumption DEF LockNext, CallStep
<1>1. CASE \E c \in Calls : LockStep(c)
  BY <1>1 DEF LockStep
<1>2. CASE \E c \in Calls : \E ok \in BOOLEAN : SettleCallback(c, ok)
  BY <1>2 DEF SettleCallback
<1>3. CASE \E s \in Scopes : OpenScope(s)
  BY <1>3 DEF OpenScope
<1>4. CASE \E s \in Scopes : ScopeStep(s)
  <2>1. PICK s \in Scopes : ScopeStep(s)
    BY <1>4
  <2>2. CASE \E how \in {"value", "refused", "threw"} : WorkSettles(s, how)
    BY <2>2 DEF WorkSettles
  <2>3. CASE Abort(s) \/ CommitFails(s)
    BY <2>3 DEF Abort, CommitFails, EndUncommitted
  <2>4. CASE Commit(s)
    BY <2>4 DEF Commit
  <2>5. CASE Finish(s)
    <3>1. \E ok \in BOOLEAN : SettleScope(ScopeCall[s], ok)
      BY <2>5 DEF Finish
    <3> QED BY <3>1
  <2> QED BY <2>1, <2>2, <2>3, <2>4, <2>5 DEF ScopeStep
<1>5. CASE \E w \in Writes : EnterWrite(w) \/ WriteStep(w)
  <2>1. PICK w \in Writes : EnterWrite(w) \/ WriteStep(w)
    BY <1>5
  <2>2. CASE \E how \in {"confirmed", "mismatch", "unreadable", "unreturned"} : Confirm(w, how)
    <3>1. MarkOutcomeUnknown(ScopeCall[WriteScope[w]], WriteId[w]) \/ UNCHANGED lockVars
      BY <2>2 DEF Confirm
    <3>2. ScopeCall[WriteScope[w]] \in Calls /\ WriteId[w] \in Ids
      OBVIOUS
    <3> QED BY <3>1, <3>2
  <2>3. CASE ~ \E how \in {"confirmed", "mismatch", "unreadable", "unreturned"} : Confirm(w, how)
    BY <2>1, <2>3 DEF EnterWrite, WriteStep, ReadRow, Stage, EndUnstaged
  <2> QED BY <2>2, <2>3
<1>6. CASE RestartProcess
  BY <1>6 DEF RestartProcess
<1>7. CASE UNCHANGED vars
  BY <1>7 DEF vars
<1>8. CASE \E p \in Puts : ComposedCommit(p)
  BY <1>8 DEF ComposedCommit
<1> QED BY <1>1, <1>2, <1>3, <1>4, <1>5, <1>6, <1>7, <1>8 DEF Next

(* The lock's invariant holds in the composition.                          *)
THEOREM ComposedLockInvariant == Spec => []LockInv
<1>1. Init => LockInv
  BY LockInitInv DEF Init
<1>2. LockInv /\ [Next]_vars => LockInv'
  BY LockStepInv, NextIsLockStep
<1> QED BY <1>1, <1>2, PTL DEF Spec

(* An active scope is the one open scope of its lock call, and it drains   *)
(* only once its `work` has settled.                                       *)
ScopesAreLocked ==
  /\ \A s \in Scopes : phase[s] \in Active => scope[ScopeCall[s]] = "open"
  /\ \A s, t \in Scopes :
       phase[s] \in Active /\ phase[t] \in Active /\ ScopeCall[s] = ScopeCall[t] => s = t
  /\ \A s \in Scopes : phase[s] = "draining" => work[s] # "pending"

(* Where a write can be, by the phase of its scope.                        *)
WritesFollowScope ==
  \A w \in Writes :
    LET s == WriteScope[w] IN
    /\ phase[s] = "unused" => wr[w] = "unused"
    /\ phase[s] \in Undecided =>
         wr[w] \in {"unused", "denied", "entered", "read", "staged", "refused", "rejected"}
    /\ wr[w] \in {"entered", "read"} => phase[s] \in Undecided
    /\ wr[w] = "staged" => phase[s] \in Active /\ w \in Staged(s)
    /\ wr[w] \notin {"unused", "denied"} => WriteId[w] \in IdsOf[ScopeCall[s]]

(* What a scope's list of staged writes holds.                             *)
StagedWrites ==
  \A s \in Scopes : \A w \in Staged(s) :
    /\ w \in WritesOf(s)
    /\ wr[w] \notin {"unused", "denied", "entered", "read", "refused", "rejected"}
    /\ phase[s] \in Undecided => wr[w] = "staged"

(* The transaction's own reads: its staged rows over its snapshot.         *)
ViewOfScope ==
  \A s \in Scopes : \A i \in Ids :
    phase[s] \in Active =>
      IF StagesRow(s, i) THEN view[s][i] \in Staged(s) /\ WriteId[view[s][i]] = i
                         ELSE view[s][i] = snap[s][i]

(* A row is among what it held since a scope last committed it, and a put  *)
(* that is still to come is in no row and in no transaction.               *)
RowsKnown ==
  /\ \A i \in Ids : row[i] \in since[i] /\ (row[i] \in Puts => row[i] \in put)
  /\ \A s \in Scopes : \A i \in Ids : snap[s][i] \in Puts => snap[s][i] \in put

(* Until its commit, the rows an active scope's call holds are the rows    *)
(* its transaction found, or puts that came since.                         *)
SnapshotHeld ==
  \A s \in Scopes : phase[s] \in Undecided =>
    \A i \in IdsOf[ScopeCall[s]] :
      snap[s][i] \in since[i] /\ (row[i] # snap[s][i] => row[i] \in Puts)

(* A write is decided on the row its scope's transaction found, or on one  *)
(* the scope staged.                                                       *)
DecidedOnSnapshot ==
  \A w \in Writes :
    wr[w] \in {"read", "staged"} /\ phase[WriteScope[w]] \in Undecided =>
      basis[w] = snap[WriteScope[w]][WriteId[w]] \/ basis[w] \in Staged(WriteScope[w])

(* Only a scope past its commit has applied writes.                        *)
AppliedAfterCommit ==
  \A w \in applied : phase[WriteScope[w]] \in {"confirming", "closed"}

(* Between a commit and its confirmations the rows are the committed ones, *)
(* or puts that came since the transaction began.                          *)
CommittedRowsStay ==
  \A s \in Scopes : phase[s] = "confirming" =>
    \A w \in Staged(s) :
      row[WriteId[w]] # view[s][WriteId[w]] =>
        row[WriteId[w]] \in Puts \ {snap[s][WriteId[w]]}

TxInv ==
  /\ TypeOK
  /\ LockInv
  /\ ScopesAreLocked
  /\ WritesFollowScope
  /\ StagedWrites
  /\ ViewOfScope
  /\ SnapshotHeld
  /\ DecidedOnSnapshot
  /\ AppliedAfterCommit
  /\ AllOrNothing
  /\ CommittedRowsStay
  /\ RowsKnown

(* The assumptions on the scopes and writes, as the leaves use them.       *)
LEMMA ScopeTypes ==
  /\ \A s \in Scopes : ScopeCall[s] \in Calls
  /\ \A w \in Writes : WriteScope[w] \in Scopes /\ WriteToken[w] \in Calls /\ WriteId[w] \in Ids
  /\ \A p \in Puts : PutId[p] \in Ids
  /\ Fresh \notin Writes /\ Fresh \notin Puts /\ Writes \cap Puts = {}
  /\ Writes \subseteq Values /\ Puts \subseteq Values /\ Fresh \in Values
  /\ NoRows \in [Ids -> Values] /\ \A i \in Ids : NoRows[i] = Fresh
BY ScopesAssumption DEF Values, NoRows

(* Staging appends one write to its scope's list and no other.             *)
LEMMA StageAppends ==
  ASSUME TypeOK, NEW w \in Writes, Stage(w), NEW s \in Scopes
  PROVE  Staged(s)' = IF s = WriteScope[w] THEN Staged(s) \cup {w} ELSE Staged(s)
<1> USE ScopeTypes
<1>1. order[s] \in Seq(Writes)
  BY DEF TypeOK
<1>2. CASE s = WriteScope[w]
  <2>1. order'[s] = Append(order[s], w)
    BY <1>2 DEF Stage, TypeOK
  <2>2. /\ Len(order'[s]) = Len(order[s]) + 1
        /\ order'[s][Len(order[s]) + 1] = w
        /\ \A k \in 1 .. Len(order[s]) : order'[s][k] = order[s][k]
    BY <1>1, <2>1
  <2>3. Len(order[s]) \in Nat
    BY <1>1
  <2>4. ASSUME NEW x \in Staged(s)' PROVE x \in Staged(s) \cup {w}
    <3>1. PICK k \in 1 .. Len(order[s]) + 1 : x = order'[s][k]
      BY <2>2, <2>4 DEF Staged
    <3>2. k \in 1 .. Len(order[s]) \/ k = Len(order[s]) + 1
      BY <2>3
    <3> QED BY <2>2, <3>1, <3>2 DEF Staged
  <2>5. ASSUME NEW x \in Staged(s) PROVE x \in Staged(s)'
    <3>1. PICK k \in 1 .. Len(order[s]) : x = order[s][k]
      BY <2>5 DEF Staged
    <3>2. k \in 1 .. Len(order'[s])
      BY <2>2, <2>3
    <3> QED BY <2>2, <3>1, <3>2 DEF Staged
  <2>6. w \in Staged(s)'
    <3>1. Len(order[s]) + 1 \in 1 .. Len(order'[s])
      BY <2>2, <2>3
    <3> QED BY <2>2, <3>1 DEF Staged
  <2> QED BY <1>2, <2>4, <2>5, <2>6
<1>3. CASE s # WriteScope[w]
  BY <1>3 DEF Stage, TypeOK, Staged
<1> QED BY <1>2, <1>3

(* Staged writes are writes.                                               *)
LEMMA StagedType ==
  ASSUME TypeOK, NEW s \in Scopes
  PROVE  Staged(s) \subseteq Writes
<1>1. order[s] \in Seq(Writes)
  BY DEF TypeOK
<1> QED BY <1>1 DEF Staged

(* A step that leaves the scopes, the writes and the rows alone preserves  *)
(* the invariant.                                                          *)
LEMMA QuietStepInv ==
  ASSUME TxInv, LockInv', TypeOK',
         UNCHANGED <<phase, poisoned, work, wr, order, snap, view, basis, row, applied, put, since, scope>>
  PROVE  TxInv'
<1> USE DEF TxInv
<1>2. ScopesAreLocked'
  BY DEF ScopesAreLocked
<1>3. \A s \in Scopes : Staged(s)' = Staged(s)
  BY DEF Staged
<1>4. WritesFollowScope' /\ StagedWrites' /\ ViewOfScope'
  BY <1>3, ScopeTypes DEF WritesFollowScope, StagedWrites, ViewOfScope, StagesRow, WritesOf
<1>5. SnapshotHeld' /\ DecidedOnSnapshot' /\ AppliedAfterCommit'
  BY <1>3, ScopeTypes DEF SnapshotHeld, DecidedOnSnapshot, AppliedAfterCommit
<1>6. AllOrNothing' /\ CommittedRowsStay' /\ RowsKnown'
  BY <1>3 DEF AllOrNothing, CommittedRowsStay, RowsKnown, WritesOf, Tracked
<1> QED BY <1>2, <1>4, <1>5, <1>6

(* The initial state satisfies the invariant.                              *)
LEMMA TxInitInv == Init => TxInv
<1> SUFFICES ASSUME Init PROVE TxInv
  OBVIOUS
<1> USE ScopeTypes, ConstantTypes
<1>1. LockInv
  BY LockInitInv DEF Init
<1>2. TypeOK
  BY <1>1 DEF Init, TypeOK, LockInv, WriteStates
<1>3. \A s \in Scopes : Staged(s) = {}
  BY DEF Init, Staged
<1> QED BY <1>1, <1>2, <1>3
  DEF Init, TxInv, ScopesAreLocked, WritesFollowScope, StagedWrites, ViewOfScope,
      SnapshotHeld, DecidedOnSnapshot, AppliedAfterCommit, AllOrNothing,
      CommittedRowsStay, RowsKnown, StagesRow, Active, Undecided, WritesOf, Tracked

(* Opening a scope: its transaction starts from the rows as stored.        *)
LEMMA OpenScopeInv ==
  ASSUME TxInv, LockInv', NEW s \in Scopes, OpenScope(s)
  PROVE  TxInv'
<1> USE ScopeTypes, ConstantTypes DEF TxInv
<1>1. TypeOK'
  BY DEF OpenScope, TypeOK, LockInv
<1>2. Staged(s) = {}
  BY StagedType DEF OpenScope, WritesFollowScope, StagedWrites, WritesOf
<1>3. \A t \in Scopes : Staged(t)' = Staged(t)
  BY DEF OpenScope, Staged
<1>4. /\ scope' = [scope EXCEPT ![ScopeCall[s]] = "open"]
      /\ scope[ScopeCall[s]] # "open" /\ phase[s] = "unused"
      /\ phase' = [phase EXCEPT ![s] = "open"]
      /\ snap' = [snap EXCEPT ![s] = row] /\ view' = [view EXCEPT ![s] = row]
      /\ UNCHANGED <<poisoned, work, result, leftOpen, wr, order, basis, row, applied, put, since>>
  BY DEF OpenScope, AdmitScope
<1>5. ScopesAreLocked'
  BY <1>4 DEF ScopesAreLocked, Active, TypeOK, LockTypeOK
<1>6. WritesFollowScope' /\ StagedWrites'
  BY <1>2, <1>3, <1>4 DEF WritesFollowScope, StagedWrites, WritesOf, Active, Undecided, TypeOK
<1>7. ViewOfScope' /\ SnapshotHeld'
  BY <1>2, <1>3, <1>4 DEF ViewOfScope, SnapshotHeld, RowsKnown, StagesRow, Active, Undecided, TypeOK
<1>8. DecidedOnSnapshot' /\ AppliedAfterCommit' /\ AllOrNothing'
  BY <1>2, <1>3, <1>4
     DEF DecidedOnSnapshot, AppliedAfterCommit, AllOrNothing, WritesFollowScope, WritesOf, Tracked, Undecided, TypeOK
<1>9. CommittedRowsStay' /\ RowsKnown'
  BY <1>2, <1>3, <1>4
     DEF CommittedRowsStay, RowsKnown, WritesFollowScope, TypeOK
<1> QED BY <1>1, <1>5, <1>6, <1>7, <1>8, <1>9

(* Admitting a write, or refusing it and poisoning its open scope.         *)
LEMMA EnterWriteInv ==
  ASSUME TxInv, LockInv', NEW w \in Writes, EnterWrite(w)
  PROVE  TxInv'
<1> USE ScopeTypes, ConstantTypes DEF TxInv
<1>1. TypeOK'
  BY DEF EnterWrite, TypeOK, LockInv, WriteStates
<1>2. \A t \in Scopes : Staged(t)' = Staged(t)
  BY DEF EnterWrite, Staged
<1>3. ScopesAreLocked'
  BY DEF EnterWrite, ScopesAreLocked, lockVars
<1>4. WritesFollowScope'
  BY <1>2 DEF EnterWrite, WritesFollowScope, Admissible, Undecided, Active, TypeOK
<1>5. StagedWrites'
  BY <1>2 DEF EnterWrite, StagedWrites, WritesOf, TypeOK
<1>6. ViewOfScope' /\ SnapshotHeld' /\ CommittedRowsStay'
  BY <1>2 DEF EnterWrite, ViewOfScope, SnapshotHeld, CommittedRowsStay, StagesRow
<1>7. DecidedOnSnapshot' /\ AppliedAfterCommit' /\ RowsKnown'
  BY <1>2 DEF EnterWrite, DecidedOnSnapshot, AppliedAfterCommit, RowsKnown, TypeOK
<1>8. AllOrNothing'
  <2> SUFFICES ASSUME NEW s \in Scopes, WritesOf(s) \cap applied # {}
               PROVE  Tracked(s)' \subseteq applied /\ work[s] = "value" /\ s \notin poisoned'
    BY DEF AllOrNothing, EnterWrite, WritesOf
  <2>1. phase[s] \in {"confirming", "closed"}
    BY DEF AppliedAfterCommit, WritesOf
  <2>2. Tracked(s)' = Tracked(s)
    BY <2>1 DEF Tracked, WritesOf, EnterWrite, Admissible, TypeOK
  <2>3. s \notin poisoned'
    BY <2>1 DEF EnterWrite, AllOrNothing
  <2> QED BY <2>2, <2>3 DEF AllOrNothing
<1> QED BY <1>1, <1>3, <1>4, <1>5, <1>6, <1>7, <1>8

(* The read of a write's body: it finds the current row, or a row its own  *)
(* scope staged.                                                           *)
LEMMA ReadRowInv ==
  ASSUME TxInv, LockInv', NEW w \in Writes, ReadRow(w)
  PROVE  TxInv'
<1> USE ScopeTypes, ConstantTypes DEF TxInv
<1>1. TypeOK'
  BY DEF ReadRow, TypeOK, LockInv, WriteStates
<1>2. \A t \in Scopes : Staged(t)' = Staged(t)
  BY DEF ReadRow, Staged
<1>3. ScopesAreLocked'
  BY DEF ReadRow, ScopesAreLocked, lockVars
<1>4. WritesFollowScope' /\ StagedWrites'
  BY <1>2 DEF ReadRow, WritesFollowScope, StagedWrites, WritesOf, Undecided, Active, TypeOK
<1>5. ViewOfScope' /\ SnapshotHeld' /\ CommittedRowsStay'
  BY <1>2 DEF ReadRow, ViewOfScope, SnapshotHeld, CommittedRowsStay, StagesRow
<1>6. AppliedAfterCommit' /\ RowsKnown' /\ AllOrNothing'
  BY <1>2 DEF ReadRow, AppliedAfterCommit, RowsKnown, AllOrNothing, WritesOf, Tracked, TypeOK
<1>7. DecidedOnSnapshot'
  <2>1. LET s == WriteScope[w] IN
        view[s][WriteId[w]] = snap[s][WriteId[w]] \/ view[s][WriteId[w]] \in Staged(s)
    BY DEF ReadRow, WritesFollowScope, ViewOfScope, Active, Undecided
  <2> QED BY <1>2, <2>1 DEF ReadRow, DecidedOnSnapshot, TypeOK
<1> QED BY <1>1, <1>3, <1>4, <1>5, <1>6, <1>7

(* Staging a row.                                                          *)
LEMMA StageInv ==
  ASSUME TxInv, LockInv', NEW w \in Writes, Stage(w)
  PROVE  TxInv'
<1> USE ScopeTypes, ConstantTypes DEF TxInv
<1>1. TypeOK'
  BY DEF Stage, TypeOK, LockInv, WriteStates
<1>2. \A t \in Scopes : Staged(t)' = IF t = WriteScope[w] THEN Staged(t) \cup {w} ELSE Staged(t)
  BY StageAppends
<1>3. ScopesAreLocked'
  BY DEF Stage, ScopesAreLocked, lockVars
<1>4. phase[WriteScope[w]] \in Undecided /\ wr[w] = "read"
  BY DEF Stage, WritesFollowScope
<1>5. WritesFollowScope' /\ StagedWrites'
  <2>1. wr' = [wr EXCEPT ![w] = "staged"] /\ phase' = phase
    BY DEF Stage
  <2>2. \A x \in Writes : wr'[x] = IF x = w THEN "staged" ELSE wr[x]
    BY <2>1 DEF TypeOK
  <2>3. WritesFollowScope'
    <3> SUFFICES ASSUME NEW x \in Writes
                 PROVE  LET s == WriteScope[x] IN
                        /\ phase[s] = "unused" => wr'[x] = "unused"
                        /\ phase[s] \in Undecided =>
                             wr'[x] \in {"unused", "denied", "entered", "read", "staged", "refused", "rejected"}
                        /\ wr'[x] \in {"entered", "read"} => phase[s] \in Undecided
                        /\ wr'[x] = "staged" => phase[s] \in Active /\ x \in Staged(s)'
                        /\ wr'[x] \notin {"unused", "denied"} => WriteId[x] \in IdsOf[ScopeCall[s]]
      BY <2>1 DEF WritesFollowScope
    <3>1. Staged(WriteScope[x]) \subseteq Staged(WriteScope[x])' /\ w \in Staged(WriteScope[w])'
      BY <1>2
    <3> QED BY <1>4, <2>2, <3>1 DEF WritesFollowScope, Undecided, Active
  <2>4. StagedWrites'
    <3> SUFFICES ASSUME NEW s \in Scopes, NEW x \in Staged(s)'
                 PROVE  /\ x \in WritesOf(s)
                        /\ wr'[x] \notin {"unused", "denied", "entered", "read", "refused", "rejected"}
                        /\ phase[s] \in Undecided => wr'[x] = "staged"
      BY <2>1 DEF StagedWrites, WritesOf
    <3>1. x \in Staged(s) \/ (x = w /\ s = WriteScope[w])
      BY <1>2
    <3>2. CASE x = w /\ s = WriteScope[w]
      BY <2>2, <3>2 DEF WritesOf
    <3>3. CASE x \in Staged(s)
      BY <1>4, <2>2, <3>3 DEF StagedWrites, WritesOf
    <3> QED BY <3>1, <3>2, <3>3
  <2> QED BY <2>3, <2>4
<1>6. ViewOfScope'
  <2> SUFFICES ASSUME NEW s \in Scopes, NEW i \in Ids, phase[s] \in Active
               PROVE  IF StagesRow(s, i)' THEN view'[s][i] \in Staged(s)' /\ WriteId[view'[s][i]] = i
                                          ELSE view'[s][i] = snap[s][i]
    BY DEF ViewOfScope, Stage
  <2>1. view'[s][i] = IF s = WriteScope[w] /\ i = WriteId[w] THEN w ELSE view[s][i]
    BY DEF Stage, TypeOK
  <2>2. StagesRow(s, i)' <=> StagesRow(s, i) \/ (s = WriteScope[w] /\ i = WriteId[w])
    BY <1>2 DEF StagesRow
  <2> QED BY <1>2, <2>1, <2>2 DEF ViewOfScope
<1>7. SnapshotHeld' /\ DecidedOnSnapshot'
  <2>1. UNCHANGED <<phase, snap, row, basis, put, since>>
    BY DEF Stage
  <2>2. \A x \in Writes : wr'[x] = IF x = w THEN "staged" ELSE wr[x]
    BY DEF Stage, TypeOK
  <2>3. SnapshotHeld'
    BY <2>1 DEF SnapshotHeld
  <2>4. DecidedOnSnapshot'
    BY <1>2, <1>4, <2>1, <2>2 DEF DecidedOnSnapshot
  <2> QED BY <2>3, <2>4
<1>8. AppliedAfterCommit' /\ AllOrNothing'
  BY <1>4 DEF Stage, AppliedAfterCommit, AllOrNothing, WritesOf, Tracked, TypeOK
<1>9. CommittedRowsStay' /\ RowsKnown'
  <2>1. \A t \in Scopes : phase[t] = "confirming" => Staged(t)' = Staged(t) /\ view'[t] = view[t]
    BY <1>2, <1>4 DEF Stage, Undecided, TypeOK
  <2> QED BY <2>1 DEF Stage, CommittedRowsStay, RowsKnown
<1> QED BY <1>1, <1>3, <1>5, <1>6, <1>7, <1>8, <1>9

(* A body that ends before it stages.                                      *)
LEMMA EndUnstagedInv ==
  ASSUME TxInv, LockInv', NEW w \in Writes, NEW how \in {"refused", "rejected"}, EndUnstaged(w, how)
  PROVE  TxInv'
<1> USE ScopeTypes, ConstantTypes DEF TxInv
<1>1. TypeOK'
  BY DEF EndUnstaged, TypeOK, LockInv, WriteStates
<1>2. \A t \in Scopes : Staged(t)' = Staged(t)
  BY DEF EndUnstaged, Staged
<1>3. ScopesAreLocked'
  BY DEF EndUnstaged, ScopesAreLocked, lockVars
<1>4. WritesFollowScope' /\ StagedWrites'
  BY <1>2 DEF EndUnstaged, WritesFollowScope, StagedWrites, WritesOf, Undecided, Active, TypeOK
<1>5. ViewOfScope' /\ SnapshotHeld' /\ CommittedRowsStay'
  BY <1>2 DEF EndUnstaged, ViewOfScope, SnapshotHeld, CommittedRowsStay, StagesRow
<1>6. AppliedAfterCommit' /\ RowsKnown' /\ AllOrNothing' /\ DecidedOnSnapshot'
  BY <1>2 DEF EndUnstaged, AppliedAfterCommit, RowsKnown, AllOrNothing, DecidedOnSnapshot,
              WritesOf, Tracked, TypeOK
<1> QED BY <1>1, <1>3, <1>4, <1>5, <1>6

(* `work` settles and admission closes.                                    *)
LEMMA WorkSettlesInv ==
  ASSUME TxInv, LockInv', NEW s \in Scopes, NEW how \in {"value", "refused", "threw"}, WorkSettles(s, how)
  PROVE  TxInv'
<1> USE ScopeTypes, ConstantTypes DEF TxInv
<1>1. TypeOK'
  BY DEF WorkSettles, TypeOK, LockInv
<1>2. \A t \in Scopes : Staged(t)' = Staged(t)
  BY DEF WorkSettles, Staged
<1>3. ScopesAreLocked'
  BY DEF WorkSettles, ScopesAreLocked, Active, TypeOK, lockVars
<1>4. WritesFollowScope' /\ StagedWrites'
  BY <1>2 DEF WorkSettles, WritesFollowScope, StagedWrites, WritesOf, Undecided, Active, TypeOK
<1>5. ViewOfScope' /\ SnapshotHeld' /\ CommittedRowsStay'
  BY <1>2 DEF WorkSettles, ViewOfScope, SnapshotHeld, CommittedRowsStay, StagesRow, Active, Undecided, TypeOK
<1>6. DecidedOnSnapshot' /\ AppliedAfterCommit' /\ RowsKnown'
  BY <1>2 DEF WorkSettles, DecidedOnSnapshot, AppliedAfterCommit, RowsKnown, Undecided, TypeOK
<1>7. AllOrNothing'
  <2>1. WritesOf(s) \cap applied = {} /\ \A t \in Scopes \ {s} : work'[t] = work[t]
    BY DEF WorkSettles, AppliedAfterCommit, WritesOf, TypeOK
  <2>2. \A t \in Scopes : Tracked(t)' = Tracked(t)
    BY DEF WorkSettles, WritesOf, Tracked
  <2> QED BY <2>1, <2>2 DEF WorkSettles, AllOrNothing, WritesOf
<1> QED BY <1>1, <1>3, <1>4, <1>5, <1>6, <1>7

(* A scope that leaves its active phases without changing rows, while its  *)
(* staged writes end and its transaction is gone, preserves the invariant: *)
(* the common part of ending uncommitted and of finishing.                 *)
LEMMA CloseScopeInv ==
  ASSUME TxInv, LockInv', TypeOK', NEW s \in Scopes,
         Drained(s) \/ phase[s] = "confirming",
         phase' = [phase EXCEPT ![s] = "closed"],
         scope' = [scope EXCEPT ![ScopeCall[s]] = "none"],
         wr' = [w \in Writes |-> IF WriteScope[w] = s /\ wr[w] = "staged" THEN "dropped" ELSE wr[w]],
         CloseTransaction(s),
         UNCHANGED <<poisoned, work, basis, row, applied, put, since>>
  PROVE  TxInv'
<1> USE ScopeTypes, ConstantTypes DEF TxInv
<1>1. \A t \in Scopes : Staged(t)' = IF t = s THEN {} ELSE Staged(t)
  BY DEF Staged, CloseTransaction, TypeOK
<1>2. /\ \A t \in Scopes : phase'[t] = IF t = s THEN "closed" ELSE phase[t]
      /\ \A t \in Scopes : snap'[t] = IF t = s THEN NoRows ELSE snap[t]
      /\ \A t \in Scopes : view'[t] = IF t = s THEN NoRows ELSE view[t]
  BY DEF TypeOK, CloseTransaction
<1>3. ScopesAreLocked'
  BY <1>2 DEF ScopesAreLocked, Active, Drained, TypeOK, LockTypeOK
<1>4. WritesFollowScope'
  <2>1. \A w \in WritesOf(s) : wr[w] \notin {"entered", "read"}
    BY DEF Drained, Tracked, WritesFollowScope, Undecided, WritesOf
  <2> QED BY <1>1, <1>2, <2>1 DEF WritesFollowScope, Undecided, Active, WritesOf, Drained
<1>5. StagedWrites'
  BY <1>1, <1>2, StagedType DEF StagedWrites, WritesOf, Undecided
<1>6. ViewOfScope' /\ SnapshotHeld' /\ CommittedRowsStay'
  BY <1>1, <1>2 DEF ViewOfScope, SnapshotHeld, CommittedRowsStay, StagesRow, Active, Undecided
<1>7. DecidedOnSnapshot' /\ RowsKnown'
  BY <1>1, <1>2 DEF DecidedOnSnapshot, RowsKnown, Undecided
<1>8. AppliedAfterCommit' /\ AllOrNothing'
  BY <1>1, <1>2, StagedType DEF AppliedAfterCommit, AllOrNothing, WritesOf, Tracked, TypeOK
<1> QED BY <1>3, <1>4, <1>5, <1>6, <1>7, <1>8

(* A scope that aborts, or whose commit fails.                             *)
LEMMA EndUncommittedInv ==
  ASSUME TxInv, LockInv', NEW s \in Scopes, Abort(s) \/ CommitFails(s)
  PROVE  TxInv'
<1> USE ScopeTypes, ConstantTypes
<1>1. PICK how \in {"threw", "refused"} : Drained(s) /\ EndUncommitted(s, how)
  BY DEF Abort, CommitFails
<1>2. TypeOK'
  BY <1>1 DEF EndUncommitted, CloseTransaction, TxInv, TypeOK, LockInv, WriteStates
<1> QED BY <1>1, <1>2, CloseScopeInv DEF EndUncommitted, SettleScope

(* A committed scope whose confirmations have all run.                     *)
LEMMA FinishInv ==
  ASSUME TxInv, LockInv', NEW s \in Scopes, Finish(s)
  PROVE  TxInv'
<1> USE ScopeTypes, ConstantTypes
<1>1. TypeOK'
  BY DEF Finish, CloseTransaction, TxInv, TypeOK, LockInv
<1>2. \A w \in Writes : ~(WriteScope[w] = s /\ wr[w] = "staged")
  BY DEF Finish, TxInv, WritesFollowScope
<1>3. wr' = [w \in Writes |-> IF WriteScope[w] = s /\ wr[w] = "staged" THEN "dropped" ELSE wr[w]]
  BY <1>2 DEF Finish, TxInv, TypeOK
<1> QED BY <1>1, <1>3, CloseScopeInv DEF Finish, SettleScope

(* What a commit stores: a staged row, or the put it finds there.          *)
LEMMA StoresEffect ==
  ASSUME TxInv, NEW s \in Scopes, phase[s] = "draining", StoresStaged(s)
  PROVE  /\ \A i \in Ids : StagesRow(s, i) =>
              \/ row'[i] = view[s][i]
              \/ row'[i] = row[i] /\ row[i] # snap[s][i] /\ row[i] \in put
         /\ \A i \in Ids : since'[i] = IF StagesRow(s, i) THEN {row'[i]} ELSE since[i]
         /\ \A i \in Ids : ~StagesRow(s, i) => row'[i] = row[i]
         /\ row' \in [Ids -> Values] /\ since' \in [Ids -> SUBSET Values]
<1> USE ScopeTypes, ConstantTypes DEF TxInv
<1>1. PICK kept \in SUBSET {i \in Ids : StagesRow(s, i) /\ row[i] # snap[s][i]} :
        /\ row' = [i \in Ids |-> IF StagesRow(s, i) /\ i \notin kept THEN view[s][i] ELSE row[i]]
        /\ since' = [i \in Ids |-> IF StagesRow(s, i) THEN {row'[i]} ELSE since[i]]
  BY DEF StoresStaged
<1>2. \A i \in Ids : StagesRow(s, i) => i \in IdsOf[ScopeCall[s]]
  BY StagedType DEF StagesRow, StagedWrites, WritesFollowScope, WritesOf
<1>3. \A i \in kept : row[i] # snap[s][i] /\ row[i] \in put
  BY <1>2 DEF SnapshotHeld, RowsKnown, Undecided
<1>4. row' \in [Ids -> Values] /\ since' \in [Ids -> SUBSET Values]
  BY <1>1 DEF TypeOK
<1> QED BY <1>1, <1>3, <1>4

(* The commit: the scope's call holds the keys of every row it stages, so  *)
(* the rows of the other active scopes are not touched.                    *)
LEMMA CommitInv ==
  ASSUME TxInv, LockInv', NEW s \in Scopes, Commit(s)
  PROVE  TxInv'
<1> USE ScopeTypes, ConstantTypes DEF TxInv
<1>1. \A t \in Scopes : Staged(t)' = Staged(t) /\ Staged(t) \subseteq Writes
  BY StagedType DEF Commit, Staged
<1>2. /\ \A t \in Scopes : phase'[t] = IF t = s THEN "confirming" ELSE phase[t]
      /\ phase[s] = "draining" /\ work[s] = "value" /\ s \notin poisoned
      /\ applied' = applied \cup Staged(s)
      /\ UNCHANGED <<poisoned, work, wr, order, snap, view, basis, put, scope>>
  BY DEF Commit, Drained, Throws, Refuses, ScopesAreLocked, TypeOK, lockVars
<1>3. Tracked(s) \subseteq Staged(s)
  BY <1>2 DEF Commit, Drained, Throws, Refuses, Tracked, WritesOf, WritesFollowScope, Undecided, TypeOK
<1>4. \A i \in Ids : StagesRow(s, i) => i \in IdsOf[ScopeCall[s]]
  BY <1>1 DEF StagesRow, StagedWrites, WritesFollowScope, WritesOf
<1>5. /\ \A i \in Ids : StagesRow(s, i) =>
           \/ row'[i] = view[s][i]
           \/ row'[i] = row[i] /\ row[i] # snap[s][i] /\ row[i] \in put
      /\ \A i \in Ids : since'[i] = IF StagesRow(s, i) THEN {row'[i]} ELSE since[i]
      /\ \A i \in Ids : ~StagesRow(s, i) => row'[i] = row[i]
      /\ row' \in [Ids -> Values] /\ since' \in [Ids -> SUBSET Values]
  BY <1>2, StoresEffect DEF Commit
<1>6. \A t \in Scopes : phase[t] \in Active /\ t # s =>
        \A i \in IdsOf[ScopeCall[t]] : row'[i] = row[i] /\ since'[i] = since[i]
  <2> SUFFICES ASSUME NEW t \in Scopes, phase[t] \in Active, t # s,
                      NEW i \in IdsOf[ScopeCall[t]], StagesRow(s, i)
               PROVE  FALSE
    BY <1>5
  <2>1. scope[ScopeCall[t]] = "open" /\ scope[ScopeCall[s]] = "open" /\ ScopeCall[s] # ScopeCall[t]
    BY <1>2 DEF ScopesAreLocked, Active
  <2>2. \A c \in Calls : scope[c] = "open" => \A j \in IdsOf[c] : holder[j] = c
    BY DEF LockInv, ScopeInCallback, CriticalHoldsKeys
  <2> QED BY <1>4, <2>1, <2>2
<1>7. TypeOK'
  BY <1>1, <1>5 DEF Commit, TypeOK, LockInv
<1>8. ScopesAreLocked' /\ WritesFollowScope' /\ StagedWrites'
  <2>1. ScopesAreLocked'
    BY <1>2 DEF ScopesAreLocked, Active
  <2>2. WritesFollowScope'
    <3>1. \A w \in WritesOf(s) : wr[w] \notin {"entered", "read"}
      BY DEF Commit, Drained, Tracked
    <3> QED BY <1>1, <1>2, <3>1 DEF WritesFollowScope, WritesOf, Active, Undecided
  <2>3. StagedWrites'
    BY <1>1, <1>2 DEF StagedWrites, WritesOf, Undecided
  <2> QED BY <2>1, <2>2, <2>3
<1>9. ViewOfScope'
  BY <1>1, <1>2 DEF ViewOfScope, StagesRow, Active
<1>10. SnapshotHeld'
  BY <1>2, <1>6 DEF SnapshotHeld, Active, Undecided
<1>11. DecidedOnSnapshot'
  BY <1>1, <1>2 DEF DecidedOnSnapshot, Undecided
<1>12. AppliedAfterCommit'
  <2>1. applied \subseteq Writes /\ \A w \in Staged(s) : WriteScope[w] = s
    BY <1>1 DEF TypeOK, StagedWrites, WritesOf
  <2> QED BY <1>1, <1>2, <2>1 DEF AppliedAfterCommit
<1>13. AllOrNothing'
  <2> SUFFICES ASSUME NEW t \in Scopes, WritesOf(t) \cap applied' # {}
               PROVE  Tracked(t) \subseteq applied' /\ work[t] = "value" /\ t \notin poisoned
    BY <1>2 DEF AllOrNothing, WritesOf, Tracked
  <2>1. CASE t = s
    BY <1>2, <1>3, <2>1
  <2>2. CASE t # s
    <3>1. WritesOf(t) \cap applied # {}
      BY <1>1, <1>2, <2>2 DEF StagedWrites, WritesOf
    <3> QED BY <1>2, <3>1 DEF AllOrNothing
  <2> QED BY <2>1, <2>2
<1>14. CommittedRowsStay'
  <2> SUFFICES ASSUME NEW t \in Scopes, phase'[t] = "confirming", NEW w \in Staged(t),
                      row'[WriteId[w]] # view[t][WriteId[w]]
               PROVE  row'[WriteId[w]] \in Puts \ {snap[t][WriteId[w]]}
    BY <1>1, <1>2 DEF CommittedRowsStay
  <2>1. CASE t = s
    <3>1. StagesRow(s, WriteId[w]) /\ WriteId[w] \in Ids
      BY <1>1, <2>1 DEF StagesRow
    <3> QED BY <1>5, <2>1, <3>1 DEF TypeOK
  <2>2. CASE t # s
    <3>1. phase[t] = "confirming" /\ w \in Writes /\ WriteId[w] \in IdsOf[ScopeCall[t]]
      BY <1>1, <1>2, <2>2 DEF StagedWrites, WritesFollowScope, WritesOf
    <3> QED BY <1>6, <2>2, <3>1 DEF CommittedRowsStay, Active
  <2> QED BY <2>1, <2>2
<1>15. RowsKnown'
  <2> SUFFICES ASSUME NEW i \in Ids
               PROVE  row'[i] \in since'[i] /\ (row'[i] \in Puts => row'[i] \in put)
    BY <1>2 DEF RowsKnown
  <2>1. CASE StagesRow(s, i)
    <3>1. view[s][i] \in Writes
      BY <1>1, <1>2, <2>1 DEF ViewOfScope, Active
    <3> QED BY <1>5, <2>1, <3>1
  <2>2. CASE ~StagesRow(s, i)
    BY <1>5, <2>2 DEF RowsKnown
  <2> QED BY <2>1, <2>2
<1> QED BY <1>7, <1>8, <1>9, <1>10, <1>11, <1>12, <1>13, <1>14, <1>15

(* A put: it was in no row and in no transaction before.                   *)
LEMMA ComposedCommitInv ==
  ASSUME TxInv, LockInv', NEW p \in Puts, ComposedCommit(p)
  PROVE  TxInv'
<1> USE ScopeTypes, ConstantTypes DEF TxInv
<1>1. \A t \in Scopes : Staged(t)' = Staged(t)
  BY DEF ComposedCommit, Staged
<1>2. /\ p \notin put /\ put' = put \cup {p}
      /\ \A i \in Ids : row'[i] = IF i = PutId[p] THEN p ELSE row[i]
      /\ \A i \in Ids : since'[i] = IF i = PutId[p] THEN since[i] \cup {p} ELSE since[i]
      /\ UNCHANGED <<phase, poisoned, work, wr, order, snap, view, basis, applied, scope>>
  BY DEF ComposedCommit, TypeOK, lockVars
<1>3. TypeOK'
  BY DEF ComposedCommit, TypeOK, LockInv
<1>4. ScopesAreLocked' /\ AppliedAfterCommit'
  BY <1>2 DEF ScopesAreLocked, AppliedAfterCommit
<1>5. WritesFollowScope' /\ StagedWrites' /\ ViewOfScope' /\ DecidedOnSnapshot'
  BY <1>1, <1>2 DEF WritesFollowScope, StagedWrites, ViewOfScope, DecidedOnSnapshot, StagesRow, WritesOf
<1>6. AllOrNothing'
  BY <1>2 DEF AllOrNothing, WritesOf, Tracked
<1>7. SnapshotHeld'
  BY <1>2 DEF SnapshotHeld
<1>8. CommittedRowsStay'
  <2> SUFFICES ASSUME NEW s \in Scopes, phase[s] = "confirming", NEW w \in Staged(s),
                      row'[WriteId[w]] # view[s][WriteId[w]]
               PROVE  row'[WriteId[w]] \in Puts \ {snap[s][WriteId[w]]}
    BY <1>1, <1>2 DEF CommittedRowsStay
  <2>1. WriteId[w] \in Ids
    BY StagedType
  <2>2. p # snap[s][WriteId[w]]
    BY <1>2, <2>1 DEF RowsKnown
  <2> QED BY <1>2, <2>1, <2>2 DEF CommittedRowsStay
<1>9. RowsKnown'
  BY <1>2 DEF RowsKnown
<1> QED BY <1>3, <1>4, <1>5, <1>6, <1>7, <1>8, <1>9

(* A confirmation: the row it reads is the committed one.                  *)
LEMMA ConfirmInv ==
  ASSUME TxInv, LockInv', NEW w \in Writes,
         NEW how \in {"confirmed", "mismatch", "unreadable", "unreturned"}, Confirm(w, how)
  PROVE  TxInv'
<1> USE ScopeTypes, ConstantTypes DEF TxInv
<1>1. \A t \in Scopes : Staged(t)' = Staged(t)
  BY DEF Confirm, Staged
<1>2. /\ scope' = scope
      /\ phase[WriteScope[w]] = "confirming" /\ wr[w] = "staged"
      /\ how = "mismatch" => row[WriteId[w]] # w
      /\ wr' = [wr EXCEPT ![w] = how]
      /\ UNCHANGED <<phase, poisoned, work, result, leftOpen, order, snap, view, basis, row, applied, put, since>>
  BY DEF Confirm, MarkOutcomeUnknown, lockVars
<1>3. \A x \in Writes : wr'[x] = IF x = w THEN how ELSE wr[x]
  BY <1>2 DEF TypeOK
<1>4. TypeOK'
  BY <1>2 DEF TypeOK, LockInv, WriteStates
<1>5. ScopesAreLocked'
  BY <1>2 DEF ScopesAreLocked
<1>6. WritesFollowScope'
  BY <1>1, <1>2, <1>3 DEF WritesFollowScope, Undecided
<1>7. StagedWrites'
  BY <1>1, <1>2, <1>3, StagedType DEF StagedWrites, WritesOf, Undecided
<1>8. ViewOfScope' /\ SnapshotHeld' /\ CommittedRowsStay'
  BY <1>1, <1>2 DEF ViewOfScope, SnapshotHeld, CommittedRowsStay, StagesRow
<1>9. DecidedOnSnapshot' /\ AppliedAfterCommit'
  BY <1>1, <1>2, <1>3 DEF DecidedOnSnapshot, AppliedAfterCommit
<1>10. AllOrNothing'
  <2>1. \A t \in Scopes : Tracked(t)' = Tracked(t)
    BY <1>2, <1>3 DEF Tracked, WritesOf
  <2> QED BY <1>2, <2>1 DEF AllOrNothing, WritesOf
<1>11. RowsKnown'
  BY <1>2 DEF RowsKnown
<1> QED BY <1>4, <1>5, <1>6, <1>7, <1>8, <1>9, <1>10, <1>11

(* A restart closes every scope that was opened and drops every write that *)
(* was waiting.                                                            *)
LEMMA RestartProcessInv ==
  ASSUME TxInv, LockInv', RestartProcess
  PROVE  TxInv'
<1> USE ScopeTypes, ConstantTypes DEF TxInv
<1>1. \A t \in Scopes : Staged(t)' = {}
  BY DEF RestartProcess, Staged
<1>2. TypeOK'
  BY DEF RestartProcess, TypeOK, LockInv, WriteStates
<1>3. /\ \A t \in Scopes : phase'[t] = IF phase[t] = "unused" THEN "unused" ELSE "closed"
      /\ \A x \in Writes : wr'[x] = IF wr[x] \in {"entered", "read", "staged"} THEN "dropped" ELSE wr[x]
      /\ \A t \in Scopes : snap'[t] = NoRows
      /\ UNCHANGED <<poisoned, work, basis, row, applied, put, since>>
  BY DEF RestartProcess
<1>4. \A t \in Scopes : phase'[t] \notin Active /\ phase'[t] \notin Undecided /\ phase'[t] # "confirming"
  BY <1>3 DEF Active, Undecided
<1>5. ScopesAreLocked' /\ ViewOfScope' /\ SnapshotHeld' /\ DecidedOnSnapshot' /\ CommittedRowsStay'
  BY <1>3, <1>4
     DEF ScopesAreLocked, ViewOfScope, SnapshotHeld, DecidedOnSnapshot, CommittedRowsStay, Undecided
<1>6. WritesFollowScope'
  BY <1>1, <1>3, <1>4 DEF WritesFollowScope
<1>7. StagedWrites'
  BY <1>1 DEF StagedWrites
<1>8. AppliedAfterCommit' /\ RowsKnown'
  BY <1>3 DEF AppliedAfterCommit, RowsKnown, TypeOK
<1>9. AllOrNothing'
  <2>1. \A t \in Scopes : Tracked(t)' = Tracked(t)
    BY <1>3 DEF Tracked, WritesOf
  <2> QED BY <1>3, <2>1 DEF AllOrNothing, WritesOf
<1> QED BY <1>2, <1>5, <1>6, <1>7, <1>8, <1>9

(* Every step preserves the invariant.                                     *)
LEMMA TxStepInv == TxInv /\ [Next]_vars => TxInv'
<1> SUFFICES ASSUME TxInv, [Next]_vars PROVE TxInv'
  OBVIOUS
<1>1. LockInv'
  BY LockStepInv, NextIsLockStep DEF TxInv
<1>2. ASSUME NEW c \in Calls, LockStep(c) PROVE TxInv'
  <2>1. UNCHANGED <<txVars, scope>>
    BY <1>2 DEF LockStep, Invoke, BeginAttempt, TryKey, Revoke, Unlock
  <2>2. TypeOK'
    BY <1>1, <2>1 DEF TxInv, TypeOK, LockInv, txVars
  <2> QED BY <1>1, <2>1, <2>2, QuietStepInv DEF txVars
<1>3. ASSUME NEW c \in Calls, NEW ok \in BOOLEAN, SettleCallback(c, ok) PROVE TxInv'
  <2>1. /\ UNCHANGED <<phase, poisoned, work, result, wr, order, snap, view, basis, row, applied, put, since, scope>>
        /\ leftOpen' \subseteq leftOpen \cup Scopes
    BY <1>3 DEF SettleCallback, CallbackSettles
  <2>2. TypeOK'
    BY <1>1, <2>1 DEF TxInv, TypeOK, LockInv
  <2> QED BY <1>1, <2>1, <2>2, QuietStepInv
<1>4. ASSUME NEW s \in Scopes, OpenScope(s) PROVE TxInv'
  BY <1>1, <1>4, OpenScopeInv
<1>5. ASSUME NEW s \in Scopes, ScopeStep(s) PROVE TxInv'
  BY <1>1, <1>5, WorkSettlesInv, EndUncommittedInv, CommitInv, FinishInv DEF ScopeStep
<1>6. ASSUME NEW w \in Writes, EnterWrite(w) \/ WriteStep(w) PROVE TxInv'
  BY <1>1, <1>6, EnterWriteInv, ReadRowInv, StageInv, EndUnstagedInv, ConfirmInv DEF WriteStep
<1>7. CASE RestartProcess
  BY <1>1, <1>7, RestartProcessInv
<1>8. CASE UNCHANGED vars
  <2>1. UNCHANGED <<txVars, lockVars>>
    BY <1>8 DEF vars
  <2>2. TypeOK'
    BY <1>1, <2>1 DEF TxInv, TypeOK, LockInv, txVars
  <2> QED BY <1>1, <2>1, <2>2, QuietStepInv DEF txVars, lockVars
<1>9. ASSUME NEW p \in Puts, ComposedCommit(p) PROVE TxInv'
  BY <1>1, <1>9, ComposedCommitInv
<1> QED BY <1>2, <1>3, <1>4, <1>5, <1>6, <1>7, <1>8, <1>9 DEF Next

(* The invariant holds in every reachable state.                           *)
THEOREM TxInvariant == Spec => []TxInv
<1>1. Init => TxInv
  BY TxInitInv
<1>2. TxInv /\ [Next]_vars => TxInv'
  BY TxStepInv
<1> QED BY <1>1, <1>2, PTL DEF Spec

(* The state of locks, scopes, writes and rows is always well typed.       *)
THEOREM TypeCorrect == Spec => []TypeOK
<1>1. TxInv => TypeOK
  BY DEF TxInv
<1> QED BY <1>1, TxInvariant, PTL

(* A scope stores all of the writes it admitted, or none of them.          *)
THEOREM ScopesAreAllOrNothing == Spec => []AllOrNothing
<1>1. TxInv => AllOrNothing
  BY DEF TxInv
<1> QED BY <1>1, TxInvariant, PTL

(* After its commit a checked write is refused as changed only over a row  *)
(* its own scope wrote again, or over a put that committed since the       *)
(* scope's transaction began: never over another locked call's write.      *)
THEOREM MismatchesHaveCauses == Spec => MismatchHasCause
<1> DEFINE Caused == \A w \in Writes :
      LET s == WriteScope[w] i == WriteId[w] IN
      wr[w] # "mismatch" /\ wr'[w] = "mismatch" =>
        row[i] \in (Staged(s) \ {w}) \cup (Puts \ {snap[s][i]})
<1>1. TxInv /\ [Next]_vars => [Caused]_vars
  <2> SUFFICES ASSUME TxInv, [Next]_vars, NEW w \in Writes, wr[w] # "mismatch", wr'[w] = "mismatch"
               PROVE  row[WriteId[w]] \in (Staged(WriteScope[w]) \ {w})
                        \cup (Puts \ {snap[WriteScope[w]][WriteId[w]]})
    OBVIOUS
  <2> USE ScopeTypes DEF TxInv
  <2>1. Confirm(w, "mismatch")
    <3>1. ASSUME NEW x \in Writes, EnterWrite(x) \/ WriteStep(x) PROVE Confirm(w, "mismatch")
      <4>1. ASSUME NEW how \in {"entered", "denied", "read", "staged", "refused", "rejected"},
                   wr' = [wr EXCEPT ![x] = how]
            PROVE  FALSE
        BY <4>1 DEF TypeOK
      <4>2. ASSUME NEW how \in {"confirmed", "mismatch", "unreadable", "unreturned"}, Confirm(x, how)
            PROVE  Confirm(w, "mismatch")
        <5>1. wr' = [wr EXCEPT ![x] = how]
          BY <4>2 DEF Confirm
        <5>2. x = w /\ how = "mismatch"
          BY <5>1 DEF TypeOK
        <5> QED BY <4>2, <5>2
      <4>3. CASE EnterWrite(x)
        BY <4>1, <4>3 DEF EnterWrite
      <4>4. CASE ReadRow(x) \/ Stage(x)
        BY <4>1, <4>4 DEF ReadRow, Stage
      <4>5. ASSUME NEW how \in {"refused", "rejected"}, EndUnstaged(x, how) PROVE FALSE
        BY <4>1, <4>5 DEF EndUnstaged
      <4> QED BY <3>1, <4>2, <4>3, <4>4, <4>5 DEF WriteStep
    <3>2. ASSUME NEW s \in Scopes, OpenScope(s) \/ ScopeStep(s) PROVE FALSE
      <4>1. CASE OpenScope(s)
        BY <4>1 DEF OpenScope
      <4>2. ASSUME NEW how, WorkSettles(s, how) PROVE FALSE
        BY <4>2 DEF WorkSettles
      <4>3. ASSUME NEW how, EndUncommitted(s, how) PROVE FALSE
        BY <4>3 DEF EndUncommitted
      <4>4. CASE Commit(s)
        BY <4>4 DEF Commit
      <4>5. CASE Finish(s)
        BY <4>5 DEF Finish
      <4> QED BY <3>2, <4>1, <4>2, <4>3, <4>4, <4>5 DEF ScopeStep, Abort, CommitFails
    <3>3. ASSUME NEW c \in Calls, LockStep(c) \/ \E ok \in BOOLEAN : SettleCallback(c, ok) PROVE FALSE
      BY <3>3 DEF LockStep, SettleCallback, txVars
    <3>4. CASE RestartProcess
      BY <3>4 DEF RestartProcess, TypeOK
    <3>5. CASE UNCHANGED vars
      BY <3>5 DEF vars, txVars
    <3>6. ASSUME NEW p \in Puts, ComposedCommit(p) PROVE FALSE
      BY <3>6 DEF ComposedCommit
    <3> QED BY <3>1, <3>2, <3>3, <3>4, <3>5, <3>6 DEF Next
  <2>2. /\ phase[WriteScope[w]] = "confirming" /\ wr[w] = "staged"
        /\ row[WriteId[w]] # w
    BY <2>1 DEF Confirm
  <2>3. w \in Staged(WriteScope[w]) /\ StagesRow(WriteScope[w], WriteId[w])
    BY <2>2 DEF WritesFollowScope, StagesRow
  <2>4. view[WriteScope[w]][WriteId[w]] \in Staged(WriteScope[w])
    BY <2>2, <2>3 DEF ViewOfScope, Active
  <2> QED BY <2>2, <2>3, <2>4 DEF CommittedRowsStay
<1> QED BY <1>1, TxInvariant, PTL DEF Spec, MismatchHasCause

(* What a commit does to the rows, given the invariant.                    *)
LEMMA CommitEffect ==
  ASSUME TxInv, NEW s \in Scopes, Commit(s)
  PROVE  /\ Staged(s) \subseteq WritesOf(s)
         /\ \A w \in Staged(s) : wr[w] = "staged" /\ WriteId[w] \in IdsOf[ScopeCall[s]]
         /\ \A i \in IdsOf[ScopeCall[s]] : holder[i] = ScopeCall[s]
         /\ \A i \in Ids :
              IF StagesRow(s, i)
                THEN /\ \/ row'[i] \in Staged(s) /\ WriteId[row'[i]] = i
                        \/ row'[i] = row[i] /\ row[i] # snap[s][i] /\ row[i] \in put
                     /\ since'[i] = {row'[i]}
                ELSE row'[i] = row[i] /\ since'[i] = since[i]
         /\ phase[s] = "draining"
<1> USE ScopeTypes, ConstantTypes DEF TxInv
<1>1. phase[s] = "draining" /\ Staged(s) \subseteq Writes
  BY StagedType DEF Commit, Drained
<1>2. /\ Staged(s) \subseteq WritesOf(s)
      /\ \A w \in Staged(s) : wr[w] = "staged" /\ WriteId[w] \in IdsOf[ScopeCall[s]]
  BY <1>1 DEF StagedWrites, WritesFollowScope, WritesOf, Undecided
<1>3. \A i \in IdsOf[ScopeCall[s]] : holder[i] = ScopeCall[s]
  <2>1. scope[ScopeCall[s]] = "open"
    BY <1>1 DEF ScopesAreLocked, Active
  <2> QED BY <2>1 DEF LockInv, ScopeInCallback, CriticalHoldsKeys
<1>4. \A i \in Ids : StagesRow(s, i) => view[s][i] \in Staged(s) /\ WriteId[view[s][i]] = i
  BY <1>1 DEF ViewOfScope, Active
<1>5. /\ \A i \in Ids : StagesRow(s, i) =>
           \/ row'[i] = view[s][i]
           \/ row'[i] = row[i] /\ row[i] # snap[s][i] /\ row[i] \in put
      /\ \A i \in Ids : since'[i] = IF StagesRow(s, i) THEN {row'[i]} ELSE since[i]
      /\ \A i \in Ids : ~StagesRow(s, i) => row'[i] = row[i]
  BY <1>1, StoresEffect DEF Commit
<1> QED BY <1>1, <1>2, <1>3, <1>4, <1>5

(* Only a commit and a put change the rows, only a commit the set of       *)
(* applied writes, and the decision of an applied write never changes.     *)
LEMMA OnlyCommitApplies ==
  ASSUME TxInv, [Next]_vars, ~ \E s \in Scopes : Commit(s), ~ \E p \in Puts : ComposedCommit(p)
  PROVE  UNCHANGED <<row, applied, put, since>> /\ \A w \in applied : basis'[w] = basis[w]
<1> USE ScopeTypes DEF TxInv
<1>1. ASSUME NEW w \in Writes, ReadRow(w)
      PROVE  UNCHANGED <<row, applied, put, since>> /\ \A x \in applied : basis'[x] = basis[x]
  <2>1. w \notin applied
    BY <1>1 DEF ReadRow, WritesFollowScope, AppliedAfterCommit, Undecided
  <2> QED BY <1>1, <2>1 DEF ReadRow, TypeOK
<1>2. CASE \E w \in Writes : ReadRow(w)
  BY <1>1, <1>2
<1>3. CASE ~ \E w \in Writes : ReadRow(w)
  <2>1. UNCHANGED <<row, applied, basis, put, since>>
    BY <1>3 DEF Next, vars, txVars, LockStep, SettleCallback, OpenScope, ScopeStep, WorkSettles, Abort,
             CommitFails, EndUncommitted, Finish, EnterWrite, WriteStep, Stage, EndUnstaged,
             Confirm, RestartProcess
  <2> QED BY <2>1
<1> QED BY <1>2, <1>3

(* A checked write is stored only under its row's key, held by the call    *)
(* whose scope commits it.                                                 *)
THEOREM RowsChangeUnderKeys == Spec => CommitUnderKeys
<1> DEFINE Keyed == \A i \in Ids :
      row'[i] # row[i] /\ row'[i] \notin Puts =>
        /\ row'[i] \in Writes
        /\ holder[i] = ScopeCall[WriteScope[row'[i]]]
<1>1. TxInv /\ [Next]_vars => [Keyed]_vars
  <2> SUFFICES ASSUME TxInv, [Next]_vars, NEW i \in Ids, row'[i] # row[i], row'[i] \notin Puts
               PROVE  row'[i] \in Writes /\ holder[i] = ScopeCall[WriteScope[row'[i]]]
    OBVIOUS
  <2>1. ~ \E p \in Puts : ComposedCommit(p)
    BY DEF ComposedCommit, TxInv, TypeOK
  <2>2. PICK s \in Scopes : Commit(s)
    BY <2>1, OnlyCommitApplies
  <2>3. row'[i] \in Staged(s) /\ WriteId[row'[i]] = i
    BY <2>2, CommitEffect
  <2> QED BY <2>2, <2>3, CommitEffect DEF WritesOf
<1> QED BY <1>1, TxInvariant, PTL DEF Spec, CommitUnderKeys

(* The locked scopes implement AtomicMemory: each commit is one Apply of   *)
(* the scope's staged writes, each put a Put, every other step a stutter.  *)
THEOREM LockedScopesAreAtomic == Spec => ImplementsAtomicMemory
<1> USE ScopeTypes
<1> DEFINE decided == [w \in Writes |-> IF w \in applied THEN basis[w] ELSE Fresh]
<1>1. Init => Atomic!Init
  BY DEF Init, Atomic!Init
<1>2. TxInv /\ TxInv' /\ [Next]_vars => [Atomic!Next]_<<row, applied, decided, put, since>>
  <2> SUFFICES ASSUME TxInv, TxInv', [Next]_vars
               PROVE  Atomic!Next \/ UNCHANGED <<row, applied, decided, put, since>>
    OBVIOUS
  <2>1. CASE ~ (\E s \in Scopes : Commit(s)) /\ ~ (\E p \in Puts : ComposedCommit(p))
    BY <2>1, OnlyCommitApplies
  <2>2. ASSUME NEW s \in Scopes, Commit(s), NEW W \in SUBSET Writes, W = Staged(s)
        PROVE  Atomic!Apply(W)
    <3>1. /\ Staged(s) \subseteq WritesOf(s) /\ phase[s] = "draining"
          /\ \A w \in Staged(s) : wr[w] = "staged" /\ WriteId[w] \in IdsOf[ScopeCall[s]]
      BY <2>2, CommitEffect
    <3>2. Staged(s) \cap applied = {}
      BY <3>1 DEF TxInv, AppliedAfterCommit, WritesOf
    <3>3. applied' = applied \cup Staged(s) /\ basis' = basis /\ put' = put
      BY <2>2 DEF Commit
    <3>4. ASSUME NEW w \in Staged(s)
          PROVE  /\ decided'[w] = basis[w]
                 /\ basis[w] = snap[s][WriteId[w]] \/ basis[w] \in Staged(s)
                 /\ snap[s][WriteId[w]] \in since[WriteId[w]]
      BY <3>1, <3>3 DEF TxInv, DecidedOnSnapshot, SnapshotHeld, WritesOf, Undecided
    <3>5. ASSUME NEW i \in Ids, \E w \in Staged(s) : WriteId[w] = i
          PROVE  Atomic!Replace(Staged(s), i)
      <4>1. /\ \/ row'[i] \in Staged(s) /\ WriteId[row'[i]] = i
               \/ row'[i] = row[i] /\ row[i] # snap[s][i] /\ row[i] \in put
            /\ since'[i] = {row'[i]}
        BY <2>2, <3>5, CommitEffect DEF StagesRow
      <4>2. row[i] \in put => row[i] \notin Staged(s)
        BY <3>1 DEF TxInv, TypeOK, WritesOf
      <4> QED BY <3>4, <4>1, <4>2 DEF Atomic!Replace
    <3>6. ASSUME NEW i \in Ids, ~ \E w \in Staged(s) : WriteId[w] = i
          PROVE  row'[i] = row[i] /\ since'[i] = since[i]
      BY <2>2, <3>6, CommitEffect DEF StagesRow
    <3>7. \A w \in Writes \ Staged(s) : decided'[w] = decided[w]
      BY <3>3
    <3>8. /\ row' \in [Ids -> Values] /\ since' \in [Ids -> SUBSET Values]
          /\ decided' \in [Writes -> Values]
      BY DEF TxInv, TypeOK
    <3>9. Values = Atomic!Values
      BY DEF Values, Atomic!Values
    <3> QED BY <2>2, <3>2, <3>3, <3>4, <3>5, <3>6, <3>7, <3>8, <3>9 DEF Atomic!Apply
  <2>3. ASSUME NEW s \in Scopes PROVE Staged(s) \in SUBSET Writes
    BY StagedType DEF TxInv
  <2>4. ASSUME NEW s \in Scopes, Commit(s) PROVE Atomic!Next
    <3>1. PICK W \in SUBSET Writes : W = Staged(s)
      BY <2>3
    <3>2. Atomic!Apply(W)
      BY <2>2, <2>4, <3>1
    <3> QED BY <3>2 DEF Atomic!Next
  <2>5. ASSUME NEW p \in Puts, ComposedCommit(p) PROVE Atomic!Next
    <3>1. Atomic!Put(p)
      BY <2>5 DEF ComposedCommit, Atomic!Put
    <3> QED BY <3>1 DEF Atomic!Next
  <2> QED BY <2>1, <2>4, <2>5
<1> QED BY <1>1, <1>2, TxInvariant, PTL DEF Spec, ImplementsAtomicMemory, Atomic!Spec

-----------------------------------------------------------------------------
(* A call that answered `done` has nothing against it, and what a scope    *)
(* left open by its callback ended with is not lost: until the call has    *)
(* answered, a scope that did not end committed is held against it.        *)
FailureIsKept ==
  /\ \A c \in Calls : answer[c] = "done" => pc[c] = "returned" /\ c \notin failing
  /\ \A s \in leftOpen :
       /\ phase[s] # "unused"
       /\ pc[ScopeCall[s]] \in {"settling", "revoked", "returned", "lost"}
       /\ phase[s] = "closed" /\ result[s] # "committed" =>
            ScopeCall[s] \in failing \/ pc[ScopeCall[s]] = "lost"

(* An active scope's call runs its callback or waits for the scope.        *)
LEMMA ActiveInCallback ==
  ASSUME TxInv, NEW s \in Scopes, phase[s] \in Active
  PROVE  pc[ScopeCall[s]] \in {"running", "settling"}
BY ScopeTypes DEF TxInv, ScopesAreLocked, LockInv, ScopeInCallback

(* Once a scope is unawaited, a failure to commit is held against its call *)
(* by the settlement itself.                                               *)
LEMMA SettleScopeKept ==
  ASSUME TxInv, FailureIsKept, NEW s \in Scopes, NEW how \in {"committed", "refused", "threw"},
         phase[s] \in Active, phase' = [phase EXCEPT ![s] = "closed"],
         result' = [result EXCEPT ![s] = how], leftOpen' = leftOpen,
         SettleScope(ScopeCall[s], how = "committed")
  PROVE  FailureIsKept'
<1> USE ScopeTypes DEF TxInv, FailureIsKept
<1>1. pc[ScopeCall[s]] \in {"running", "settling"}
  BY ActiveInCallback
<1>2. /\ pc' = pc /\ answer' = answer /\ failing \subseteq failing' /\ failing' \subseteq failing \cup {ScopeCall[s]}
      /\ pc[ScopeCall[s]] = "settling" /\ how # "committed" => ScopeCall[s] \in failing'
  BY DEF SettleScope
<1>3. ASSUME NEW c \in Calls, answer[c] = "done" PROVE pc'[c] = "returned" /\ c \notin failing'
  BY <1>1, <1>2, <1>3
<1>4. ASSUME NEW t \in leftOpen
      PROVE  /\ phase'[t] # "unused"
             /\ pc'[ScopeCall[t]] \in {"settling", "revoked", "returned", "lost"}
             /\ phase'[t] = "closed" /\ result'[t] # "committed" =>
                  ScopeCall[t] \in failing' \/ pc'[ScopeCall[t]] = "lost"
  BY <1>1, <1>2, <1>4 DEF TypeOK
<1> QED BY <1>2, <1>3, <1>4

(* Every step keeps what is held against a call.                           *)
LEMMA FailureIsKeptStep ==
  ASSUME TxInv, FailureIsKept, [Next]_vars PROVE FailureIsKept'
<1> USE ScopeTypes, ConstantTypes DEF TxInv, FailureIsKept
<1> LockTypeOK /\ leftOpen \subseteq Scopes /\ phase \in [Scopes -> {"unused", "open", "draining", "confirming", "closed"}]
  BY DEF TypeOK
<1>1. ASSUME NEW c \in Calls, LockStep(c) PROVE FailureIsKept'
  <2>1. UNCHANGED <<phase, result, leftOpen, failing>>
    BY <1>1 DEF LockStep, txVars, Invoke, BeginAttempt, TryKey, Revoke, Unlock
  <2>2. CASE Invoke(c) \/ BeginAttempt(c)
    BY <2>1, <2>2 DEF Invoke, BeginAttempt, Return, LockTypeOK
  <2>3. CASE TryKey(c)
    <3>1. \/ pc' = pc /\ answer' = answer
          \/ pc' = [pc EXCEPT ![c] = "running"] /\ answer' = answer
          \/ pc' = [pc EXCEPT ![c] = "ready"] /\ answer' = answer
          \/ pc' = [pc EXCEPT ![c] = "returned"] /\ answer' = [answer EXCEPT ![c] = "busy"]
      BY <2>3 DEF TryKey, Return
    <3>2. pc[c] = "locking"
      BY <2>3 DEF TryKey
    <3> QED BY <2>1, <3>1, <3>2 DEF LockTypeOK
  <2>4. CASE Revoke(c)
    BY <2>1, <2>4 DEF Revoke, LockTypeOK
  <2>5. CASE Unlock(c)
    BY <2>1, <2>5 DEF Unlock, Return, LockTypeOK
  <2> QED BY <1>1, <2>2, <2>3, <2>4, <2>5 DEF LockStep
<1>2. ASSUME NEW c \in Calls, NEW ok \in BOOLEAN, SettleCallback(c, ok) PROVE FailureIsKept'
  BY <1>2 DEF SettleCallback, CallbackSettles, LockTypeOK
<1>3. ASSUME NEW s \in Scopes, OpenScope(s) PROVE FailureIsKept'
  BY <1>3 DEF OpenScope, AdmitScope
<1>4. ASSUME NEW s \in Scopes, ScopeStep(s) PROVE FailureIsKept'
  <2>1. ASSUME NEW how \in {"value", "refused", "threw"}, WorkSettles(s, how) PROVE FailureIsKept'
    BY <2>1 DEF WorkSettles, lockVars
  <2>2. CASE Abort(s) \/ CommitFails(s)
    <3>1. PICK how \in {"refused", "threw"} : EndUncommitted(s, how)
      BY <2>2 DEF Abort, CommitFails
    <3>2. phase[s] \in Active
      BY <2>2 DEF Abort, CommitFails, Drained, Active
    <3>3. SettleScope(ScopeCall[s], how = "committed")
      <4>1. (how = "committed") = FALSE
        OBVIOUS
      <4> QED BY <3>1, <4>1 DEF EndUncommitted
    <3> QED BY <3>1, <3>2, <3>3, SettleScopeKept DEF EndUncommitted
  <2>3. CASE Commit(s)
    BY <2>3 DEF Commit, lockVars
  <2>4. CASE Finish(s)
    <3>1. PICK how \in {"committed", "refused", "threw"} :
            /\ phase' = [phase EXCEPT ![s] = "closed"] /\ result' = [result EXCEPT ![s] = how]
            /\ SettleScope(ScopeCall[s], how = "committed") /\ leftOpen' = leftOpen
      BY <2>4 DEF Finish
    <3>2. phase[s] \in Active
      BY <2>4 DEF Finish, Active
    <3> QED BY <3>1, <3>2, SettleScopeKept
  <2> QED BY <1>4, <2>1, <2>2, <2>3, <2>4 DEF ScopeStep
<1>5. ASSUME NEW w \in Writes, EnterWrite(w) \/ WriteStep(w) PROVE FailureIsKept'
  <2>1. UNCHANGED <<phase, result, leftOpen, failing, pc, answer>>
    BY <1>5 DEF EnterWrite, WriteStep, ReadRow, Stage, EndUnstaged, Confirm, MarkOutcomeUnknown, lockVars
  <2> QED BY <2>1
<1>6. CASE RestartProcess
  <2>1. /\ leftOpen' = leftOpen /\ failing' = failing /\ answer' = answer
        /\ pc' = [c \in Calls |-> IF pc[c] \in {"idle", "returned"} THEN pc[c] ELSE "lost"]
        /\ phase' = [s \in Scopes |-> IF phase[s] = "unused" THEN "unused" ELSE "closed"]
        /\ result' = [s \in Scopes |-> IF phase[s] \in {"unused", "closed"} THEN result[s] ELSE "lost"]
    BY <1>6 DEF RestartProcess, Restart
  <2>2. ASSUME NEW s \in leftOpen, pc[ScopeCall[s]] = "returned" PROVE phase[s] = "closed"
    BY <2>2, ActiveInCallback DEF Active
  <2> QED BY <2>1, <2>2
<1>7. CASE UNCHANGED vars
  BY <1>7 DEF vars, lockVars, txVars
<1>8. ASSUME NEW p \in Puts, ComposedCommit(p) PROVE FailureIsKept'
  BY <1>8 DEF ComposedCommit, lockVars
<1> QED BY <1>1, <1>2, <1>3, <1>4, <1>5, <1>6, <1>7, <1>8 DEF Next

(* withMemoryWriteLock never answers `done` over a scope its callback left *)
(* open and that was then refused, failed or was only half confirmed.      *)
THEOREM UnawaitedFailuresSurface == Spec => []UnawaitedFailureSurfaces
<1>1. Init => FailureIsKept
  BY DEF Init, LockInit, FailureIsKept
<1>2. TxInv /\ FailureIsKept => UnawaitedFailureSurfaces
  <2> SUFFICES ASSUME TxInv, FailureIsKept, NEW s \in leftOpen, answer[ScopeCall[s]] = "done"
               PROVE  result[s] = "committed"
    BY DEF UnawaitedFailureSurfaces
  <2>1. s \in Scopes /\ ScopeCall[s] \in Calls
    BY ScopeTypes DEF TxInv, TypeOK
  <2>2. pc[ScopeCall[s]] = "returned" /\ ScopeCall[s] \notin failing
    BY <2>1 DEF FailureIsKept
  <2>3. phase[s] = "closed"
    <3>1. phase[s] \in {"unused", "open", "draining", "confirming", "closed"} /\ phase[s] # "unused"
      BY <2>1 DEF TxInv, TypeOK, FailureIsKept
    <3>2. phase[s] \notin Active
      BY <2>1, <2>2, ActiveInCallback
    <3> QED BY <3>1, <3>2 DEF Active
  <2> QED BY <2>2, <2>3 DEF FailureIsKept
<1>3. TxInv /\ FailureIsKept /\ [Next]_vars => FailureIsKept'
  BY FailureIsKeptStep
<1> QED BY <1>1, <1>2, <1>3, TxInvariant, PTL DEF Spec
=============================================================================
