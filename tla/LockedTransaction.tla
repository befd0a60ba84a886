-------------------------- MODULE LockedTransaction --------------------------
(***************************************************************************)
(* The locked transaction scope of resources/memory-write-transaction.ts,  *)
(* composed with the per-id lock it runs under.                            *)
(*                                                                         *)
(* A SCOPE is one invocation of withLockedMemoryTransaction on the token   *)
(* of a lock call.  It owns one Harper transaction.  A WRITE is one        *)
(* checked write (putMemoryWithLock / patchMemoryWithLock) made with some  *)
(* token and some scope handle, at any moment: the scope may have moved on *)
(* or the token may belong to another call.  An admitted write reads its   *)
(* row in the transaction, stages it and waits; when `work` has settled    *)
(* and every admitted write is drained, the scope aborts or commits, and   *)
(* after a commit resumes each staged write, in staging order, for its     *)
(* confirmation.                                                           *)
(*                                                                         *)
(* A PUT stands for the writers the lock does not hold back: a put that is *)
(* composed into its caller's transaction commits after its key is         *)
(* released, and other Memory writers do not take the lock yet.            *)
(***************************************************************************)
EXTENDS MemoryWriteLock, Sequences

CONSTANTS
  Scopes,      \* invocations of withLockedMemoryTransaction
  Writes,      \* invocations of a checked write
  ScopeCall,   \* the lock call whose token a scope is opened on
  WriteScope,  \* the scope handle a write is made with
  WriteToken,  \* the lock call whose token a write is made with
  WriteId,     \* the row a write lands on
  Puts,        \* commits of Memory rows outside the lock
  PutId,       \* the row such a commit lands on
  Fresh        \* the row as it was before any of these writes

ASSUME ScopesAssumption ==
  /\ ScopeCall \in [Scopes -> Calls]
  /\ WriteScope \in [Writes -> Scopes]
  /\ WriteToken \in [Writes -> Calls]
  /\ WriteId \in [Writes -> Ids]
  /\ PutId \in [Puts -> Ids]
  /\ Writes \cap Puts = {} /\ Fresh \notin Writes \cup Puts

VARIABLES
  phase,     \* ScopeState.phase, with "confirming" once committed
  poisoned,  \* scopes whose `failure` is set
  work,      \* how each scope's `work` settled
  result,    \* what each scope answered
  leftOpen,  \* history: scopes still open when their callback settled
  wr,        \* where each write is
  order,     \* the staged writes of each scope, in staging order
  snap,      \* the rows as the scope's transaction found them
  view,      \* the rows as that transaction reads them, its own staged ones included
  basis,     \* the row each write was decided on
  row,       \* the committed Memory rows: the write or put each holds, or Fresh
  applied,   \* history: the writes whose transaction was committed
  put,       \* the puts that were committed
  since      \* history: what each row has held since a scope last committed it

txVars == <<phase, poisoned, work, result, leftOpen, wr, order, snap, view, basis, row, applied, put, since>>
vars == <<lockVars, txVars>>

WritesOf(s) == {w \in Writes : WriteScope[w] = s}
Tracked(s) == {w \in WritesOf(s) : wr[w] \notin {"unused", "denied"}}
Staged(s) == {order[s][k] : k \in 1 .. Len(order[s])}
StagesRow(s, i) == \E w \in Staged(s) : WriteId[w] = i
Values == Writes \cup Puts \cup {Fresh}
NoRows == [i \in Ids |-> Fresh]

-----------------------------------------------------------------------------
Init ==
  /\ LockInit
  /\ phase = [s \in Scopes |-> "unused"]
  /\ poisoned = {}
  /\ work = [s \in Scopes |-> "pending"]
  /\ result = [s \in Scopes |-> "none"]
  /\ leftOpen = {}
  /\ wr = [w \in Writes |-> "unused"]
  /\ order = [s \in Scopes |-> <<>>]
  /\ snap = [s \in Scopes |-> NoRows]
  /\ view = snap
  /\ basis = [w \in Writes |-> Fresh]
  /\ row = [i \in Ids |-> Fresh]
  /\ applied = {}
  /\ put = {}
  /\ since = [i \in Ids |-> {Fresh}]

(* Mutant: the transaction reads a snapshot cached before the lock.        *)
OpenScopeOnOldSnapshot(s) ==
  /\ phase[s] = "unused"
  /\ AdmitScope(ScopeCall[s])
  /\ phase' = [phase EXCEPT ![s] = "open"]
  /\ UNCHANGED <<poisoned, work, result, leftOpen, wr, order, snap, view, basis, row, applied, put, since>>

(* withLockedMemoryTransaction: admission by the lock, then a fresh owned  *)
(* transaction.  acquire() dropped the thread's cached read snapshot, so   *)
(* the transaction reads the rows as committed now.                        *)
OpenScope(s) ==
  /\ phase[s] = "unused"
  /\ AdmitScope(ScopeCall[s])
  /\ phase' = [phase EXCEPT ![s] = "open"]
  /\ snap' = [snap EXCEPT ![s] = row]
  /\ view' = [view EXCEPT ![s] = row]
  /\ UNCHANGED <<poisoned, work, result, leftOpen, wr, order, basis, row, applied, put, since>>

(* Mutant: the token's ids are not compared with the row written.          *)
AdmissibleUncovered(w) ==
  /\ token[WriteToken[w]] = "live"
  /\ ScopeCall[WriteScope[w]] = WriteToken[w]
  /\ phase[WriteScope[w]] = "open"

(* admitLockedMemoryWrite's checks: the token is live and covers the row,  *)
(* the scope belongs to the token's acquisition and still admits writes.   *)
Admissible(w) ==
  /\ token[WriteToken[w]] = "live"
  /\ WriteId[w] \in IdsOf[WriteToken[w]]
  /\ ScopeCall[WriteScope[w]] = WriteToken[w]
  /\ phase[WriteScope[w]] = "open"

(* A refused admission inside an open scope also aborts that scope.        *)
EnterWrite(w) ==
  /\ wr[w] = "unused" /\ phase[WriteScope[w]] # "unused"
  /\ LoopFree(ScopeCall[WriteScope[w]])
  /\ wr' = [wr EXCEPT ![w] = IF Admissible(w) THEN "entered" ELSE "denied"]
  /\ poisoned' = IF ~Admissible(w) /\ phase[WriteScope[w]] = "open"
                   THEN poisoned \cup {WriteScope[w]} ELSE poisoned
  /\ UNCHANGED <<lockVars, phase, work, result, leftOpen, order, snap, view, basis, row, applied, put, since>>

(* The body's authoritative read, in the scope's transaction.              *)
ReadRow(w) ==
  LET s == WriteScope[w] IN
  /\ wr[w] = "entered" /\ LoopFree(ScopeCall[s])
  /\ wr' = [wr EXCEPT ![w] = "read"]
  /\ basis' = [basis EXCEPT ![w] = view[s][WriteId[w]]]
  /\ UNCHANGED <<lockVars, phase, poisoned, work, result, leftOpen, order, snap, view, row, applied, put, since>>

(* stage(): the row is staged, the write settles as staged and its body    *)
(* waits at its gate.  A PUT re-reads the committed row first and refuses  *)
(* when its identity changed (EndUnstaged); a PATCH does not, so nothing   *)
(* here depends on that re-read.                                           *)
Stage(w) ==
  LET s == WriteScope[w] IN
  /\ wr[w] = "read" /\ LoopFree(ScopeCall[s])
  /\ wr' = [wr EXCEPT ![w] = "staged"]
  /\ order' = [order EXCEPT ![s] = Append(@, w)]
  /\ view' = [view EXCEPT ![s][WriteId[w]] = w]
  /\ UNCHANGED <<lockVars, phase, poisoned, work, result, leftOpen, snap, basis, row, applied, put, since>>

(* The body ends before it stages: it answers a refusal, or it throws.     *)
EndUnstaged(w, how) ==
  /\ wr[w] \in {"entered", "read"} /\ LoopFree(ScopeCall[WriteScope[w]])
  /\ wr' = [wr EXCEPT ![w] = how]
  /\ UNCHANGED <<lockVars, phase, poisoned, work, result, leftOpen, order, snap, view, basis, row, applied, put, since>>

(* `work` settles, whether or not it awaited its writes: admission closes. *)
WorkSettles(s, how) ==
  /\ phase[s] = "open" /\ LoopFree(ScopeCall[s])
  /\ work' = [work EXCEPT ![s] = how]
  /\ phase' = [phase EXCEPT ![s] = "draining"]
  /\ UNCHANGED <<lockVars, poisoned, result, leftOpen, wr, order, snap, view, basis, row, applied, put, since>>

(* Mutants: the scope does not wait for writes `work` did not await; it    *)
(* waits for the bodies themselves instead of their receipts.              *)
DrainedUnwaited(s) == phase[s] = "draining"
DrainedByBody(s) == phase[s] = "draining" /\ \A w \in Tracked(s) : wr[w] \notin {"entered", "read", "staged"}

Drained(s) == phase[s] = "draining" /\ \A w \in Tracked(s) : wr[w] \notin {"entered", "read"}
Throws(s) == \/ work[s] = "threw"
             \/ s \in poisoned
             \/ \E w \in Tracked(s) : wr[w] = "rejected"
Refuses(s) == work[s] = "refused" \/ \E w \in Tracked(s) : wr[w] = "refused"

(* The transaction is gone, and what it read.                              *)
CloseTransaction(s) ==
  /\ snap' = [snap EXCEPT ![s] = NoRows]
  /\ view' = [view EXCEPT ![s] = NoRows]
  /\ order' = [order EXCEPT ![s] = <<>>]

(* Mutant: a refusal settles the scope as if it had succeeded.             *)
EndUncommittedAsSuccess(s, how) ==
  /\ phase' = [phase EXCEPT ![s] = "closed"]
  /\ result' = [result EXCEPT ![s] = how]
  /\ wr' = [w \in Writes |-> IF WriteScope[w] = s /\ wr[w] = "staged" THEN "dropped" ELSE wr[w]]
  /\ SettleScope(ScopeCall[s], how = "refused")
  /\ CloseTransaction(s)
  /\ UNCHANGED <<poisoned, work, leftOpen, basis, row, applied, put, since>>

(* The scope ends without committing: its gates open with false and the    *)
(* waiting bodies end.  It reports how it ended to the lock.               *)
EndUncommitted(s, how) ==
  /\ phase' = [phase EXCEPT ![s] = "closed"]
  /\ result' = [result EXCEPT ![s] = how]
  /\ wr' = [w \in Writes |-> IF WriteScope[w] = s /\ wr[w] = "staged" THEN "dropped" ELSE wr[w]]
  /\ SettleScope(ScopeCall[s], FALSE)
  /\ CloseTransaction(s)
  /\ UNCHANGED <<poisoned, work, leftOpen, basis, row, applied, put, since>>

Abort(s) ==
  /\ Drained(s) /\ (Throws(s) \/ Refuses(s))
  /\ EndUncommitted(s, IF Throws(s) THEN "threw" ELSE "refused")

(* The Harper commit itself fails: nothing of the transaction is stored.   *)
CommitFails(s) ==
  /\ Drained(s) /\ ~Throws(s) /\ ~Refuses(s)
  /\ EndUncommitted(s, "threw")

(* What the Harper commit stores: every staged row at once.  Where a put   *)
(* has committed the row since the transaction began, Harper keeps either, *)
(* and the commit resolves all the same.                                   *)
StoresStaged(s) ==
  \E kept \in SUBSET {i \in Ids : StagesRow(s, i) /\ row[i] # snap[s][i]} :
    /\ row' = [i \in Ids |-> IF StagesRow(s, i) /\ i \notin kept THEN view[s][i] ELSE row[i]]
    /\ since' = [i \in Ids |-> IF StagesRow(s, i) THEN {row'[i]} ELSE since[i]]

(* Mutant: the lock is told the scope has ended as soon as it commits.     *)
CommitSettlesEarly(s) ==
  /\ Drained(s) /\ ~Throws(s) /\ ~Refuses(s)
  /\ StoresStaged(s)
  /\ applied' = applied \cup Staged(s)
  /\ phase' = [phase EXCEPT ![s] = "confirming"]
  /\ SettleScope(ScopeCall[s], TRUE)
  /\ UNCHANGED <<poisoned, work, result, leftOpen, wr, order, snap, view, basis, put>>

Commit(s) ==
  /\ Drained(s) /\ ~Throws(s) /\ ~Refuses(s)
  /\ LoopFree(ScopeCall[s])
  /\ StoresStaged(s)
  /\ applied' = applied \cup Staged(s)
  /\ phase' = [phase EXCEPT ![s] = "confirming"]
  /\ UNCHANGED <<lockVars, poisoned, work, result, leftOpen, wr, order, snap, view, basis, put>>

(* A put commits its row, whoever holds the row's key.                     *)
ComposedCommit(p) ==
  /\ p \notin put
  /\ put' = put \cup {p}
  /\ row' = [row EXCEPT ![PutId[p]] = p]
  /\ since' = [since EXCEPT ![PutId[p]] = @ \cup {p}]
  /\ UNCHANGED <<lockVars, phase, poisoned, work, result, leftOpen, wr, order, snap, view, basis, applied>>

(* Mutant: the confirmation reads the transaction's old snapshot.          *)
ConfirmOnOldSnapshot(w, how) ==
  LET s == WriteScope[w] IN
  /\ how = "confirmed" => snap[s][WriteId[w]] = w
  /\ how = "mismatch" => snap[s][WriteId[w]] # w
  /\ phase[s] = "confirming" /\ LoopFree(ScopeCall[s])
  /\ \E k \in 1 .. Len(order[s]) :
       /\ order[s][k] = w /\ wr[w] = "staged"
       /\ \A j \in 1 .. k - 1 : wr[order[s][j]] # "staged"
  /\ wr' = [wr EXCEPT ![w] = how]
  /\ IF how = "unreadable" THEN MarkOutcomeUnknown(ScopeCall[s], WriteId[w])
                           ELSE UNCHANGED lockVars
  /\ UNCHANGED <<phase, poisoned, work, result, leftOpen, order, snap, view, basis, row, applied, put, since>>

(* The confirmation of the first staged write not yet confirmed: its body  *)
(* resumes and reads the committed row.  It answers when the row is the    *)
(* one it staged and refuses when it is another; a row it cannot read      *)
(* marks the id (writeOutcomeUnknownFor); and the rest of the body may     *)
(* throw ("unreturned").                                                   *)
Confirm(w, how) ==
  LET s == WriteScope[w] IN
  /\ how = "confirmed" => row[WriteId[w]] = w
  /\ how = "mismatch" => row[WriteId[w]] # w
  /\ phase[s] = "confirming" /\ LoopFree(ScopeCall[s])
  /\ \E k \in 1 .. Len(order[s]) :
       /\ order[s][k] = w /\ wr[w] = "staged"
       /\ \A j \in 1 .. k - 1 : wr[order[s][j]] # "staged"
  /\ wr' = [wr EXCEPT ![w] = how]
  /\ IF how = "unreadable" THEN MarkOutcomeUnknown(ScopeCall[s], WriteId[w])
                           ELSE UNCHANGED lockVars
  /\ UNCHANGED <<phase, poisoned, work, result, leftOpen, order, snap, view, basis, row, applied, put, since>>

(* Mutant: the scope answers with the state of its first failed write.     *)
FinishAsWrite(s) ==
  /\ phase[s] = "confirming" /\ \A w \in Staged(s) : wr[w] # "staged"
  /\ phase' = [phase EXCEPT ![s] = "closed"]
  /\ \E w \in Staged(s) : result' = [result EXCEPT ![s] = wr[w]]
  /\ SettleScope(ScopeCall[s], FALSE)
  /\ CloseTransaction(s)
  /\ UNCHANGED <<poisoned, work, leftOpen, wr, basis, row, applied, put, since>>

(* All confirmations ran: the first throw, else the first refusal, else    *)
(* `committed` is the scope's answer.                                      *)
Finish(s) ==
  LET how == IF \E w \in Staged(s) : wr[w] = "unreturned" THEN "threw"
             ELSE IF \E w \in Staged(s) : wr[w] \in {"mismatch", "unreadable"} THEN "refused"
             ELSE "committed"
  IN
  /\ phase[s] = "confirming" /\ \A w \in Staged(s) : wr[w] # "staged"
  /\ phase' = [phase EXCEPT ![s] = "closed"]
  /\ result' = [result EXCEPT ![s] = how]
  /\ SettleScope(ScopeCall[s], how = "committed")
  /\ CloseTransaction(s)
  /\ UNCHANGED <<poisoned, work, leftOpen, wr, basis, row, applied, put, since>>

(* The lock callback settles; a scope it did not await stays open.         *)
SettleCallback(c, ok) ==
  /\ CallbackSettles(c, ok)
  /\ leftOpen' = leftOpen \cup {s \in Scopes : ScopeCall[s] = c /\ phase[s] \notin {"unused", "closed"}}
  /\ UNCHANGED <<phase, poisoned, work, result, wr, order, snap, view, basis, row, applied, put, since>>

(* The process restarts: open transactions vanish, committed rows stay.    *)
RestartProcess ==
  /\ Restart
  /\ phase' = [s \in Scopes |-> IF phase[s] = "unused" THEN "unused" ELSE "closed"]
  /\ result' = [s \in Scopes |-> IF phase[s] \in {"unused", "closed"} THEN result[s] ELSE "lost"]
  /\ wr' = [w \in Writes |-> IF wr[w] \in {"entered", "read", "staged"} THEN "dropped" ELSE wr[w]]
  /\ snap' = [s \in Scopes |-> NoRows] /\ view' = snap'
  /\ order' = [s \in Scopes |-> <<>>]
  /\ UNCHANGED <<poisoned, work, leftOpen, basis, row, applied, put, since>>

LockStep(c) ==
  /\ Invoke(c) \/ BeginAttempt(c) \/ TryKey(c) \/ Revoke(c) \/ Unlock(c)
  /\ UNCHANGED txVars

ScopeStep(s) ==
  \/ \E how \in {"value", "refused", "threw"} : WorkSettles(s, how)
  \/ Abort(s) \/ CommitFails(s) \/ Commit(s) \/ Finish(s)

WriteStep(w) ==
  \/ ReadRow(w) \/ Stage(w)
  \/ \E how \in {"refused", "rejected"} : EndUnstaged(w, how)
  \/ \E how \in {"confirmed", "mismatch", "unreadable", "unreturned"} : Confirm(w, how)

Next ==
  \/ \E c \in Calls : LockStep(c) \/ \E ok \in BOOLEAN : SettleCallback(c, ok)
  \/ \E s \in Scopes : OpenScope(s) \/ ScopeStep(s)
  \/ \E w \in Writes : EnterWrite(w) \/ WriteStep(w)
  \/ \E p \in Puts : ComposedCommit(p)
  \/ RestartProcess

Spec == Init /\ [][Next]_vars

(* The fairness of the event loop and of the work it runs: a started call  *)
(* is scheduled, callbacks, `work` and write bodies settle (the provider   *)
(* call a body makes is bounded), and a scope whose writes are drained     *)
(* goes on.  Opening a scope, making a write or a restart is never forced. *)
Fairness ==
  /\ \A c \in Calls :
       /\ WF_vars(BeginAttempt(c) /\ UNCHANGED txVars)
       /\ WF_vars(TryKey(c) /\ UNCHANGED txVars)
       /\ WF_vars((Revoke(c) \/ Unlock(c)) /\ UNCHANGED txVars)
       /\ WF_vars(\E ok \in BOOLEAN : SettleCallback(c, ok))
  /\ \A s \in Scopes : WF_vars(ScopeStep(s))
  /\ \A w \in Writes : WF_vars(WriteStep(w))

FairSpec == Spec /\ Fairness

-----------------------------------------------------------------------------
(* Properties.                                                             *)

WriteStates == {"unused", "denied", "entered", "read", "staged", "refused", "rejected",
                "dropped", "confirmed", "mismatch", "unreadable", "unreturned"}

(* Every variable of the scopes and of the store has its type, and the     *)
(* lock's variables keep theirs.                                           *)
TypeOK ==
  /\ LockTypeOK
  /\ phase \in [Scopes -> {"unused", "open", "draining", "confirming", "closed"}]
  /\ poisoned \subseteq Scopes
  /\ work \in [Scopes -> {"pending", "value", "refused", "threw"}]
  /\ result \in [Scopes -> {"none", "committed", "refused", "threw", "lost"}]
  /\ leftOpen \subseteq Scopes
  /\ wr \in [Writes -> WriteStates]
  /\ order \in [Scopes -> Seq(Writes)]
  /\ snap \in [Scopes -> [Ids -> Values]]
  /\ view \in [Scopes -> [Ids -> Values]]
  /\ basis \in [Writes -> Values]
  /\ row \in [Ids -> Values]
  /\ applied \subseteq Writes
  /\ put \subseteq Puts
  /\ since \in [Ids -> SUBSET Values]

(* A scope commits all of the writes it admitted or none: if one of them   *)
(* is in a committed transaction, all of them are, `work` had returned a   *)
(* value and no admission inside the scope had been refused.  This holds   *)
(* however `work` and the write bodies interleave, awaited or not.         *)
AllOrNothing ==
  \A s \in Scopes :
    WritesOf(s) \cap applied # {} =>
      /\ Tracked(s) \subseteq applied
      /\ work[s] = "value" /\ s \notin poisoned

(* A checked write is stored only while the call whose scope commits it    *)
(* holds the row's key: every scope ends before its keys are released,     *)
(* also one its callback did not await.                                    *)
CommitUnderKeys ==
  [][\A i \in Ids :
       row'[i] # row[i] /\ row'[i] \notin Puts =>
         /\ row'[i] \in Writes
         /\ holder[i] = ScopeCall[WriteScope[row'[i]]]]_vars

(* A checked write is refused after its commit as "changed" only over a    *)
(* row that its own scope wrote again, or that a put has committed since   *)
(* the scope's transaction began: the commit and its confirmation are in   *)
(* one hold of the keys, so no other locked call's write comes between     *)
(* them, and the commit drops no row that nobody has touched.              *)
MismatchHasCause ==
  [][\A w \in Writes :
       LET s == WriteScope[w] i == WriteId[w] IN
       wr[w] # "mismatch" /\ wr'[w] = "mismatch" =>
         row[i] \in (Staged(s) \ {w}) \cup (Puts \ {snap[s][i]})]_vars

(* A scope that the lock callback did not await and that did not end       *)
(* committed makes the lock call reject: `done` is never answered over a   *)
(* refused, failed or half-confirmed scope.                                *)
UnawaitedFailureSurfaces ==
  \A s \in leftOpen : answer[ScopeCall[s]] = "done" => result[s] = "committed"

(* Every scope that opened is closed, and every call that started is       *)
(* answered or ended by a restart: the callback, the scope, its writes and *)
(* the gates they wait at never wait for one another in a circle.          *)
EveryScopeSettles ==
  /\ \A s \in Scopes : phase[s] = "open" ~> phase[s] = "closed"
  /\ \A c \in Calls : pc[c] = "ready" ~> pc[c] \in {"returned", "lost"}

(* The locked scopes implement atomic group writes that are serialized     *)
(* among themselves: between the decision of a committed write and its     *)
(* commit no other group has written the row, only puts may have (the      *)
(* decision of a write that was never committed is not part of the         *)
(* promise).                                                               *)
Atomic == INSTANCE AtomicMemory WITH
  basis <- [w \in Writes |-> IF w \in applied THEN basis[w] ELSE Fresh]

ImplementsAtomicMemory == Atomic!Spec
=============================================================================
