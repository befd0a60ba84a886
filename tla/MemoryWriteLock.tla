--------------------------- MODULE MemoryWriteLock ---------------------------
(***************************************************************************)
(* The per-memory-id write lock of resources/memory-write-lock.ts.         *)
(*                                                                         *)
(* A CALL is one invocation of withMemoryWriteLock (or ...Once): it takes  *)
(* the key of every id it names, in sorted order and without blocking,     *)
(* mints a token, runs its callback, waits for a locked transaction scope  *)
(* the callback may have left open, revokes the token and only then gives  *)
(* the keys back.  A partial acquisition is undone before the next attempt.*)
(*                                                                         *)
(* Calls run on worker threads of one Harper process.  The threads share   *)
(* the keys (Memory.primaryStore's lock); the outcome-unknown markers are  *)
(* module state, one set per worker.  JavaScript runs to completion, so    *)
(* while a call of a worker is between its marker check and the end of its *)
(* attempt no other call of that worker takes a step; calls of another     *)
(* worker may interleave between two tryLock calls.                        *)
(***************************************************************************)
EXTENDS Integers, FiniteSets

CONSTANTS
  Ids,         \* stored Memory ids; integers, whose order is the sort order
  Calls,       \* invocations of withMemoryWriteLock / withMemoryWriteLockOnce
  Workers,     \* Harper worker threads (one in the supported mode)
  NoCall,      \* "the key is free"
  WorkerOf,    \* the worker a call runs on
  IdsOf,       \* the ids a call names, as normalizeIds leaves them
  Attempts,    \* MEMORY_LOCK_ATTEMPTS, or 1 for withMemoryWriteLockOnce
  Lockable,    \* the calls whose store has tryLock and unlock
  MaxRestarts  \* bound on process restarts

ASSUME IdsAssumption == Ids \subseteq Int /\ IsFiniteSet(Ids)
ASSUME NoCallAssumption == NoCall \notin Calls
ASSUME CallsAssumption ==
  /\ WorkerOf \in [Calls -> Workers]
  /\ IdsOf \in [Calls -> SUBSET Ids]
  /\ Attempts \in [Calls -> Nat \ {0}]
  /\ Lockable \subseteq Calls
ASSUME RestartsAssumption == MaxRestarts \in Nat

VARIABLES
  pc,        \* where each call is
  attempt,   \* the loop counter `attempt` of acquire()
  holder,    \* who holds the key of each id
  unknown,   \* outcomeUnknown: the marked ids, per worker
  token,     \* each call's token in the registry
  scope,     \* whether a locked transaction scope is open on each call
  failing,   \* calls that must reject: the callback threw, or an unawaited
             \* scope failed and the failure is propagated
  answer,    \* what each call answered
  restarts

lockVars == <<pc, attempt, holder, unknown, token, scope, failing, answer, restarts>>

(* "idle": not invoked.  "ready": about to run an attempt (first, or after *)
(* a wait).  "locking": inside an attempt.  "running": the callback runs.  *)
(* "settling": the callback has settled.  "revoked": the token is revoked, *)
(* the keys still held.  "returned": answered.  "lost": a restart ended it.*)
PCs == {"idle", "ready", "locking", "running", "settling", "revoked", "returned", "lost"}
Answers == {"none", "done", "rejected", "busy", "unknown", "unavailable"}

HeldBy(c) == {i \in Ids : holder[i] = c}

(* The event loop of c's worker is free: no call of that worker is in the  *)
(* synchronous part of acquire().                                          *)
LoopFree(c) == \A d \in Calls : WorkerOf[d] = WorkerOf[c] => pc[d] # "locking"

(* releaseAll: give back every key c holds.                                *)
ReleaseAll(c) == holder' = [i \in Ids |-> IF holder[i] = c THEN NoCall ELSE holder[i]]

Return(c, a) ==
  /\ pc' = [pc EXCEPT ![c] = "returned"]
  /\ answer' = [answer EXCEPT ![c] = a]

-----------------------------------------------------------------------------
LockInit ==
  /\ pc = [c \in Calls |-> "idle"]
  /\ attempt = [c \in Calls |-> 0]
  /\ holder = [i \in Ids |-> NoCall]
  /\ unknown = [w \in Workers |-> {}]
  /\ token = [c \in Calls |-> "none"]
  /\ scope = [c \in Calls |-> "none"]
  /\ failing = {}
  /\ answer = [c \in Calls |-> "none"]
  /\ restarts = 0

(* A call on a store without a lock, or naming no id, answers at once.     *)
Invoke(c) ==
  /\ pc[c] = "idle" /\ LoopFree(c)
  /\ IF c \in Lockable /\ IdsOf[c] # {}
       THEN pc' = [pc EXCEPT ![c] = "ready"] /\ UNCHANGED answer
       ELSE Return(c, "unavailable")
  /\ UNCHANGED <<attempt, holder, unknown, token, scope, failing, restarts>>

(* Mutant: the marker is checked once, before the first attempt only.      *)
BeginAttemptChecksOnce(c) ==
  /\ pc[c] = "ready" /\ LoopFree(c)
  /\ IF attempt[c] = 0 /\ unknown[WorkerOf[c]] \cap IdsOf[c] # {}
       THEN Return(c, "unknown")
       ELSE pc' = [pc EXCEPT ![c] = "locking"] /\ UNCHANGED answer
  /\ UNCHANGED <<attempt, holder, unknown, token, scope, failing, restarts>>

(* The top of an attempt: a marked id refuses the call, whoever holds the  *)
(* keys.                                                                   *)
BeginAttempt(c) ==
  /\ pc[c] = "ready" /\ LoopFree(c)
  /\ IF unknown[WorkerOf[c]] \cap IdsOf[c] # {}
       THEN Return(c, "unknown")
       ELSE pc' = [pc EXCEPT ![c] = "locking"] /\ UNCHANGED answer
  /\ UNCHANGED <<attempt, holder, unknown, token, scope, failing, restarts>>

(* Mutant: a failed attempt keeps the keys it got.                         *)
TryKeyKeepsPartial(c) ==
  /\ pc[c] = "locking"
  /\ \E i \in IdsOf[c] \ HeldBy(c) :
       \/ /\ holder[i] = NoCall
          /\ holder' = [holder EXCEPT ![i] = c]
          /\ IF IdsOf[c] \ HeldBy(c) = {i}
               THEN /\ pc' = [pc EXCEPT ![c] = "running"]
                    /\ token' = [token EXCEPT ![c] = "live"]
               ELSE UNCHANGED <<pc, token>>
          /\ UNCHANGED <<attempt, answer>>
       \/ /\ holder[i] # NoCall
          /\ attempt' = [attempt EXCEPT ![c] = @ + 1]
          /\ IF attempt[c] + 1 < Attempts[c]
               THEN pc' = [pc EXCEPT ![c] = "ready"] /\ UNCHANGED answer
               ELSE Return(c, "busy")
          /\ UNCHANGED <<token, holder>>
  /\ UNCHANGED <<unknown, scope, failing, restarts>>

(* tryLock on the least id not yet held.  The last key mints the token.  A *)
(* held key ends the attempt: the partial acquisition is released, and the *)
(* call waits for its next attempt or answers busy.                        *)
TryKey(c) ==
  /\ pc[c] = "locking"
  /\ \E i \in IdsOf[c] \ HeldBy(c) :
       /\ \A j \in IdsOf[c] \ HeldBy(c) : i <= j
       /\ \/ /\ holder[i] = NoCall
             /\ holder' = [holder EXCEPT ![i] = c]
             /\ IF IdsOf[c] \ HeldBy(c) = {i}
                  THEN /\ pc' = [pc EXCEPT ![c] = "running"]
                       /\ token' = [token EXCEPT ![c] = "live"]
                  ELSE UNCHANGED <<pc, token>>
             /\ UNCHANGED <<attempt, answer>>
          \/ /\ holder[i] # NoCall
             /\ ReleaseAll(c)
             /\ attempt' = [attempt EXCEPT ![c] = @ + 1]
             /\ IF attempt[c] + 1 < Attempts[c]
                  THEN pc' = [pc EXCEPT ![c] = "ready"] /\ UNCHANGED answer
                  ELSE Return(c, "busy")
             /\ UNCHANGED token
  /\ UNCHANGED <<unknown, scope, failing, restarts>>

(* admitLockedScope: one open scope at a time, and none once the callback  *)
(* has settled.                                                            *)
AdmitScope(c) ==
  /\ LoopFree(c)
  /\ token[c] = "live" /\ pc[c] = "running"
  /\ scope[c] # "open"
  /\ scope' = [scope EXCEPT ![c] = "open"]
  /\ UNCHANGED <<pc, attempt, holder, unknown, token, failing, answer, restarts>>

(* Mutant: a settled scope is not cleared from its acquisition.            *)
SettleScopeKeepsRecord(c, ok) ==
  /\ LoopFree(c)
  /\ scope[c] = "open"
  /\ scope' = [scope EXCEPT ![c] = "settled"]
  /\ failing' = IF pc[c] = "settling" /\ ~ok THEN failing \cup {c} ELSE failing
  /\ UNCHANGED <<pc, attempt, holder, unknown, token, answer, restarts>>

(* Mutant: a scope's settlement is lost once the callback has settled.     *)
SettleScopeOnlyAdmitting(c, ok) ==
  /\ LoopFree(c)
  /\ scope[c] = "open" /\ pc[c] = "running"
  /\ scope' = [scope EXCEPT ![c] = "none"]
  /\ UNCHANGED <<pc, attempt, holder, unknown, token, failing, answer, restarts>>

(* The scope reports how it ended.  If the callback settled without        *)
(* awaiting it, settleAcquisition(propagate) makes the call reject.        *)
SettleScope(c, ok) ==
  /\ LoopFree(c)
  /\ scope[c] = "open"
  /\ scope' = [scope EXCEPT ![c] = "none"]
  /\ failing' = IF pc[c] = "settling" /\ ~ok THEN failing \cup {c} ELSE failing
  /\ UNCHANGED <<pc, attempt, holder, unknown, token, answer, restarts>>

(* The callback settles, with or without a scope still open.               *)
CallbackSettles(c, ok) ==
  /\ pc[c] = "running" /\ LoopFree(c)
  /\ pc' = [pc EXCEPT ![c] = "settling"]
  /\ failing' = IF ok THEN failing ELSE failing \cup {c}
  /\ UNCHANGED <<attempt, holder, unknown, token, scope, answer, restarts>>

(* Mutant: the token is revoked without waiting for an open scope.         *)
RevokeAtOnce(c) ==
  /\ pc[c] = "settling" /\ LoopFree(c)
  /\ token' = [token EXCEPT ![c] = "revoked"]
  /\ pc' = [pc EXCEPT ![c] = "revoked"]
  /\ UNCHANGED <<attempt, holder, unknown, scope, failing, answer, restarts>>

(* settleAcquisition past its await: the token is revoked.                 *)
Revoke(c) ==
  /\ pc[c] = "settling" /\ LoopFree(c)
  /\ scope[c] # "open"
  /\ token' = [token EXCEPT ![c] = "revoked"]
  /\ pc' = [pc EXCEPT ![c] = "revoked"]
  /\ UNCHANGED <<attempt, holder, unknown, scope, failing, answer, restarts>>

(* The finally block's releaseAll, and the answer.                         *)
Unlock(c) ==
  /\ pc[c] = "revoked" /\ LoopFree(c)
  /\ ReleaseAll(c)
  /\ Return(c, IF c \in failing THEN "rejected" ELSE "done")
  /\ UNCHANGED <<attempt, unknown, token, scope, failing, restarts>>

(* markMemoryWriteOutcomeUnknown: a write made under the lock whose        *)
(* outcome could not be verified marks its id, also from a scope that the  *)
(* callback did not await; nothing but a restart clears the marker.        *)
MarkOutcomeUnknown(c, i) ==
  /\ pc[c] \in {"running", "settling"} /\ LoopFree(c)
  /\ i \in IdsOf[c]
  /\ unknown' = [unknown EXCEPT ![WorkerOf[c]] = @ \cup {i}]
  /\ UNCHANGED <<pc, attempt, holder, token, scope, failing, answer, restarts>>

(* The Harper process restarts: calls in flight are gone with their keys,  *)
(* tokens and scopes, and every worker's markers are cleared.              *)
Restart ==
  /\ restarts < MaxRestarts
  /\ restarts' = restarts + 1
  /\ pc' = [c \in Calls |-> IF pc[c] \in {"idle", "returned"} THEN pc[c] ELSE "lost"]
  /\ holder' = [i \in Ids |-> NoCall]
  /\ unknown' = [w \in Workers |-> {}]
  /\ token' = [c \in Calls |-> IF token[c] = "live" THEN "revoked" ELSE token[c]]
  /\ scope' = [c \in Calls |-> "none"]
  /\ UNCHANGED <<attempt, failing, answer>>

CallStep(c) ==
  \/ BeginAttempt(c) \/ TryKey(c) \/ Revoke(c) \/ Unlock(c)
  \/ \E ok \in BOOLEAN : SettleScope(c, ok) \/ CallbackSettles(c, ok)

LockNext ==
  \/ \E c \in Calls :
       \/ Invoke(c) \/ CallStep(c) \/ AdmitScope(c)
       \/ \E i \in Ids : MarkOutcomeUnknown(c, i)
  \/ Restart

LockSpec == LockInit /\ [][LockNext]_lockVars

(* Every started call keeps being scheduled, and callbacks and scopes      *)
(* settle: an embedding call made under the lock is bounded by             *)
(* boundLockedProviderCall.  Nothing forces a call to be invoked, a scope  *)
(* to be opened or an id to be marked.  A call makes finitely many         *)
(* attempts, so weak fairness is enough.                                   *)
LockFairness ==
  \A c \in Calls :
    /\ WF_lockVars(BeginAttempt(c)) /\ WF_lockVars(TryKey(c))
    /\ WF_lockVars(Revoke(c)) /\ WF_lockVars(Unlock(c))
    /\ WF_lockVars(\E ok \in BOOLEAN : CallbackSettles(c, ok))
    /\ WF_lockVars(\E ok \in BOOLEAN : SettleScope(c, ok))

LockFairSpec == LockSpec /\ LockFairness

-----------------------------------------------------------------------------
(* Properties.                                                             *)

(* Every variable of the lock and of its token registry has its type.      *)
LockTypeOK ==
  /\ pc \in [Calls -> PCs]
  /\ attempt \in [Calls -> Nat]
  /\ holder \in [Ids -> Calls \cup {NoCall}]
  /\ unknown \in [Workers -> SUBSET Ids]
  /\ token \in [Calls -> {"none", "live", "revoked"}]
  /\ scope \in [Calls -> {"none", "open"}]
  /\ failing \subseteq Calls
  /\ answer \in [Calls -> Answers]
  /\ restarts \in 0 .. MaxRestarts

(* A locked transaction scope is open only under a live token that still   *)
(* holds the key of every id of its call, also when the callback settled   *)
(* without awaiting the scope: settleAcquisition waits before it revokes   *)
(* and the keys are released last.                                         *)
OpenScopeHoldsKeys ==
  \A c \in Calls :
    scope[c] = "open" => token[c] = "live" /\ IdsOf[c] \subseteq HeldBy(c)

(* A call that is waiting for its next attempt, or has answered, holds no  *)
(* key: a partial acquisition is undone before the wait, so two calls that *)
(* share ids never wait for one another, and every exit gives keys back.   *)
NoHoldAndWait ==
  \A c \in Calls :
    pc[c] \notin {"locking", "running", "settling", "revoked"} => HeldBy(c) = {}

(* A call enters its critical section only if none of its ids carries the  *)
(* outcome-unknown marker of its worker at that moment: the check at the   *)
(* top of the attempt cannot have gone stale, because nothing between it   *)
(* and the minting of the token yields the event loop.                     *)
MarkedIdNotEntered ==
  [][\A c \in Calls :
       token[c] # "live" /\ token'[c] = "live"
         => unknown[WorkerOf[c]] \cap IdsOf[c] = {}]_lockVars

(* Every call that started is answered, or ended by a restart: bounded     *)
(* attempts and released partial acquisitions leave no call waiting for    *)
(* ever.                                                                   *)
EveryCallAnswered ==
  \A c \in Calls : pc[c] = "ready" ~> pc[c] \in {"returned", "lost"}
=============================================================================
