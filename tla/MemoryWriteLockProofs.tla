------------------------ MODULE MemoryWriteLockProofs ------------------------
(***************************************************************************)
(* Proofs about the per-id write lock, for any set of ids, calls, workers  *)
(* and attempts.                                                           *)
(*                                                                         *)
(* OpenScopeHoldsKeys is not inductive: that a call with an open scope     *)
(* holds its keys needs to know where such a call is, and that a call in   *)
(* its critical section holds the key of every id it names.  LockInv adds  *)
(* those facts, and that a call inside an attempt has no marked id.        *)
(***************************************************************************)
EXTENDS MemoryWriteLock, TLAPS

(* A call in its critical section holds all of its keys, under a token     *)
(* that is live exactly until it is revoked.                               *)
CriticalHoldsKeys ==
  \A c \in Calls :
    /\ pc[c] \in {"running", "settling", "revoked"} => \A i \in IdsOf[c] : holder[i] = c
    /\ token[c] = "live" <=> pc[c] \in {"running", "settling"}

(* A scope is open only while its callback runs or settles.                *)
ScopeInCallback ==
  \A c \in Calls : scope[c] = "open" => pc[c] \in {"running", "settling"}

(* Only a call that is inside an attempt or its critical section is named  *)
(* as a holder.                                                            *)
HoldersAreInside ==
  \A c \in Calls : \A i \in Ids :
    holder[i] = c => pc[c] \in {"locking", "running", "settling", "revoked"}

(* The marker check of the running attempt still holds.                    *)
LockingIsUnmarked ==
  \A c \in Calls : pc[c] = "locking" => unknown[WorkerOf[c]] \cap IdsOf[c] = {}

LockInv ==
  /\ LockTypeOK
  /\ CriticalHoldsKeys
  /\ ScopeInCallback
  /\ HoldersAreInside
  /\ LockingIsUnmarked

(* The assumptions on the constants, as the leaves use them.               *)
LEMMA ConstantTypes ==
  /\ \A c \in Calls : WorkerOf[c] \in Workers /\ IdsOf[c] \subseteq Ids /\ c # NoCall
  /\ \A c \in Calls : Attempts[c] \in Nat
  /\ MaxRestarts \in Nat
BY NoCallAssumption, CallsAssumption, RestartsAssumption

(* The initial state of the lock satisfies the invariant.                  *)
LEMMA LockInitInv == LockInit => LockInv
BY ConstantTypes
   DEF LockInit, LockInv, LockTypeOK, CriticalHoldsKeys, ScopeInCallback,
       HoldersAreInside, LockingIsUnmarked, PCs, Answers

(* Taking one key, or undoing an attempt, preserves the invariant.         *)
LEMMA TryKeyInv ==
  ASSUME LockInv, NEW c \in Calls, TryKey(c)
  PROVE  LockInv'
<1> USE ConstantTypes
<1>1. PICK i \in IdsOf[c] \ HeldBy(c) :
        \/ /\ holder[i] = NoCall
           /\ holder' = [holder EXCEPT ![i] = c]
           /\ IF IdsOf[c] \ HeldBy(c) = {i}
                THEN /\ pc' = [pc EXCEPT ![c] = "running"]
                     /\ token' = [token EXCEPT ![c] = "live"]
                ELSE UNCHANGED <<pc, token>>
           /\ UNCHANGED <<attempt, answer>>
        \/ /\ ReleaseAll(c)
           /\ attempt' = [attempt EXCEPT ![c] = @ + 1]
           /\ IF attempt[c] + 1 < Attempts[c]
                THEN pc' = [pc EXCEPT ![c] = "ready"] /\ UNCHANGED answer
                ELSE Return(c, "busy")
           /\ UNCHANGED token
  BY DEF TryKey
<1>2. /\ pc[c] = "locking" /\ i \in Ids
      /\ UNCHANGED <<unknown, scope, failing, restarts>>
  BY DEF TryKey
<1>3. CASE /\ holder[i] = NoCall
           /\ holder' = [holder EXCEPT ![i] = c]
           /\ IF IdsOf[c] \ HeldBy(c) = {i}
                THEN /\ pc' = [pc EXCEPT ![c] = "running"]
                     /\ token' = [token EXCEPT ![c] = "live"]
                ELSE UNCHANGED <<pc, token>>
           /\ UNCHANGED <<attempt, answer>>
  <2>1. LockTypeOK'
    BY <1>2, <1>3 DEF LockInv, LockTypeOK, PCs
  <2>2. CriticalHoldsKeys'
    BY <1>2, <1>3 DEF LockInv, LockTypeOK, CriticalHoldsKeys, HeldBy, PCs
  <2>3. ScopeInCallback' /\ HoldersAreInside' /\ LockingIsUnmarked'
    BY <1>2, <1>3 DEF LockInv, LockTypeOK, ScopeInCallback, HoldersAreInside, LockingIsUnmarked
  <2> QED BY <2>1, <2>2, <2>3 DEF LockInv
<1>4. CASE /\ ReleaseAll(c)
           /\ attempt' = [attempt EXCEPT ![c] = @ + 1]
           /\ IF attempt[c] + 1 < Attempts[c]
                THEN pc' = [pc EXCEPT ![c] = "ready"] /\ UNCHANGED answer
                ELSE Return(c, "busy")
           /\ UNCHANGED token
  <2>1. LockTypeOK'
    BY <1>2, <1>4 DEF LockInv, LockTypeOK, ReleaseAll, Return, PCs, Answers
  <2>2. CriticalHoldsKeys'
    BY <1>2, <1>4 DEF LockInv, LockTypeOK, CriticalHoldsKeys, ReleaseAll, Return
  <2>3. ScopeInCallback' /\ HoldersAreInside' /\ LockingIsUnmarked'
    BY <1>2, <1>4 DEF LockInv, LockTypeOK, ScopeInCallback, HoldersAreInside, LockingIsUnmarked,
                      ReleaseAll, Return
  <2> QED BY <2>1, <2>2, <2>3 DEF LockInv
<1> QED BY <1>1, <1>3, <1>4

(* A restart takes every call out of its critical section together with    *)
(* its keys, its token and its scope.                                      *)
LEMMA RestartInv == LockInv /\ Restart => LockInv'
<1> SUFFICES ASSUME LockInv, Restart PROVE LockInv'
  OBVIOUS
<1> USE ConstantTypes
<1>1. LockTypeOK'
  BY DEF LockInv, LockTypeOK, Restart, PCs
<1>2. \A c \in Calls : /\ pc'[c] \notin {"running", "settling", "revoked", "locking"}
                       /\ token'[c] # "live" /\ scope'[c] # "open"
  BY DEF LockInv, LockTypeOK, Restart, PCs
<1>3. \A i \in Ids : holder'[i] = NoCall
  BY DEF Restart
<1> QED BY <1>1, <1>2, <1>3
  DEF LockInv, CriticalHoldsKeys, ScopeInCallback, HoldersAreInside, LockingIsUnmarked

(* Every step of the lock preserves the invariant.                         *)
LEMMA LockStepInv == LockInv /\ [LockNext]_lockVars => LockInv'
<1> SUFFICES ASSUME LockInv, [LockNext]_lockVars PROVE LockInv'
  OBVIOUS
<1> USE ConstantTypes
<1> USE DEF LockInv, CriticalHoldsKeys, ScopeInCallback, HoldersAreInside, LockingIsUnmarked
<1>1. ASSUME NEW c \in Calls, Invoke(c) PROVE LockInv'
  BY <1>1 DEF LockTypeOK, Invoke, Return, PCs, Answers
<1>2. ASSUME NEW c \in Calls, BeginAttempt(c) PROVE LockInv'
  BY <1>2 DEF LockTypeOK, BeginAttempt, Return, PCs, Answers
<1>3. ASSUME NEW c \in Calls, TryKey(c) PROVE LockInv'
  BY <1>3, TryKeyInv
<1>4. ASSUME NEW c \in Calls, AdmitScope(c) PROVE LockInv'
  BY <1>4 DEF LockTypeOK, AdmitScope
<1>5. ASSUME NEW c \in Calls, NEW ok \in BOOLEAN, SettleScope(c, ok) PROVE LockInv'
  BY <1>5 DEF LockTypeOK, SettleScope
<1>6. ASSUME NEW c \in Calls, NEW ok \in BOOLEAN, CallbackSettles(c, ok) PROVE LockInv'
  BY <1>6 DEF LockTypeOK, CallbackSettles, PCs
<1>7. ASSUME NEW c \in Calls, Revoke(c) PROVE LockInv'
  BY <1>7 DEF LockTypeOK, Revoke, PCs
<1>8. ASSUME NEW c \in Calls, Unlock(c) PROVE LockInv'
  BY <1>8 DEF LockTypeOK, Unlock, ReleaseAll, Return, PCs, Answers
<1>9. ASSUME NEW c \in Calls, NEW i \in Ids, MarkOutcomeUnknown(c, i) PROVE LockInv'
  BY <1>9 DEF LockTypeOK, MarkOutcomeUnknown, LoopFree
<1>10. CASE Restart
  BY <1>10, RestartInv
<1>11. CASE UNCHANGED lockVars
  BY <1>11 DEF lockVars, LockTypeOK
<1> QED BY <1>1, <1>2, <1>3, <1>4, <1>5, <1>6, <1>7, <1>8, <1>9, <1>10, <1>11
  DEF LockNext, CallStep

(* What the invariant says of the properties that TLC checks.              *)
LEMMA LockInvImplies == LockInv => LockTypeOK /\ OpenScopeHoldsKeys /\ NoHoldAndWait
BY ConstantTypes
   DEF LockInv, CriticalHoldsKeys, ScopeInCallback, HoldersAreInside,
       OpenScopeHoldsKeys, NoHoldAndWait, HeldBy, LockTypeOK

(* The invariant holds in every reachable state.                           *)
THEOREM LockInvariant == LockSpec => []LockInv
<1>1. LockInit => LockInv
  BY LockInitInv
<1>2. LockInv /\ [LockNext]_lockVars => LockInv'
  BY LockStepInv
<1> QED BY <1>1, <1>2, PTL DEF LockSpec

(* The lock's state is always well typed.                                  *)
THEOREM LockTypeCorrect == LockSpec => []LockTypeOK
BY LockInvariant, LockInvImplies, PTL

(* A locked transaction scope is open only under a live token that holds   *)
(* every key of its call, whatever the callback awaits.                    *)
THEOREM OpenScopesAreLocked == LockSpec => []OpenScopeHoldsKeys
BY LockInvariant, LockInvImplies, PTL

(* No call waits for an attempt, or has answered, while it holds a key.    *)
THEOREM NoCallHoldsAndWaits == LockSpec => []NoHoldAndWait
BY LockInvariant, LockInvImplies, PTL

(* The marker check at the top of an attempt is never stale when the token *)
(* is minted.                                                              *)
THEOREM MarkersRespected == LockSpec => MarkedIdNotEntered
<1> DEFINE Entered ==
      \A c \in Calls : token[c] # "live" /\ token'[c] = "live"
                       => unknown[WorkerOf[c]] \cap IdsOf[c] = {}
<1>1. LockInv /\ [LockNext]_lockVars => [Entered]_lockVars
  <2> SUFFICES ASSUME LockInv, LockNext, NEW d \in Calls, token[d] # "live", token'[d] = "live"
               PROVE  unknown[WorkerOf[d]] \cap IdsOf[d] = {}
    BY DEF lockVars
  <2>1. TryKey(d)
    BY DEF LockNext, CallStep, Invoke, BeginAttempt, TryKey, AdmitScope, SettleScope,
           CallbackSettles, Revoke, Unlock, MarkOutcomeUnknown, Restart, LockInv, LockTypeOK
  <2> QED BY <2>1 DEF TryKey, LockInv, LockingIsUnmarked
<1> QED BY LockInvariant, <1>1, PTL DEF LockSpec, MarkedIdNotEntered
=============================================================================
