-------------------------- MODULE ReplayStoreProofs --------------------------
(***************************************************************************)
(* A signed request is accepted at most once, for any number of keys,      *)
(* presentations, threads and restarts and any window, retention and delay *)
(* that satisfy ReplayAssumption.                                          *)
(*                                                                         *)
(* That two presentations are not both accepted is not inductive.  Until a *)
(* key's row may be evicted, the row itself refuses the second one; and    *)
(* when it may be, no presentation of the key can still be on its way from *)
(* the window check to the claim.  ReplayInv says both.                    *)
(***************************************************************************)
EXTENDS ReplayStore, TLAPS

Stored(p) == pc[p] \in {"stored", "accepted"}

(* A presentation between check and claim is not late, and a claim in      *)
(* progress has its key's lock.                                            *)
ClaimsOK ==
  \A p \in Presentations :
    /\ pc[p] = "checked" =>
         /\ checked[p] <= SignedAt[KeyOf[p]] + Window
         /\ now <= checked[p] + MaxDelay
    /\ pc[p] \in {"checked", "writing"} => now >= SignedAt[KeyOf[p]] - Window
    /\ pc[p] \in {"writing", "stored"} => lock[KeyOf[p]] = p

(* A row was written no earlier than its request could pass the check.     *)
RowsOK == \A k \in Keys : row[k] # Absent => row[k] >= SignedAt[k] - Window

(* The row of an accepted key is there until its retention is over.        *)
KeptOK ==
  \A p \in Presentations :
    Stored(p) => \/ row[KeyOf[p]] # Absent
                 \/ now >= SignedAt[KeyOf[p]] - Window + Retention

(* Nobody writes a key that was stored, and one presentation stored it.    *)
StoredOnce ==
  \A p, q \in Presentations :
    KeyOf[p] = KeyOf[q] /\ Stored(p) =>
      /\ pc[q] # "writing"
      /\ Stored(q) => p = q

ReplayInv == TypeOK /\ ClaimsOK /\ RowsOK /\ KeptOK /\ StoredOnce

(* What the store and the threads remember was recorded.                   *)
RecordedOK ==
  /\ \A k \in Keys : row[k] # Absent => k \in recorded
  /\ \A t \in Threads, k \in Keys : seen[t][k] # Absent => k \in recorded
  /\ \A p \in Presentations : pc[p] = "stored" => KeyOf[p] \in recorded

-----------------------------------------------------------------------------
(* The assumptions on the constants, as the leaves use them.               *)
LEMMA ConstantTypes ==
  /\ \A p \in Presentations : KeyOf[p] \in Keys /\ ThreadOf[p] \in Threads /\ p # NoOne
  /\ \A k \in Keys : SignedAt[k] \in Nat
  /\ Window \in Nat /\ Retention \in Nat /\ MaxDelay \in Nat
  /\ Retention > 2 * Window + MaxDelay
BY ReplayAssumption

(* Pruning only forgets.                                                   *)
LEMMA PrunedForgets ==
  ASSUME TypeOK, NEW t \in Threads, NEW at, NEW m \in Pruned(seen[t], at)
  PROVE  /\ m \in [Keys -> Nat \cup {Absent}]
         /\ \A k \in Keys : m[k] # Absent => seen[t][k] # Absent
<1>1. m = [k \in Keys |-> Absent] \/ m = Fresh(seen[t], at) \/ m = seen[t]
  BY DEF Pruned
<1> QED
  BY <1>1 DEF Fresh, TypeOK, Absent

(* Remembering adds the presentation's own key and nothing else.           *)
LEMMA RememberTypes ==
  ASSUME TypeOK, NEW p \in Presentations, NEW at \in Nat, Remember(p, at)
  PROVE  /\ seen' \in [Threads -> [Keys -> Nat \cup {Absent}]]
         /\ \A t \in Threads, k \in Keys :
              seen'[t][k] # Absent => k = KeyOf[p] \/ seen[t][k] # Absent
<1>1. PICK m \in Pruned(seen[ThreadOf[p]], at) :
        seen' = [seen EXCEPT ![ThreadOf[p]] = [m EXCEPT ![KeyOf[p]] = at]]
  BY DEF Remember
<1>2. /\ m \in [Keys -> Nat \cup {Absent}]
      /\ \A k \in Keys : m[k] # Absent => seen[ThreadOf[p]][k] # Absent
  BY ConstantTypes, PrunedForgets
<1> QED
  BY <1>1, <1>2, ConstantTypes DEF TypeOK

(* Moving a presentation keeps the types.                                  *)
LEMMA GotoTypes ==
  ASSUME TypeOK, NEW p \in Presentations,
         NEW w \in {"checked", "writing", "stored"} \cup Answered, Goto(p, w)
  PROVE  /\ pc' \in [Presentations -> {"idle", "checked", "writing", "stored"} \cup Answered]
         /\ checked' \in [Presentations -> Nat]
BY DEF TypeOK, Goto

(* The initial state satisfies every conjunct.                             *)
LEMMA InitInv == Init => ReplayInv /\ RecordedOK /\ ReplayWasRecorded
BY ConstantTypes
  DEF Init, ReplayInv, TypeOK, ClaimsOK, RowsOK, KeptOK, StoredOnce, Stored, RecordedOK,
      ReplayWasRecorded, Answered

(* Every step keeps the types.                                             *)
LEMMA TypeStep == TypeOK /\ [Next]_vars => TypeOK'
<1> SUFFICES ASSUME TypeOK, [Next]_vars PROVE TypeOK'
  OBVIOUS
<1> USE ConstantTypes
<1>1. CASE Tick
  BY <1>1 DEF Tick, TypeOK
<1>2. CASE Restart
  BY <1>2 DEF Restart, TypeOK, Answered
<1>3. ASSUME NEW p \in Presentations, Arrive(p) PROVE TypeOK'
  <2>1. CASE Goto(p, "rejected") /\ UNCHANGED seen
    BY <1>3, <2>1, GotoTypes DEF Arrive, TypeOK, Answered
  <2>2. CASE \E m \in Pruned(seen[ThreadOf[p]], now) :
               /\ seen' = [seen EXCEPT ![ThreadOf[p]] = m]
               /\ Goto(p, IF m[KeyOf[p]] # Absent THEN "replay" ELSE "checked")
    <3>1. PICK m \in Pruned(seen[ThreadOf[p]], now) :
               /\ seen' = [seen EXCEPT ![ThreadOf[p]] = m]
               /\ Goto(p, IF m[KeyOf[p]] # Absent THEN "replay" ELSE "checked")
      BY <2>2
    <3>2. seen' \in [Threads -> [Keys -> Nat \cup {Absent}]]
      BY <3>1, PrunedForgets DEF TypeOK
    <3>3. /\ pc' \in [Presentations -> {"idle", "checked", "writing", "stored"} \cup Answered]
          /\ checked' \in [Presentations -> Nat]
      BY <3>1, GotoTypes DEF Answered
    <3> QED
      BY <1>3, <3>2, <3>3 DEF Arrive, TypeOK
  <2> QED
    BY <1>3, <2>1, <2>2 DEF Arrive
<1>4. ASSUME NEW p \in Presentations, BadSignature(p) \/ StoreUnavailable(p) PROVE TypeOK'
  BY <1>4, GotoTypes DEF BadSignature, StoreUnavailable, TypeOK, Answered
<1>5. ASSUME NEW p \in Presentations, Claim(p) PROVE TypeOK'
  <2>1. /\ pc' \in [Presentations -> {"idle", "checked", "writing", "stored"} \cup Answered]
        /\ checked' \in [Presentations -> Nat]
    BY <1>5, GotoTypes DEF Claim, Answered
  <2>2. seen' \in [Threads -> [Keys -> Nat \cup {Absent}]]
    BY <1>5, RememberTypes DEF Claim, TypeOK
  <2>3. lock' \in [Keys -> Presentations \cup {NoOne}]
    BY <1>5 DEF Claim, TypeOK
  <2> QED
    BY <1>5, <2>1, <2>2, <2>3 DEF Claim, TypeOK
<1>6. ASSUME NEW p \in Presentations, Commit(p) PROVE TypeOK'
  BY <1>6, GotoTypes DEF Commit, TypeOK
<1>7. ASSUME NEW p \in Presentations, PutThrows(p) PROVE TypeOK'
  BY <1>7, GotoTypes DEF PutThrows, TypeOK, Answered
<1>8. ASSUME NEW p \in Presentations, Accept(p) PROVE TypeOK'
  BY <1>8, GotoTypes, RememberTypes DEF Accept, TypeOK, Answered
<1>9. ASSUME NEW k \in Keys, Expire(k) PROVE TypeOK'
  BY <1>9 DEF Expire, TypeOK
<1>10. CASE UNCHANGED vars
  BY <1>10 DEF vars, TypeOK
<1> QED
  BY <1>1, <1>2, <1>3, <1>4, <1>5, <1>6, <1>7, <1>8, <1>9, <1>10 DEF Next, Request

-----------------------------------------------------------------------------
(* A presentation that claims finds the row of a key that was stored: it   *)
(* is too early for the row to have been evicted.                          *)
LEMMA ClaimFindsRow ==
  ASSUME ReplayInv, NEW p \in Presentations, pc[p] = "checked", row[KeyOf[p]] = Absent,
         NEW q \in Presentations, KeyOf[q] = KeyOf[p]
  PROVE  ~Stored(q)
BY ConstantTypes DEF ReplayInv, TypeOK, ClaimsOK, KeptOK

(* Ending a presentation that holds no lock and stored nothing.            *)
LEMMA OverInv ==
  ASSUME ReplayInv, TypeOK', NEW p \in Presentations,
         NEW w \in {"replay", "contended", "unavailable", "rejected"}, Goto(p, w),
         pc[p] \in {"idle", "checked"}, UNCHANGED <<now, row, lock>>
  PROVE  ReplayInv'
BY ConstantTypes DEF ReplayInv, TypeOK, Goto, ClaimsOK, RowsOK, KeptOK, StoredOnce, Stored

(* Every step keeps the inductive invariant.                               *)
LEMMA ReplayStep == ReplayInv /\ [Next]_vars => ReplayInv'
<1> SUFFICES ASSUME ReplayInv, [Next]_vars PROVE ReplayInv'
  OBVIOUS
<1>0. TypeOK'
  BY TypeStep DEF ReplayInv
<1> USE ConstantTypes, <1>0
<1>1. CASE Tick
  BY <1>1 DEF Tick, ReplayInv, TypeOK, ClaimsOK, RowsOK, KeptOK, StoredOnce, Stored
<1>2. CASE Restart
  BY <1>2 DEF Restart, ReplayInv, TypeOK, ClaimsOK, RowsOK, KeptOK, StoredOnce, Stored
<1>3. ASSUME NEW p \in Presentations, Arrive(p) PROVE ReplayInv'
  <2>1. CASE Goto(p, "rejected") \/ Goto(p, "replay")
    BY <1>3, <2>1, OverInv DEF Arrive
  <2>2. CASE /\ Goto(p, "checked")
             /\ ~(now - SignedAt[KeyOf[p]] > Window \/ SignedAt[KeyOf[p]] - now > Window)
    BY <1>3, <2>2 DEF Arrive, Goto, ReplayInv, TypeOK, ClaimsOK, RowsOK, KeptOK, StoredOnce, Stored
  <2> QED
    BY <1>3, <2>1, <2>2 DEF Arrive
<1>4. ASSUME NEW p \in Presentations, BadSignature(p) \/ StoreUnavailable(p) PROVE ReplayInv'
  BY <1>4, OverInv DEF BadSignature, StoreUnavailable
<1>5. ASSUME NEW p \in Presentations, Claim(p) PROVE ReplayInv'
  <2>1. CASE (Goto(p, "contended") \/ Goto(p, "replay")) /\ UNCHANGED lock
    BY <1>5, <2>1, OverInv DEF Claim
  <2>2. CASE /\ lock[KeyOf[p]] = NoOne /\ row[KeyOf[p]] = Absent
             /\ Goto(p, "writing") /\ lock' = [lock EXCEPT ![KeyOf[p]] = p]
    <3>1. \A q \in Presentations : KeyOf[q] = KeyOf[p] => ~Stored(q)
      BY <1>5, <2>2, ClaimFindsRow DEF Claim
    <3>2. \A q \in Presentations : KeyOf[q] = KeyOf[p] => pc[q] \notin {"writing", "stored"}
      BY <2>2 DEF ReplayInv, ClaimsOK
    <3>3. ClaimsOK'
      BY <1>5, <2>2, <3>2 DEF Claim, Goto, ReplayInv, TypeOK, ClaimsOK
    <3>4. KeptOK' /\ RowsOK'
      BY <1>5, <2>2 DEF Claim, Goto, ReplayInv, TypeOK, KeptOK, RowsOK, Stored
    <3>5. StoredOnce'
      BY <1>5, <2>2, <3>1 DEF Claim, Goto, ReplayInv, TypeOK, StoredOnce, Stored
    <3> QED
      BY <3>3, <3>4, <3>5 DEF ReplayInv
  <2> QED
    BY <1>5, <2>1, <2>2 DEF Claim
<1>6. ASSUME NEW p \in Presentations, Commit(p) PROVE ReplayInv'
  <2>1. \A q \in Presentations : KeyOf[q] = KeyOf[p] /\ q # p => pc[q] # "writing" /\ ~Stored(q)
    BY <1>6 DEF Commit, ReplayInv, ClaimsOK, StoredOnce
  <2>2. ClaimsOK' /\ RowsOK'
    BY <1>6 DEF Commit, Goto, ReplayInv, TypeOK, ClaimsOK, RowsOK
  <2>3. KeptOK'
    BY <1>6 DEF Commit, Goto, ReplayInv, TypeOK, KeptOK, Stored, Absent
  <2>4. StoredOnce'
    BY <1>6, <2>1 DEF Commit, Goto, ReplayInv, TypeOK, StoredOnce, Stored
  <2> QED
    BY <2>2, <2>3, <2>4 DEF ReplayInv
<1>7. ASSUME NEW p \in Presentations, PutThrows(p) PROVE ReplayInv'
  <2>1. \A q \in Presentations : KeyOf[q] = KeyOf[p] /\ q # p => pc[q] \notin {"writing", "stored"}
    BY <1>7 DEF PutThrows, ReplayInv, ClaimsOK
  <2>2. ClaimsOK'
    BY <1>7, <2>1 DEF PutThrows, Goto, ReplayInv, TypeOK, ClaimsOK
  <2>3. RowsOK' /\ KeptOK' /\ StoredOnce'
    BY <1>7 DEF PutThrows, Goto, ReplayInv, TypeOK, RowsOK, KeptOK, StoredOnce, Stored
  <2> QED
    BY <2>2, <2>3 DEF ReplayInv
<1>8. ASSUME NEW p \in Presentations, Accept(p) PROVE ReplayInv'
  <2>1. \A q \in Presentations : KeyOf[q] = KeyOf[p] /\ q # p => pc[q] \notin {"writing", "stored"}
    BY <1>8 DEF Accept, ReplayInv, ClaimsOK
  <2>2. ClaimsOK'
    BY <1>8, <2>1 DEF Accept, Goto, ReplayInv, TypeOK, ClaimsOK
  <2>3. RowsOK' /\ KeptOK' /\ StoredOnce'
    BY <1>8 DEF Accept, Goto, ReplayInv, TypeOK, RowsOK, KeptOK, StoredOnce, Stored
  <2> QED
    BY <2>2, <2>3 DEF ReplayInv
<1>9. ASSUME NEW k \in Keys, Expire(k) PROVE ReplayInv'
  <2>1. now >= SignedAt[k] - Window + Retention
    BY <1>9 DEF Expire, ReplayInv, TypeOK, RowsOK, Absent
  <2>2. KeptOK' /\ RowsOK'
    BY <1>9, <2>1 DEF Expire, ReplayInv, TypeOK, KeptOK, RowsOK, Stored
  <2>3. ClaimsOK' /\ StoredOnce'
    BY <1>9 DEF Expire, ReplayInv, ClaimsOK, StoredOnce, Stored
  <2> QED
    BY <2>2, <2>3 DEF ReplayInv
<1>10. CASE UNCHANGED vars
  BY <1>10 DEF vars, ReplayInv, ClaimsOK, RowsOK, KeptOK, StoredOnce, Stored
<1> QED
  BY <1>1, <1>2, <1>3, <1>4, <1>5, <1>6, <1>7, <1>8, <1>9, <1>10 DEF Next, Request

-----------------------------------------------------------------------------
(* Every step keeps what is remembered within what was recorded.           *)
LEMMA RecordedStep ==
  TypeOK /\ RecordedOK /\ ReplayWasRecorded /\ [Next]_vars => RecordedOK' /\ ReplayWasRecorded'
<1> SUFFICES ASSUME TypeOK, RecordedOK, ReplayWasRecorded, [Next]_vars
             PROVE  RecordedOK' /\ ReplayWasRecorded'
  OBVIOUS
<1> USE ConstantTypes
<1>1. CASE Tick \/ Restart
  BY <1>1 DEF Tick, Restart, TypeOK, RecordedOK, ReplayWasRecorded
<1>2. ASSUME NEW p \in Presentations, Arrive(p) PROVE RecordedOK' /\ ReplayWasRecorded'
  <2>1. CASE Goto(p, "rejected") /\ UNCHANGED seen
    BY <1>2, <2>1 DEF Arrive, Goto, TypeOK, RecordedOK, ReplayWasRecorded
  <2>2. ASSUME NEW m \in Pruned(seen[ThreadOf[p]], now), seen' = [seen EXCEPT ![ThreadOf[p]] = m],
               Goto(p, IF m[KeyOf[p]] # Absent THEN "replay" ELSE "checked")
        PROVE  RecordedOK' /\ ReplayWasRecorded'
    <3>1. \A k \in Keys : m[k] # Absent => k \in recorded
      BY PrunedForgets DEF RecordedOK
    <3>2. RecordedOK'
      BY <1>2, <2>2, <3>1 DEF Arrive, Goto, TypeOK, RecordedOK
    <3>3. ReplayWasRecorded'
      BY <1>2, <2>2, <3>1 DEF Arrive, Goto, TypeOK, ReplayWasRecorded
    <3> QED
      BY <3>2, <3>3
  <2> QED
    BY <1>2, <2>1, <2>2 DEF Arrive
<1>3. ASSUME NEW p \in Presentations, BadSignature(p) \/ StoreUnavailable(p) \/ PutThrows(p)
      PROVE RecordedOK' /\ ReplayWasRecorded'
  BY <1>3 DEF BadSignature, StoreUnavailable, PutThrows, Goto, TypeOK, RecordedOK, ReplayWasRecorded
<1>4. ASSUME NEW p \in Presentations, Claim(p) PROVE RecordedOK' /\ ReplayWasRecorded'
  <2>1. CASE UNCHANGED seen /\ (Goto(p, "contended") \/ Goto(p, "writing"))
    BY <1>4, <2>1 DEF Claim, Goto, TypeOK, RecordedOK, ReplayWasRecorded
  <2>2. CASE row[KeyOf[p]] # Absent /\ Goto(p, "replay") /\ Remember(p, now)
    <3>1. KeyOf[p] \in recorded
      BY <2>2 DEF RecordedOK
    <3>2. RecordedOK'
      BY <1>4, <2>2, <3>1, RememberTypes DEF Claim, Goto, TypeOK, RecordedOK
    <3> QED
      BY <1>4, <2>2, <3>1, <3>2 DEF Claim, Goto, TypeOK, ReplayWasRecorded
  <2> QED
    BY <1>4, <2>1, <2>2 DEF Claim
<1>5. ASSUME NEW p \in Presentations, Commit(p) PROVE RecordedOK' /\ ReplayWasRecorded'
  BY <1>5 DEF Commit, Goto, TypeOK, RecordedOK, ReplayWasRecorded
<1>6. ASSUME NEW p \in Presentations, Accept(p) PROVE RecordedOK' /\ ReplayWasRecorded'
  <2>1. KeyOf[p] \in recorded
    BY <1>6 DEF Accept, RecordedOK
  <2>2. RecordedOK'
    BY <1>6, <2>1, RememberTypes DEF Accept, Goto, TypeOK, RecordedOK
  <2> QED
    BY <1>6, <2>2 DEF Accept, Goto, TypeOK, ReplayWasRecorded
<1>7. ASSUME NEW k \in Keys, Expire(k) PROVE RecordedOK' /\ ReplayWasRecorded'
  BY <1>7 DEF Expire, TypeOK, RecordedOK, ReplayWasRecorded
<1>8. CASE UNCHANGED vars
  BY <1>8 DEF vars, RecordedOK, ReplayWasRecorded
<1> QED
  BY <1>1, <1>2, <1>3, <1>4, <1>5, <1>6, <1>7, <1>8 DEF Next, Request

-----------------------------------------------------------------------------
(* The inductive invariant of the single-use record.                       *)
THEOREM ReplayInvariant == Spec => [](ReplayInv /\ RecordedOK /\ ReplayWasRecorded)
<1>1. /\ ReplayInv /\ RecordedOK /\ ReplayWasRecorded
      /\ [Next]_vars
      => (ReplayInv /\ RecordedOK /\ ReplayWasRecorded)'
  BY ReplayStep, RecordedStep DEF ReplayInv
<1> QED
  BY InitInv, <1>1, PTL DEF Spec

(* Type correctness, for any keys, presentations and threads.              *)
THEOREM ReplayTypeCorrect == Spec => []TypeOK
<1>1. ReplayInv => TypeOK
  BY DEF ReplayInv
<1> QED
  BY ReplayInvariant, <1>1, PTL

(* No signed request is accepted twice.                                    *)
THEOREM RequestsAreAcceptedOnce == Spec => []AcceptedOnce
<1>1. ReplayInv => AcceptedOnce
  BY DEF ReplayInv, StoredOnce, Stored, AcceptedOnce
<1> QED
  BY ReplayInvariant, <1>1, PTL

(* No request is refused as a remembered or recorded replay of a key that  *)
(* was never recorded.                                                     *)
THEOREM ReplaysWereRecorded == Spec => []ReplayWasRecorded
BY ReplayInvariant, PTL
=============================================================================
