------------------------- MODULE FederationSyncProofs -------------------------
(***************************************************************************)
(* Proofs about the push of memories, for any memories, writes, failures   *)
(* and lengths of time.                                                    *)
(*                                                                         *)
(* That the cursor covers what is below it is not inductive.  A run that   *)
(* moves the cursor must have accounted for every memory its query found:  *)
(* one the hub has not had and that has no retry row is still on offer in  *)
(* the version the spoke has (Selected, OfferCurrent), and one that was    *)
(* answered for good has been at the hub in the version offered (Answers). *)
(* What was committed after the query is above the cursor or late          *)
(* (FreshCovered).                                                         *)
(*                                                                         *)
(* That no merge sets the hub back rests on its lock and on its check of   *)
(* the row: at most one merge of a memory is confirmed (LockAlone), and    *)
(* the memory is the one it was decided on until a writer of the hub       *)
(* crosses it (RowsConfirmed).                                             *)
(***************************************************************************)
EXTENDS FederationSync, TLAPS

(* How the parts of a run nest.                                            *)
Shape ==
  /\ batch \subseteq Offered
  /\ \A C \in chunks : C \subseteq batch
  /\ chunk \subseteq batch
  /\ pc \in {"idle", "query", "reoffer", "batch"} => batch = {}
  /\ pc \in {"idle", "query", "reoffer", "batch", "apply"} => chunks = {}
  /\ pc # "wait" => chunk = {} /\ cur = None
  /\ \A r \in Rows : reply[r] # None => r \in batch
  /\ cur # None => cur.row \in chunk /\ cur.ver = offer[cur.row]

(* Nothing that is on its way to the hub is private.                       *)
OpenTo(m) == m.ver.kind # "private" /\ (m.base # None => m.base.kind # "private")
OnTheWay ==
  /\ \A r \in Rows : offer[r] # None => offer[r].kind # "private"
  /\ \A m \in merges : OpenTo(m)
  /\ cur # None => OpenTo(cur)

(* At most one merge of a memory is confirmed.                             *)
LockAlone ==
  /\ \A m, n \in merges :
       m.step = "confirmed" /\ n.step = "confirmed" /\ m.row = n.row => m = n
  /\ cur # None /\ cur.step = "confirmed" =>
       \A m \in merges : m.step = "confirmed" => m.row # cur.row

RowsConfirmed ==
  \A m \in Working : m.step = "confirmed" => hub[m.row] = m.base \/ m.row \in crossed

(* What the hub stores now it has had.                                     *)
HubHad == \A r \in Rows : Holds(hub[r], src[r]) => r \in had

Answers == \A r \in Rows \ fresh : reply[r] = "ended" /\ Owed(r) => r \in had

FreshCovered == \A r \in fresh : src[r] # None /\ src[r].at <= cursor => r \in late

OfferCurrent ==
  \A r \in Rows \ fresh : src[r] # None /\ offer[r] # None => offer[r] = src[r]

(* The memory has been at the hub, or will be offered again, or is late.   *)
Safe(r) == Delivered(r) \/ r \in Pending \/ r \in late

Selected ==
  pc \in {"reoffer", "batch", "send", "wait", "apply"} =>
    \A r \in Rows \ fresh : Owed(r) => Safe(r) \/ offer[r] = src[r]

CoversSafe == \A r \in Rows : Owed(r) /\ src[r].at <= cursor => Safe(r)

(* A step that is no write of its own keeps each memory of the hub in a    *)
(* version no older, unless it was crossed.                                *)
HubKept ==
  \A r \in Rows :
    hub[r] # None /\ writes' = writes /\ r \notin crossed =>
      hub'[r] # None /\ hub'[r].at >= hub[r].at

RunInv == TypeOK /\ Shape
HubInv == RunInv /\ LockAlone /\ RowsConfirmed
PrivacyInv == RunInv /\ OnTheWay /\ PrivateStays
SyncInv == RunInv /\ HubHad /\ Answers /\ FreshCovered /\ OfferCurrent /\ Selected /\ CursorCovers

-----------------------------------------------------------------------------
(* The assumptions on the constants, as the leaves use them.               *)
LEMMA SyncConstants ==
  /\ MaxTime \in Nat \ {0} /\ MaxWrites \in Nat /\ MaxFaults \in Nat
  /\ None \notin Version /\ None \notin Merge
  /\ None # "ended" /\ None # "retry"
BY SyncAssumption

LEMMA StampIsNat == \A v \in Version : v.at \in Nat
BY SyncConstants DEF Version

LEMMA InitRun == Init => RunInv
BY SyncConstants DEF Init, RunInv, TypeOK, Shape, NoOffer, Store, Offered

(* What the hub's own writers leave: a shared version, or nothing.         *)
HubVersions == {None} \cup {v \in Version : v.kind = "shared"}

LEMMA HubWritesOnly ==
  ASSUME NEW r \in Rows, HubPut(r) \/ HubDelete(r)
  PROVE \E v \in HubVersions : HubWrite(r, v)
<1>1. ASSUME NEW t \in 1 .. MaxTime
      PROVE [at |-> t, kind |-> "shared", by |-> "hub"] \in HubVersions
  BY SyncConstants DEF HubVersions, Version, Kinds
<1> QED
  BY <1>1 DEF HubPut, HubDelete, HubVersions

(* What a request carries is a version, and what it leaves behind a merge. *)
LEMMA AskedIsOffered ==
  ASSUME TypeOK, Shape, NEW r \in asked PROVE r \in Rows /\ offer[r] \in Version
BY SyncConstants DEF TypeOK, Shape, Store, Offered

LEMMA MergeOfVersion ==
  ASSUME NEW r \in Rows, NEW v \in Version, NEW b \in Version \cup {None},
         NEW d \in {"new", "decided", "confirmed"}
  PROVE [row |-> r, ver |-> v, step |-> d, base |-> b] \in Merge
BY DEF Merge

LEMMA MergeParts ==
  ASSUME NEW m \in Merge
  PROVE /\ m.row \in Rows /\ m.ver \in Version /\ m.base \in Version \cup {None}
        /\ m.step \in {"new", "decided", "confirmed"}
BY DEF Merge

LEMMA LeftAreMerges == TypeOK /\ Shape => LeftAtHub \subseteq Merge
<1> SUFFICES ASSUME TypeOK, Shape, NEW m \in LeftAtHub PROVE m \in Merge
  OBVIOUS
<1>1. CASE m = cur /\ cur # None
  BY <1>1 DEF TypeOK
<1>2. ASSUME NEW r \in asked, m = [row |-> r, ver |-> offer[r], step |-> "new", base |-> None]
      PROVE m \in Merge
  BY <1>2, AskedIsOffered, MergeOfVersion
<1> QED
  BY <1>1, <1>2 DEF LeftAtHub

(* A merge that has read the hub's row, and one that is confirmed.         *)
LEMMA MergeReads ==
  ASSUME NEW m \in Merge, NEW b \in Version \cup {None}
  PROVE LET d == [m EXCEPT !.step = "decided", !.base = b] IN
        d \in Merge /\ d.row = m.row /\ d.ver = m.ver /\ d.step = "decided" /\ d.base = b
BY DEF Merge

LEMMA MergeConfirms ==
  ASSUME NEW m \in Merge
  PROVE LET d == [m EXCEPT !.step = "confirmed"] IN
        d \in Merge /\ d.row = m.row /\ d.ver = m.ver /\ d.step = "confirmed" /\ d.base = m.base
BY DEF Merge

(* What a merge leaves stored: the row it was decided on, its record, or   *)
(* the row that is there; and what it stores of its own is no older than   *)
(* the first two.                                                          *)
LEMMA KeptAre ==
  ASSUME TypeOK, NEW m \in Merge
  PROVE /\ \A v \in Kept(m) : v \in {m.base, m.ver, hub[m.row]} /\ v \in Version \cup {None}
        /\ Outcome(m) # None /\ Outcome(m).at >= m.ver.at
        /\ m.base # None => Outcome(m).at >= m.base.at
<1>1. hub[m.row] \in Version \cup {None}
  BY MergeParts DEF TypeOK, Store
<1> QED
  BY <1>1, MergeParts, StampIsNat, SyncConstants DEF Kept, Outcome, Newer

(* Every step keeps the types.                                             *)
LEMMA StepType == RunInv /\ [Next]_vars => TypeOK'
<1> SUFFICES ASSUME TypeOK, Shape, [Next]_vars PROVE TypeOK'
  BY DEF RunInv
<1> USE SyncConstants DEF TypeOK, Shape, Store, NoOffer, Offered
<1>1. CASE Tick
  BY <1>1 DEF Tick, storeVars, hubVars, runVars
<1>2. ASSUME NEW r \in Rows, NEW k \in Kinds, BeginPut(r, k) PROVE TypeOK'
  BY <1>2 DEF BeginPut, storeVars, hubVars, runVars, Version
<1>3. ASSUME NEW r \in Rows, CommitPut(r) PROVE TypeOK'
  BY <1>3 DEF CommitPut, storeVars, hubVars, runVars
<1>4. ASSUME NEW r \in Rows, DeleteRow(r) PROVE TypeOK'
  BY <1>4 DEF DeleteRow, storeVars, hubVars, runVars
<1>5. ASSUME NEW r \in Rows, NEW v \in HubVersions, HubWrite(r, v) PROVE TypeOK'
  BY <1>5 DEF HubWrite, StoreAtHub, HubVersions, storeVars, hubVars, runVars
<1>6. CASE StartRun
  BY <1>6 DEF StartRun, storeVars, hubVars, runVars
<1>7. CASE QueryRows
  BY <1>7 DEF QueryRows, storeVars, hubVars, runVars
<1>8. CASE ReofferRows
  BY <1>8 DEF ReofferRows, storeVars, hubVars, runVars
<1>9. CASE NextBatch
  BY <1>9 DEF NextBatch, storeVars, hubVars, runVars, Pending
<1>10. CASE SendChunk
  BY <1>10 DEF SendChunk, storeVars, hubVars, runVars
<1>11. CASE ChunkAnswered
  BY <1>11 DEF ChunkAnswered, storeVars, hubVars, runVars
<1>12. CASE ChunkLost
  <2>1. merges' \subseteq Merge
    BY <1>12, LeftAreMerges DEF ChunkLost, MergesLeft
  <2> QED
    BY <1>12, <2>1 DEF ChunkLost, storeVars, hubVars, runVars, Fault, EndRun, MergesLeft
<1>13. ASSUME NEW r \in Rows, ApplyOutcome(r) PROVE TypeOK'
  BY <1>13 DEF ApplyOutcome, storeVars, hubVars, runVars
<1>14. CASE AdvanceCursor
  BY <1>14 DEF AdvanceCursor, storeVars, hubVars, runVars, EndRun
<1>15. CASE RunStops
  <2>1. merges' \subseteq Merge
    BY <1>15, LeftAreMerges DEF RunStops, MergesLeft
  <2> QED
    BY <1>15, <2>1 DEF RunStops, storeVars, hubVars, runVars, Fault, EndRun, MergesLeft
<1>16. ASSUME NEW r \in Rows, BackoffEnds(r) PROVE TypeOK'
  BY <1>16 DEF BackoffEnds, storeVars, hubVars, runVars
<1>17. ASSUME NEW r \in Rows, BeginMerge(r) PROVE TypeOK'
  <2>1. offer[r] \in Version /\ hub[r] \in Version \cup {None}
    BY <1>17, AskedIsOffered DEF BeginMerge
  <2>2. [row |-> r, ver |-> offer[r], step |-> "decided", base |-> hub[r]] \in Merge
    BY <2>1, MergeOfVersion
  <2>3. cur' \in Merge \cup {None}
    BY <1>17, <2>2 DEF BeginMerge
  <2> QED
    BY <1>17, <2>3 DEF BeginMerge, storeVars, hubVars, runVars
<1>18. CASE ConfirmMerge
  <2>1. cur' \in Merge \cup {None}
    BY <1>18, MergeConfirms DEF ConfirmMerge
  <2> QED
    BY <1>18, <2>1 DEF ConfirmMerge, storeVars, hubVars, runVars
<1>19. CASE CommitMerge
  <2>1. cur \in Merge /\ cur.row \in Rows
    BY <1>19, MergeParts DEF CommitMerge
  <2> QED
    BY <1>19, <2>1, KeptAre DEF CommitMerge, StoreAtHub, MergesLeft, storeVars, hubVars, runVars
<1>20. CASE MergeUndecided
  BY <1>20 DEF MergeUndecided, storeVars, hubVars, runVars, Fault, MergesLeft
<1>21. ASSUME NEW m \in merges, LateRead(m) PROVE TypeOK'
  <2>1. m \in Merge /\ hub[m.row] \in Version \cup {None}
    BY MergeParts
  <2>2. [m EXCEPT !.step = "decided", !.base = hub[m.row]] \in Merge
    BY <2>1, MergeReads
  <2>3. merges' \subseteq Merge
    BY <1>21, <2>2 DEF LateRead
  <2> QED
    BY <1>21, <2>3 DEF LateRead, storeVars, hubVars, runVars
<1>22. ASSUME NEW m \in merges, LateConfirm(m) PROVE TypeOK'
  <2>1. merges' \subseteq Merge
    BY <1>22, MergeConfirms DEF LateConfirm
  <2> QED
    BY <1>22, <2>1 DEF LateConfirm, storeVars, hubVars, runVars
<1>23. ASSUME NEW m \in merges, LateCommit(m) PROVE TypeOK'
  <2>1. m \in Merge /\ m.row \in Rows
    BY MergeParts
  <2> QED
    BY <1>23, <2>1, KeptAre DEF LateCommit, StoreAtHub, MergesLeft, storeVars, hubVars, runVars
<1>24. CASE UNCHANGED vars
  BY <1>24 DEF vars, storeVars, hubVars, runVars
<1> QED
  BY <1>1, <1>2, <1>3, <1>4, <1>5, <1>6, <1>7, <1>8, <1>9, <1>10, <1>11, <1>12,
     <1>13, <1>14, <1>15, <1>16, <1>17, <1>18, <1>19, <1>20, <1>21, <1>22, <1>23, <1>24, HubWritesOnly
  DEF Next, SenderStep, HubStep, LateStep, Writes

(* Every step keeps the parts of the run nested.                           *)
LEMMA StepShape == RunInv /\ [Next]_vars => Shape'
<1> SUFFICES ASSUME TypeOK, Shape, [Next]_vars PROVE Shape'
  BY DEF RunInv
<1> USE SyncConstants DEF TypeOK, Shape, Store, NoOffer, Offered
<1>1. CASE Tick
  BY <1>1 DEF Tick, storeVars, hubVars, runVars
<1>2. ASSUME NEW r \in Rows, NEW k \in Kinds, BeginPut(r, k) PROVE Shape'
  BY <1>2 DEF BeginPut, storeVars, hubVars, runVars
<1>3. ASSUME NEW r \in Rows, CommitPut(r) PROVE Shape'
  BY <1>3 DEF CommitPut, storeVars, hubVars, runVars
<1>4. ASSUME NEW r \in Rows, DeleteRow(r) PROVE Shape'
  BY <1>4 DEF DeleteRow, storeVars, hubVars, runVars
<1>5. ASSUME NEW r \in Rows, NEW v \in HubVersions, HubWrite(r, v) PROVE Shape'
  BY <1>5 DEF HubWrite, storeVars, hubVars, runVars, StoreAtHub
<1>6. CASE StartRun
  BY <1>6 DEF StartRun, storeVars, hubVars, runVars
<1>7. CASE QueryRows
  BY <1>7 DEF QueryRows, storeVars, hubVars, runVars
<1>8. CASE ReofferRows
  BY <1>8 DEF ReofferRows, storeVars, hubVars, runVars
<1>9. CASE NextBatch
  BY <1>9 DEF NextBatch, storeVars, hubVars, runVars
<1>10. CASE SendChunk
  BY <1>10 DEF SendChunk, storeVars, hubVars, runVars
<1>11. CASE ChunkAnswered
  BY <1>11 DEF ChunkAnswered, storeVars, hubVars, runVars
<1>12. CASE ChunkLost
  BY <1>12 DEF ChunkLost, storeVars, hubVars, runVars, Fault, EndRun, MergesLeft
<1>13. ASSUME NEW r \in Rows, ApplyOutcome(r) PROVE Shape'
  BY <1>13 DEF ApplyOutcome, storeVars, hubVars, runVars
<1>14. CASE AdvanceCursor
  BY <1>14 DEF AdvanceCursor, storeVars, hubVars, runVars, EndRun
<1>15. CASE RunStops
  BY <1>15 DEF RunStops, storeVars, hubVars, runVars, Fault, EndRun, MergesLeft
<1>16. ASSUME NEW r \in Rows, BackoffEnds(r) PROVE Shape'
  BY <1>16 DEF BackoffEnds, storeVars, hubVars, runVars
<1>17. ASSUME NEW r \in Rows, BeginMerge(r) PROVE Shape'
  BY <1>17 DEF BeginMerge, storeVars, hubVars, runVars
<1>18. CASE ConfirmMerge
  <2>1. cur' = None \/ (cur' # None /\ cur'.row = cur.row /\ cur'.ver = cur.ver)
    BY <1>18, MergeConfirms DEF ConfirmMerge
  <2> QED
    BY <1>18, <2>1 DEF ConfirmMerge, storeVars, hubVars, runVars
<1>19. CASE CommitMerge
  BY <1>19 DEF CommitMerge, storeVars, hubVars, runVars, StoreAtHub, MergesLeft
<1>20. CASE MergeUndecided
  BY <1>20 DEF MergeUndecided, storeVars, hubVars, runVars, Fault, MergesLeft
<1>21. ASSUME NEW m \in merges, LateRead(m) PROVE Shape'
  BY <1>21 DEF LateRead, storeVars, hubVars, runVars
<1>22. ASSUME NEW m \in merges, LateConfirm(m) PROVE Shape'
  BY <1>22 DEF LateConfirm, storeVars, hubVars, runVars
<1>23. ASSUME NEW m \in merges, LateCommit(m) PROVE Shape'
  BY <1>23 DEF LateCommit, storeVars, hubVars, runVars, StoreAtHub, MergesLeft
<1>24. CASE UNCHANGED vars
  BY <1>24 DEF vars, storeVars, hubVars, runVars
<1> QED
  BY <1>1, <1>2, <1>3, <1>4, <1>5, <1>6, <1>7, <1>8, <1>9, <1>10, <1>11, <1>12,
     <1>13, <1>14, <1>15, <1>16, <1>17, <1>18, <1>19, <1>20, <1>21, <1>22, <1>23, <1>24, HubWritesOnly
  DEF Next, SenderStep, HubStep, LateStep, Writes

(* A request leaves nothing behind but versions on offer.                  *)
LEMMA LeftIsOffered ==
  ASSUME TypeOK, Shape, NEW m \in LeftAtHub
  PROVE \/ m = cur /\ cur # None
        \/ /\ m.step = "new" /\ m.base = None
           /\ \E r \in Rows : offer[r] # None /\ m.ver = offer[r]
<1>1. ASSUME NEW r \in asked, m = [row |-> r, ver |-> offer[r], step |-> "new", base |-> None]
      PROVE r \in Rows /\ offer[r] # None /\ m.ver = offer[r] /\ m.step = "new" /\ m.base = None
  BY <1>1, AskedIsOffered, SyncConstants
<1> QED
  BY <1>1 DEF LeftAtHub

-----------------------------------------------------------------------------
(* The lock of the merges and the row they are confirmed on.               *)

LEMMA InitLock == Init => LockAlone /\ RowsConfirmed
BY DEF Init, LockAlone, RowsConfirmed, Working

(* A step that confirms no merge and stores nothing at the hub.            *)
LEMMA LockKept ==
  ASSUME LockAlone, RowsConfirmed, hub' = hub,
         \A m \in merges' : m.step = "confirmed" => m \in merges \/ (m = cur /\ cur # None /\ cur' = None),
         cur' # None => cur' = cur \/ cur'.step # "confirmed",
         \A r \in crossed : Locked(r)' => r \in crossed'
  PROVE LockAlone' /\ RowsConfirmed'
<1>1. LockAlone'
  BY DEF LockAlone
<1>2. ASSUME NEW m \in Working', m.step = "confirmed" PROVE hub'[m.row] = m.base \/ m.row \in crossed'
  <2>1. m \in Working
    BY <1>2 DEF Working
  <2>2. Locked(m.row)'
    BY <1>2 DEF Locked
  <2> QED
    BY <1>2, <2>1, <2>2 DEF RowsConfirmed
<1> QED
  BY <1>1, <1>2 DEF RowsConfirmed

(* A merge that ends with its commit leaves the others on their rows.      *)
LEMMA CommitKeepsLock ==
  ASSUME LockAlone, RowsConfirmed, NEW d \in Working, d.step = "confirmed",
         NEW v, hub' = [hub EXCEPT ![d.row] = v], merges' \subseteq merges,
         cur' = None \/ cur' = cur,
         \A m \in Working' : m.step = "confirmed" => m.row # d.row,
         crossed' = {r \in crossed : Locked(r)'}
  PROVE LockAlone' /\ RowsConfirmed'
<1>1. LockAlone'
  BY DEF LockAlone
<1>2. ASSUME NEW m \in Working', m.step = "confirmed" PROVE hub'[m.row] = m.base \/ m.row \in crossed'
  <2>1. m \in Working /\ m.row # d.row
    BY <1>2 DEF Working
  <2>2. Locked(m.row)'
    BY <1>2 DEF Locked
  <2>3. hub'[m.row] = hub[m.row]
    BY <2>1
  <2> QED
    BY <1>2, <2>1, <2>2, <2>3 DEF RowsConfirmed
<1> QED
  BY <1>1, <1>2 DEF RowsConfirmed

(* A merge is confirmed only when no other merge of its memory is, on the  *)
(* row it was decided on.                                                  *)
LEMMA StepLock == HubInv /\ [Next]_vars => (LockAlone /\ RowsConfirmed)'
<1> SUFFICES ASSUME TypeOK, Shape, LockAlone, RowsConfirmed, [Next]_vars
             PROVE (LockAlone /\ RowsConfirmed)'
  BY DEF HubInv, RunInv
<1> USE SyncConstants DEF TypeOK
<1>w. ASSUME hub' = hub, merges' = merges, cur' = cur, crossed' = crossed
      PROVE (LockAlone /\ RowsConfirmed)'
  BY <1>w, LockKept
<1>1. CASE Tick
  BY <1>1, <1>w DEF Tick, storeVars, hubVars, runVars
<1>2. ASSUME NEW r \in Rows, NEW k \in Kinds, BeginPut(r, k) PROVE (LockAlone /\ RowsConfirmed)'
  BY <1>2, <1>w DEF BeginPut, storeVars, hubVars, runVars
<1>3. ASSUME NEW r \in Rows, CommitPut(r) PROVE (LockAlone /\ RowsConfirmed)'
  BY <1>3, <1>w DEF CommitPut, storeVars, hubVars, runVars
<1>4. ASSUME NEW r \in Rows, DeleteRow(r) PROVE (LockAlone /\ RowsConfirmed)'
  BY <1>4, <1>w DEF DeleteRow, storeVars, hubVars, runVars
<1>5. ASSUME NEW r \in Rows, NEW v \in HubVersions, HubWrite(r, v) PROVE (LockAlone /\ RowsConfirmed)'
  <2>1. UNCHANGED <<merges, cur>> /\ hub' = [hub EXCEPT ![r] = v]
    BY <1>5 DEF HubWrite, StoreAtHub, runVars
  <2>2. crossed \subseteq crossed' /\ (Locked(r) => r \in crossed')
    BY <1>5 DEF HubWrite
  <2>3. LockAlone'
    BY <2>1 DEF LockAlone
  <2>4. ASSUME NEW m \in Working, m.step = "confirmed" PROVE hub'[m.row] = m.base \/ m.row \in crossed'
    <3>1. CASE m.row = r
      BY <2>2, <2>4, <3>1 DEF Locked
    <3>2. CASE m.row # r
      BY <2>1, <2>2, <2>4, <3>2 DEF RowsConfirmed
    <3> QED
      BY <3>1, <3>2
  <2>5. Working' = Working
    BY <2>1 DEF Working
  <2> QED
    BY <2>3, <2>4, <2>5 DEF RowsConfirmed
<1>6. CASE StartRun
  BY <1>6, <1>w DEF StartRun, storeVars, hubVars, runVars
<1>7. CASE QueryRows
  BY <1>7, <1>w DEF QueryRows, storeVars, hubVars, runVars
<1>8. CASE ReofferRows
  BY <1>8, <1>w DEF ReofferRows, storeVars, hubVars, runVars
<1>9. CASE NextBatch
  BY <1>9, <1>w DEF NextBatch, storeVars, hubVars, runVars
<1>10. CASE SendChunk
  BY <1>10, <1>w DEF SendChunk, storeVars, hubVars, runVars
<1>11. CASE ChunkAnswered
  BY <1>11, <1>w DEF ChunkAnswered, storeVars, hubVars, runVars
<1>12. CASE ChunkLost
  <2>1. hub' = hub /\ cur' = None /\ crossed' = {r \in crossed : Locked(r)'}
    BY <1>12 DEF ChunkLost, MergesLeft, EndRun
  <2>2. PICK L \in SUBSET LeftAtHub : merges' = merges \cup L
    BY <1>12 DEF ChunkLost, MergesLeft
  <2>3. \A m \in L : m.step = "confirmed" => m = cur /\ cur # None
    BY <2>2, LeftIsOffered
  <2> QED
    BY <2>1, <2>2, <2>3, LockKept
<1>13. ASSUME NEW r \in Rows, ApplyOutcome(r) PROVE (LockAlone /\ RowsConfirmed)'
  BY <1>13, <1>w DEF ApplyOutcome, storeVars, hubVars, runVars
<1>14. CASE AdvanceCursor
  <2>1. cur = None
    BY <1>14 DEF AdvanceCursor, Shape
  <2> QED
    BY <1>14, <1>w, <2>1 DEF AdvanceCursor, EndRun, hubVars
<1>15. CASE RunStops
  <2>1. hub' = hub /\ cur' = None /\ crossed' = {r \in crossed : Locked(r)'}
    BY <1>15 DEF RunStops, MergesLeft, EndRun
  <2>2. PICK L \in SUBSET LeftAtHub : merges' = merges \cup L
    BY <1>15 DEF RunStops, MergesLeft
  <2>3. \A m \in L : m.step = "confirmed" => m = cur /\ cur # None
    BY <2>2, LeftIsOffered
  <2> QED
    BY <2>1, <2>2, <2>3, LockKept
<1>16. ASSUME NEW r \in Rows, BackoffEnds(r) PROVE (LockAlone /\ RowsConfirmed)'
  BY <1>16, <1>w DEF BackoffEnds, storeVars, hubVars, runVars
<1>17. ASSUME NEW r \in Rows, BeginMerge(r) PROVE (LockAlone /\ RowsConfirmed)'
  <2>1. hub' = hub /\ merges' = merges /\ crossed' = crossed /\ cur = None
    BY <1>17 DEF BeginMerge, hubVars
  <2>2. cur' # None => cur' = cur \/ cur'.step # "confirmed"
    BY <1>17 DEF BeginMerge
  <2> QED
    BY <2>1, <2>2, LockKept
<1>18. CASE ConfirmMerge
  <2>1. hub' = hub /\ merges' = merges /\ crossed' = crossed /\ cur \in Merge /\ cur # None
    BY <1>18 DEF ConfirmMerge, hubVars
  <2>2. CASE ~Confirmable(cur)
    <3>1. cur' = None
      BY <1>18, <2>2 DEF ConfirmMerge
    <3> QED
      BY <2>1, <3>1, LockKept
  <2>3. CASE Confirmable(cur)
    <3>1. cur' = [cur EXCEPT !.step = "confirmed"]
      BY <1>18, <2>3 DEF ConfirmMerge
    <3>2. cur'.row = cur.row /\ cur'.base = cur.base
      BY <2>1, <3>1, MergeConfirms
    <3>3. hub[cur.row] = cur.base /\ \A m \in merges : m.step = "confirmed" => m.row # cur.row
      BY <2>3 DEF Confirmable, Locked, Working
    <3>4. LockAlone'
      BY <2>1, <3>2, <3>3 DEF LockAlone
    <3>5. RowsConfirmed'
      BY <2>1, <3>2, <3>3 DEF RowsConfirmed, Working
    <3> QED
      BY <3>4, <3>5
  <2> QED
    BY <2>2, <2>3
<1>19. CASE CommitMerge
  <2>1. cur # None /\ cur \in Working /\ cur.step = "confirmed"
    BY <1>19 DEF CommitMerge, Working
  <2>2. PICK v \in Kept(cur) : hub' = [hub EXCEPT ![cur.row] = v]
    BY <1>19 DEF CommitMerge, StoreAtHub
  <2>3. merges' = merges /\ cur' = None /\ crossed' = {r \in crossed : Locked(r)'}
    BY <1>19 DEF CommitMerge, MergesLeft
  <2>4. \A m \in Working' : m.step = "confirmed" => m.row # cur.row
    BY <2>1, <2>3 DEF LockAlone, Working
  <2> QED
    BY <2>1, <2>2, <2>3, <2>4, CommitKeepsLock
<1>20. CASE MergeUndecided
  <2>1. hub' = hub /\ cur' = None /\ cur # None /\ crossed' = {r \in crossed : Locked(r)'}
    BY <1>20 DEF MergeUndecided, MergesLeft
  <2>2. merges' = merges \/ merges' = merges \cup {cur}
    BY <1>20 DEF MergeUndecided, MergesLeft
  <2> QED
    BY <2>1, <2>2, LockKept
<1>21. ASSUME NEW m \in merges, LateRead(m) PROVE (LockAlone /\ RowsConfirmed)'
  <2>1. hub' = hub /\ cur' = cur /\ crossed' = crossed
    BY <1>21 DEF LateRead, runVars
  <2>2. [m EXCEPT !.step = "decided", !.base = hub[m.row]].step = "decided"
    BY MergeParts, MergeReads DEF Store
  <2>3. \A d \in merges' : d.step = "confirmed" => d \in merges
    BY <1>21, <2>2 DEF LateRead
  <2> QED
    BY <2>1, <2>3, LockKept
<1>22. ASSUME NEW m \in merges, LateConfirm(m) PROVE (LockAlone /\ RowsConfirmed)'
  <2>1. hub' = hub /\ cur' = cur /\ crossed' = crossed /\ m \in Merge
    BY <1>22 DEF LateConfirm, runVars
  <2>2. CASE ~Confirmable(m)
    <3>1. merges' \subseteq merges
      BY <1>22, <2>2 DEF LateConfirm
    <3> QED
      BY <2>1, <3>1, LockKept
  <2>3. CASE Confirmable(m)
    <3> DEFINE d == [m EXCEPT !.step = "confirmed"]
    <3>1. merges' = (merges \ {m}) \cup {d}
      BY <1>22, <2>3 DEF LateConfirm
    <3>2. d.row = m.row /\ d.base = m.base
      BY <2>1, MergeConfirms
    <3> HIDE DEF d
    <3>3. hub[m.row] = m.base /\ \A n \in Working : n.step = "confirmed" => n.row # m.row
      BY <2>3 DEF Confirmable, Locked
    <3>4. LockAlone'
      BY <2>1, <3>1, <3>2, <3>3 DEF LockAlone, Working
    <3>5. RowsConfirmed'
      BY <2>1, <3>1, <3>2, <3>3 DEF RowsConfirmed, Working
    <3> QED
      BY <3>4, <3>5
  <2> QED
    BY <2>2, <2>3
<1>23. ASSUME NEW m \in merges, LateCommit(m) PROVE (LockAlone /\ RowsConfirmed)'
  <2>1. m \in Working /\ m.step = "confirmed"
    BY <1>23 DEF LateCommit, Working
  <2>2. PICK v \in Kept(m) : hub' = [hub EXCEPT ![m.row] = v]
    BY <1>23 DEF LateCommit, StoreAtHub
  <2>3. merges' = merges \ {m} /\ cur' = cur /\ crossed' = {r \in crossed : Locked(r)'}
    BY <1>23 DEF LateCommit, MergesLeft, runVars
  <2>4. \A n \in Working' : n.step = "confirmed" => n.row # m.row
    BY <2>1, <2>3 DEF LockAlone, Working
  <2> QED
    BY <2>1, <2>2, <2>3, <2>4, CommitKeepsLock
<1>24. CASE UNCHANGED vars
  BY <1>24, <1>w DEF vars, storeVars, hubVars, runVars
<1> QED
  BY <1>1, <1>2, <1>3, <1>4, <1>5, <1>6, <1>7, <1>8, <1>9, <1>10, <1>11, <1>12,
     <1>13, <1>14, <1>15, <1>16, <1>17, <1>18, <1>19, <1>20, <1>21, <1>22, <1>23, <1>24, HubWritesOnly
  DEF Next, SenderStep, HubStep, LateStep, Writes

(* A merge commits on the row it was decided on, or over a crossing write. *)
LEMMA CommitNotOlder ==
  ASSUME TypeOK, RowsConfirmed, NEW m \in Working, m \in Merge, m.step = "confirmed",
         NEW v \in Kept(m), hub' = [hub EXCEPT ![m.row] = v]
  PROVE HubKept
<1>1. ASSUME NEW r \in Rows, hub[r] # None, r \notin crossed PROVE hub'[r] # None /\ hub'[r].at >= hub[r].at
  <2>1. hub[r] \in Version
    BY <1>1 DEF TypeOK, Store
  <2>2. CASE r # m.row
    <3>1. hub'[r] = hub[r]
      BY <2>2 DEF TypeOK, Store
    <3> QED
      BY <1>1, <2>1, <3>1, StampIsNat
  <2>3. CASE r = m.row
    <3>1. hub[r] = m.base /\ hub'[r] = v
      BY <1>1, <2>3 DEF RowsConfirmed, TypeOK, Store
    <3>2. v = Outcome(m)
      BY <2>3, <3>1 DEF Kept
    <3> QED
      BY <1>1, <3>1, <3>2, KeptAre
  <2> QED
    BY <2>2, <2>3
<1> QED
  BY <1>1 DEF HubKept

(* No merge sets a memory of the hub back.                                 *)
LEMMA StepHub == HubInv /\ [Next]_vars => HubKept
<1> SUFFICES ASSUME TypeOK, Shape, LockAlone, RowsConfirmed, [Next]_vars PROVE HubKept
  BY DEF HubInv, RunInv
<1>k. ASSUME hub' = hub PROVE HubKept
  BY <1>k, StampIsNat DEF TypeOK, Store, HubKept
<1>1. CASE Tick
  BY <1>1, <1>k DEF Tick, storeVars, hubVars, runVars
<1>2. ASSUME NEW r \in Rows, NEW k \in Kinds, BeginPut(r, k) PROVE HubKept
  BY <1>2, <1>k DEF BeginPut, storeVars, hubVars, runVars
<1>3. ASSUME NEW r \in Rows, CommitPut(r) PROVE HubKept
  BY <1>3, <1>k DEF CommitPut, storeVars, hubVars, runVars
<1>4. ASSUME NEW r \in Rows, DeleteRow(r) PROVE HubKept
  BY <1>4, <1>k DEF DeleteRow, storeVars, hubVars, runVars
<1>5. ASSUME NEW r \in Rows, NEW v \in HubVersions, HubWrite(r, v) PROVE HubKept
  <2>1. writes' = writes + 1 /\ writes \in Nat
    BY <1>5, SyncConstants DEF HubWrite, TypeOK
  <2> QED
    BY <2>1 DEF HubKept
<1>6. CASE StartRun
  BY <1>6, <1>k DEF StartRun, storeVars, hubVars, runVars
<1>7. CASE QueryRows
  BY <1>7, <1>k DEF QueryRows, storeVars, hubVars, runVars
<1>8. CASE ReofferRows
  BY <1>8, <1>k DEF ReofferRows, storeVars, hubVars, runVars
<1>9. CASE NextBatch
  BY <1>9, <1>k DEF NextBatch, storeVars, hubVars, runVars
<1>10. CASE SendChunk
  BY <1>10, <1>k DEF SendChunk, storeVars, hubVars, runVars
<1>11. CASE ChunkAnswered
  BY <1>11, <1>k DEF ChunkAnswered, storeVars, hubVars, runVars
<1>12. CASE ChunkLost
  BY <1>12, <1>k DEF ChunkLost, storeVars, hubVars, runVars, Fault, EndRun, MergesLeft
<1>13. ASSUME NEW r \in Rows, ApplyOutcome(r) PROVE HubKept
  BY <1>13, <1>k DEF ApplyOutcome, storeVars, hubVars, runVars
<1>14. CASE AdvanceCursor
  BY <1>14, <1>k DEF AdvanceCursor, storeVars, hubVars, runVars, EndRun
<1>15. CASE RunStops
  BY <1>15, <1>k DEF RunStops, storeVars, hubVars, runVars, Fault, EndRun, MergesLeft
<1>16. ASSUME NEW r \in Rows, BackoffEnds(r) PROVE HubKept
  BY <1>16, <1>k DEF BackoffEnds, storeVars, hubVars, runVars
<1>17. ASSUME NEW r \in Rows, BeginMerge(r) PROVE HubKept
  BY <1>17, <1>k DEF BeginMerge, storeVars, hubVars, runVars
<1>18. CASE ConfirmMerge
  BY <1>18, <1>k DEF ConfirmMerge, storeVars, hubVars, runVars
<1>19. CASE CommitMerge
  <2>1. cur \in Working /\ cur \in Merge /\ cur.step = "confirmed"
    BY <1>19 DEF CommitMerge, Working, TypeOK
  <2>2. PICK v \in Kept(cur) : hub' = [hub EXCEPT ![cur.row] = v]
    BY <1>19 DEF CommitMerge, StoreAtHub
  <2> QED
    BY <2>1, <2>2, CommitNotOlder
<1>20. CASE MergeUndecided
  BY <1>20, <1>k DEF MergeUndecided, storeVars, hubVars, runVars, Fault, MergesLeft
<1>21. ASSUME NEW m \in merges, LateRead(m) PROVE HubKept
  BY <1>21, <1>k DEF LateRead, storeVars, hubVars, runVars
<1>22. ASSUME NEW m \in merges, LateConfirm(m) PROVE HubKept
  BY <1>22, <1>k DEF LateConfirm, storeVars, hubVars, runVars
<1>23. ASSUME NEW m \in merges, LateCommit(m) PROVE HubKept
  <2>1. m \in Working /\ m \in Merge /\ m.step = "confirmed"
    BY <1>23 DEF LateCommit, Working, TypeOK
  <2>2. PICK v \in Kept(m) : hub' = [hub EXCEPT ![m.row] = v]
    BY <1>23 DEF LateCommit, StoreAtHub
  <2> QED
    BY <2>1, <2>2, CommitNotOlder
<1>24. CASE UNCHANGED vars
  BY <1>24, <1>k DEF vars, storeVars, hubVars, runVars
<1> QED
  BY <1>1, <1>2, <1>3, <1>4, <1>5, <1>6, <1>7, <1>8, <1>9, <1>10, <1>11, <1>12,
     <1>13, <1>14, <1>15, <1>16, <1>17, <1>18, <1>19, <1>20, <1>21, <1>22, <1>23, <1>24, HubWritesOnly
  DEF Next, SenderStep, HubStep, LateStep, Writes

-----------------------------------------------------------------------------
LEMMA InitPrivacy == Init => OnTheWay /\ PrivateStays
BY DEF Init, OnTheWay, PrivateStays, NoOffer

(* Nothing private gets on its way to the hub.                             *)
LEMMA StepPrivacy == PrivacyInv /\ [Next]_vars => (OnTheWay /\ PrivateStays)'
<1> SUFFICES ASSUME TypeOK, Shape, OnTheWay, PrivateStays, [Next]_vars PROVE (OnTheWay /\ PrivateStays)'
  BY DEF PrivacyInv, RunInv
<1> USE SyncConstants DEF TypeOK, OnTheWay, PrivateStays, Store, NoOffer
<1>1. CASE Tick
  BY <1>1 DEF Tick, storeVars, hubVars, runVars
<1>2. ASSUME NEW r \in Rows, NEW k \in Kinds, BeginPut(r, k) PROVE (OnTheWay /\ PrivateStays)'
  BY <1>2 DEF BeginPut, storeVars, hubVars, runVars
<1>3. ASSUME NEW r \in Rows, CommitPut(r) PROVE (OnTheWay /\ PrivateStays)'
  BY <1>3 DEF CommitPut, storeVars, hubVars, runVars
<1>4. ASSUME NEW r \in Rows, DeleteRow(r) PROVE (OnTheWay /\ PrivateStays)'
  BY <1>4 DEF DeleteRow, storeVars, hubVars, runVars
<1>5. ASSUME NEW r \in Rows, NEW v \in HubVersions, HubWrite(r, v) PROVE (OnTheWay /\ PrivateStays)'
  BY <1>5 DEF HubWrite, StoreAtHub, HubVersions, storeVars, hubVars, runVars
<1>6. CASE StartRun
  BY <1>6 DEF StartRun, storeVars, hubVars, runVars
<1>7. CASE QueryRows
  BY <1>7 DEF QueryRows, storeVars, hubVars, runVars
<1>8. CASE ReofferRows
  BY <1>8 DEF ReofferRows, storeVars, hubVars, runVars
<1>9. CASE NextBatch
  BY <1>9 DEF NextBatch, storeVars, hubVars, runVars
<1>10. CASE SendChunk
  BY <1>10 DEF SendChunk, storeVars, hubVars, runVars
<1>11. CASE ChunkAnswered
  BY <1>11 DEF ChunkAnswered, storeVars, hubVars, runVars
<1>12. CASE ChunkLost
  <2>1. \A m \in LeftAtHub : OpenTo(m)
    BY LeftIsOffered DEF OpenTo
  <2> QED
    BY <1>12, <2>1 DEF ChunkLost, storeVars, hubVars, runVars, Fault, EndRun, MergesLeft
<1>13. ASSUME NEW r \in Rows, ApplyOutcome(r) PROVE (OnTheWay /\ PrivateStays)'
  BY <1>13 DEF ApplyOutcome, storeVars, hubVars, runVars
<1>14. CASE AdvanceCursor
  BY <1>14 DEF AdvanceCursor, storeVars, hubVars, runVars, EndRun
<1>15. CASE RunStops
  <2>1. \A m \in LeftAtHub : OpenTo(m)
    BY LeftIsOffered DEF OpenTo
  <2> QED
    BY <1>15, <2>1 DEF RunStops, storeVars, hubVars, runVars, Fault, EndRun, MergesLeft
<1>16. ASSUME NEW r \in Rows, BackoffEnds(r) PROVE (OnTheWay /\ PrivateStays)'
  BY <1>16 DEF BackoffEnds, storeVars, hubVars, runVars
<1>17. ASSUME NEW r \in Rows, BeginMerge(r) PROVE (OnTheWay /\ PrivateStays)'
  <2>1. cur' # None => OpenTo(cur')
    BY <1>17, AskedIsOffered DEF BeginMerge, OpenTo
  <2> QED
    BY <1>17, <2>1 DEF BeginMerge, storeVars, hubVars, runVars
<1>18. CASE ConfirmMerge
  <2>1. cur' # None => OpenTo(cur')
    BY <1>18, MergeConfirms DEF ConfirmMerge, OpenTo
  <2> QED
    BY <1>18, <2>1 DEF ConfirmMerge, storeVars, hubVars, runVars
<1>19. CASE CommitMerge
  <2>1. cur \in Merge /\ cur.row \in Rows /\ OpenTo(cur)
    BY <1>19, MergeParts DEF CommitMerge
  <2>2. \A v \in Kept(cur) : v # None => v.kind # "private"
    BY <2>1, KeptAre DEF OpenTo
  <2> QED
    BY <1>19, <2>1, <2>2 DEF CommitMerge, StoreAtHub, MergesLeft, storeVars, hubVars, runVars
<1>20. CASE MergeUndecided
  BY <1>20 DEF MergeUndecided, storeVars, hubVars, runVars, Fault, MergesLeft
<1>21. ASSUME NEW m \in merges, LateRead(m) PROVE (OnTheWay /\ PrivateStays)'
  <2>1. m \in Merge /\ hub[m.row] \in Version \cup {None} /\ m.row \in Rows
    BY MergeParts
  <2>2. /\ [m EXCEPT !.step = "decided", !.base = hub[m.row]].ver = m.ver
        /\ [m EXCEPT !.step = "decided", !.base = hub[m.row]].base = hub[m.row]
    BY <2>1, MergeReads
  <2>3. OpenTo([m EXCEPT !.step = "decided", !.base = hub[m.row]])
    BY <2>1, <2>2 DEF OpenTo
  <2> QED
    BY <1>21, <2>3 DEF LateRead, storeVars, hubVars, runVars
<1>22. ASSUME NEW m \in merges, LateConfirm(m) PROVE (OnTheWay /\ PrivateStays)'
  <2>1. OpenTo([m EXCEPT !.step = "confirmed"])
    BY MergeConfirms DEF OpenTo
  <2> QED
    BY <1>22, <2>1 DEF LateConfirm, storeVars, hubVars, runVars
<1>23. ASSUME NEW m \in merges, LateCommit(m) PROVE (OnTheWay /\ PrivateStays)'
  <2>1. m \in Merge /\ m.row \in Rows /\ OpenTo(m)
    BY MergeParts
  <2>2. \A v \in Kept(m) : v # None => v.kind # "private"
    BY <2>1, KeptAre DEF OpenTo
  <2> QED
    BY <1>23, <2>1, <2>2 DEF LateCommit, StoreAtHub, MergesLeft, storeVars, hubVars, runVars
<1>24. CASE UNCHANGED vars
  BY <1>24 DEF vars, storeVars, hubVars, runVars
<1> QED
  BY <1>1, <1>2, <1>3, <1>4, <1>5, <1>6, <1>7, <1>8, <1>9, <1>10, <1>11, <1>12,
     <1>13, <1>14, <1>15, <1>16, <1>17, <1>18, <1>19, <1>20, <1>21, <1>22, <1>23, <1>24, HubWritesOnly
  DEF Next, SenderStep, HubStep, LateStep, Writes

-----------------------------------------------------------------------------
LEMMA InitAnswers == Init => HubHad /\ Answers /\ FreshCovered /\ OfferCurrent
BY SyncConstants DEF Init, HubHad, Holds, Answers, FreshCovered, OfferCurrent, NoOffer

(* The hub has had what it stores.                                         *)
LEMMA StepHad == SyncInv /\ [Next]_vars => HubHad'
<1> SUFFICES ASSUME TypeOK, Shape, HubHad, [Next]_vars PROVE HubHad'
  BY DEF SyncInv, RunInv
<1>s. ASSUME NEW r \in Rows, NEW v, StoreAtHub(r, v), src' = src PROVE HubHad'
  BY <1>s DEF StoreAtHub, HubHad, TypeOK, Store
<1>k. ASSUME hub' = hub, src' = src, had' = had PROVE HubHad'
  BY <1>k DEF HubHad
<1>1. CASE Tick
  BY <1>1, <1>k DEF Tick, storeVars, hubVars, runVars
<1>2. ASSUME NEW r \in Rows, NEW k \in Kinds, BeginPut(r, k) PROVE HubHad'
  BY <1>2, <1>k DEF BeginPut, storeVars, hubVars, runVars
<1>3. ASSUME NEW r \in Rows, CommitPut(r) PROVE HubHad'
  BY <1>3 DEF CommitPut, HubHad, TypeOK, Store
<1>4. ASSUME NEW r \in Rows, DeleteRow(r) PROVE HubHad'
  BY <1>4 DEF DeleteRow, HubHad, Holds, TypeOK, Store
<1>5. ASSUME NEW r \in Rows, NEW v \in HubVersions, HubWrite(r, v) PROVE HubHad'
  BY <1>5, <1>s DEF HubWrite, storeVars
<1>6. CASE StartRun
  BY <1>6, <1>k DEF StartRun, storeVars, hubVars, runVars
<1>7. CASE QueryRows
  BY <1>7, <1>k DEF QueryRows, storeVars, hubVars, runVars
<1>8. CASE ReofferRows
  BY <1>8, <1>k DEF ReofferRows, storeVars, hubVars, runVars
<1>9. CASE NextBatch
  BY <1>9, <1>k DEF NextBatch, storeVars, hubVars, runVars
<1>10. CASE SendChunk
  BY <1>10, <1>k DEF SendChunk, storeVars, hubVars, runVars
<1>11. CASE ChunkAnswered
  BY <1>11, <1>k DEF ChunkAnswered, storeVars, hubVars, runVars
<1>12. CASE ChunkLost
  BY <1>12, <1>k DEF ChunkLost, storeVars, hubVars, runVars, Fault, EndRun, MergesLeft
<1>13. ASSUME NEW r \in Rows, ApplyOutcome(r) PROVE HubHad'
  BY <1>13, <1>k DEF ApplyOutcome, storeVars, hubVars, runVars
<1>14. CASE AdvanceCursor
  BY <1>14, <1>k DEF AdvanceCursor, storeVars, hubVars, runVars, EndRun
<1>15. CASE RunStops
  BY <1>15, <1>k DEF RunStops, storeVars, hubVars, runVars, Fault, EndRun, MergesLeft
<1>16. ASSUME NEW r \in Rows, BackoffEnds(r) PROVE HubHad'
  BY <1>16, <1>k DEF BackoffEnds, storeVars, hubVars, runVars
<1>17. ASSUME NEW r \in Rows, BeginMerge(r) PROVE HubHad'
  BY <1>17, <1>k DEF BeginMerge, storeVars, hubVars, runVars
<1>18. CASE ConfirmMerge
  BY <1>18, <1>k DEF ConfirmMerge, storeVars, hubVars, runVars
<1>19. CASE CommitMerge
  <2>1. cur.row \in Rows
    BY <1>19, MergeParts DEF CommitMerge, TypeOK
  <2> QED
    BY <1>19, <1>s, <2>1 DEF CommitMerge, storeVars
<1>20. CASE MergeUndecided
  BY <1>20, <1>k DEF MergeUndecided, storeVars, hubVars, runVars, Fault, MergesLeft
<1>21. ASSUME NEW m \in merges, LateRead(m) PROVE HubHad'
  BY <1>21, <1>k DEF LateRead, storeVars, hubVars, runVars
<1>22. ASSUME NEW m \in merges, LateConfirm(m) PROVE HubHad'
  BY <1>22, <1>k DEF LateConfirm, storeVars, hubVars, runVars
<1>23. ASSUME NEW m \in merges, LateCommit(m) PROVE HubHad'
  <2>1. m.row \in Rows
    BY MergeParts DEF TypeOK
  <2> QED
    BY <1>23, <1>s, <2>1 DEF LateCommit, storeVars
<1>24. CASE UNCHANGED vars
  BY <1>24, <1>k DEF vars, storeVars, hubVars, runVars
<1> QED
  BY <1>1, <1>2, <1>3, <1>4, <1>5, <1>6, <1>7, <1>8, <1>9, <1>10, <1>11, <1>12,
     <1>13, <1>14, <1>15, <1>16, <1>17, <1>18, <1>19, <1>20, <1>21, <1>22, <1>23, <1>24, HubWritesOnly
  DEF Next, SenderStep, HubStep, LateStep, Writes

(* What was committed since the query is above the cursor or late.         *)
LEMMA StepFresh == SyncInv /\ [Next]_vars => FreshCovered'
<1> SUFFICES ASSUME TypeOK, Shape, FreshCovered, [Next]_vars PROVE FreshCovered'
  BY DEF SyncInv, RunInv
<1> USE SyncConstants, StampIsNat DEF TypeOK, FreshCovered, Store, NoOffer
<1>1. CASE Tick
  BY <1>1 DEF Tick, storeVars, hubVars, runVars
<1>2. ASSUME NEW r \in Rows, NEW k \in Kinds, BeginPut(r, k) PROVE FreshCovered'
  BY <1>2 DEF BeginPut, storeVars, hubVars, runVars
<1>3. ASSUME NEW r \in Rows, CommitPut(r) PROVE FreshCovered'
  BY <1>3 DEF CommitPut, storeVars, hubVars, runVars
<1>4. ASSUME NEW r \in Rows, DeleteRow(r) PROVE FreshCovered'
  BY <1>4 DEF DeleteRow, storeVars, hubVars, runVars
<1>5. ASSUME NEW r \in Rows, NEW v \in HubVersions, HubWrite(r, v) PROVE FreshCovered'
  BY <1>5 DEF HubWrite, storeVars, hubVars, runVars, StoreAtHub
<1>6. CASE StartRun
  BY <1>6 DEF StartRun, storeVars, hubVars, runVars
<1>7. CASE QueryRows
  BY <1>7 DEF QueryRows, storeVars, hubVars, runVars
<1>8. CASE ReofferRows
  BY <1>8 DEF ReofferRows, storeVars, hubVars, runVars
<1>9. CASE NextBatch
  BY <1>9 DEF NextBatch, storeVars, hubVars, runVars
<1>10. CASE SendChunk
  BY <1>10 DEF SendChunk, storeVars, hubVars, runVars
<1>11. CASE ChunkAnswered
  BY <1>11 DEF ChunkAnswered, storeVars, hubVars, runVars
<1>12. CASE ChunkLost
  BY <1>12 DEF ChunkLost, storeVars, hubVars, runVars, Fault, EndRun, MergesLeft
<1>13. ASSUME NEW r \in Rows, ApplyOutcome(r) PROVE FreshCovered'
  BY <1>13 DEF ApplyOutcome, storeVars, hubVars, runVars
<1>14. CASE AdvanceCursor
  BY <1>14 DEF AdvanceCursor, storeVars, hubVars, runVars, EndRun
<1>15. CASE RunStops
  BY <1>15 DEF RunStops, storeVars, hubVars, runVars, Fault, EndRun, MergesLeft
<1>16. ASSUME NEW r \in Rows, BackoffEnds(r) PROVE FreshCovered'
  BY <1>16 DEF BackoffEnds, storeVars, hubVars, runVars
<1>17. ASSUME NEW r \in Rows, BeginMerge(r) PROVE FreshCovered'
  BY <1>17 DEF BeginMerge, storeVars, hubVars, runVars
<1>18. CASE ConfirmMerge
  BY <1>18 DEF ConfirmMerge, storeVars, hubVars, runVars
<1>19. CASE CommitMerge
  BY <1>19 DEF CommitMerge, storeVars, hubVars, runVars, StoreAtHub, MergesLeft
<1>20. CASE MergeUndecided
  BY <1>20 DEF MergeUndecided, storeVars, hubVars, runVars, Fault, MergesLeft
<1>21. ASSUME NEW m \in merges, LateRead(m) PROVE FreshCovered'
  BY <1>21 DEF LateRead, storeVars, hubVars, runVars
<1>22. ASSUME NEW m \in merges, LateConfirm(m) PROVE FreshCovered'
  BY <1>22 DEF LateConfirm, storeVars, hubVars, runVars
<1>23. ASSUME NEW m \in merges, LateCommit(m) PROVE FreshCovered'
  BY <1>23 DEF LateCommit, storeVars, hubVars, runVars, StoreAtHub, MergesLeft
<1>24. CASE UNCHANGED vars
  BY <1>24 DEF vars, storeVars, hubVars, runVars
<1> QED
  BY <1>1, <1>2, <1>3, <1>4, <1>5, <1>6, <1>7, <1>8, <1>9, <1>10, <1>11, <1>12,
     <1>13, <1>14, <1>15, <1>16, <1>17, <1>18, <1>19, <1>20, <1>21, <1>22, <1>23, <1>24, HubWritesOnly
  DEF Next, SenderStep, HubStep, LateStep, Writes

(* What is on offer and was not written since is the spoke's version.      *)
LEMMA StepOffer == SyncInv /\ [Next]_vars => OfferCurrent'
<1> SUFFICES ASSUME TypeOK, Shape, OfferCurrent, [Next]_vars PROVE OfferCurrent'
  BY DEF SyncInv, RunInv
<1> USE SyncConstants DEF TypeOK, OfferCurrent, Store, NoOffer
<1>1. CASE Tick
  BY <1>1 DEF Tick, storeVars, hubVars, runVars
<1>2. ASSUME NEW r \in Rows, NEW k \in Kinds, BeginPut(r, k) PROVE OfferCurrent'
  BY <1>2 DEF BeginPut, storeVars, hubVars, runVars
<1>3. ASSUME NEW r \in Rows, CommitPut(r) PROVE OfferCurrent'
  BY <1>3 DEF CommitPut, storeVars, hubVars, runVars
<1>4. ASSUME NEW r \in Rows, DeleteRow(r) PROVE OfferCurrent'
  BY <1>4 DEF DeleteRow, storeVars, hubVars, runVars
<1>5. ASSUME NEW r \in Rows, NEW v \in HubVersions, HubWrite(r, v) PROVE OfferCurrent'
  BY <1>5 DEF HubWrite, storeVars, hubVars, runVars, StoreAtHub
<1>6. CASE StartRun
  BY <1>6 DEF StartRun, storeVars, hubVars, runVars
<1>7. CASE QueryRows
  BY <1>7 DEF QueryRows, storeVars, hubVars, runVars
<1>8. CASE ReofferRows
  BY <1>8 DEF ReofferRows, storeVars, hubVars, runVars
<1>9. CASE NextBatch
  BY <1>9 DEF NextBatch, storeVars, hubVars, runVars
<1>10. CASE SendChunk
  BY <1>10 DEF SendChunk, storeVars, hubVars, runVars
<1>11. CASE ChunkAnswered
  BY <1>11 DEF ChunkAnswered, storeVars, hubVars, runVars
<1>12. CASE ChunkLost
  BY <1>12 DEF ChunkLost, storeVars, hubVars, runVars, Fault, EndRun, MergesLeft
<1>13. ASSUME NEW r \in Rows, ApplyOutcome(r) PROVE OfferCurrent'
  BY <1>13 DEF ApplyOutcome, storeVars, hubVars, runVars
<1>14. CASE AdvanceCursor
  BY <1>14 DEF AdvanceCursor, storeVars, hubVars, runVars, EndRun
<1>15. CASE RunStops
  BY <1>15 DEF RunStops, storeVars, hubVars, runVars, Fault, EndRun, MergesLeft
<1>16. ASSUME NEW r \in Rows, BackoffEnds(r) PROVE OfferCurrent'
  BY <1>16 DEF BackoffEnds, storeVars, hubVars, runVars
<1>17. ASSUME NEW r \in Rows, BeginMerge(r) PROVE OfferCurrent'
  BY <1>17 DEF BeginMerge, storeVars, hubVars, runVars
<1>18. CASE ConfirmMerge
  BY <1>18 DEF ConfirmMerge, storeVars, hubVars, runVars
<1>19. CASE CommitMerge
  BY <1>19 DEF CommitMerge, storeVars, hubVars, runVars, StoreAtHub, MergesLeft
<1>20. CASE MergeUndecided
  BY <1>20 DEF MergeUndecided, storeVars, hubVars, runVars, Fault, MergesLeft
<1>21. ASSUME NEW m \in merges, LateRead(m) PROVE OfferCurrent'
  BY <1>21 DEF LateRead, storeVars, hubVars, runVars
<1>22. ASSUME NEW m \in merges, LateConfirm(m) PROVE OfferCurrent'
  BY <1>22 DEF LateConfirm, storeVars, hubVars, runVars
<1>23. ASSUME NEW m \in merges, LateCommit(m) PROVE OfferCurrent'
  BY <1>23 DEF LateCommit, storeVars, hubVars, runVars, StoreAtHub, MergesLeft
<1>24. CASE UNCHANGED vars
  BY <1>24 DEF vars, storeVars, hubVars, runVars
<1> QED
  BY <1>1, <1>2, <1>3, <1>4, <1>5, <1>6, <1>7, <1>8, <1>9, <1>10, <1>11, <1>12,
     <1>13, <1>14, <1>15, <1>16, <1>17, <1>18, <1>19, <1>20, <1>21, <1>22, <1>23, <1>24, HubWritesOnly
  DEF Next, SenderStep, HubStep, LateStep, Writes

(* What is answered for good has been at the hub.                          *)
LEMMA StepAnswers == SyncInv /\ [Next]_vars => Answers'
<1> SUFFICES ASSUME TypeOK, Shape, HubHad, OfferCurrent, Answers, [Next]_vars PROVE Answers'
  BY DEF SyncInv, RunInv
<1> USE SyncConstants DEF TypeOK, Answers, Store, NoOffer, Owed
<1>1. CASE Tick
  BY <1>1 DEF Tick, storeVars, hubVars, runVars
<1>2. ASSUME NEW r \in Rows, NEW k \in Kinds, BeginPut(r, k) PROVE Answers'
  BY <1>2 DEF BeginPut, storeVars, hubVars, runVars
<1>3. ASSUME NEW r \in Rows, CommitPut(r) PROVE Answers'
  BY <1>3 DEF CommitPut, storeVars, hubVars, runVars
<1>4. ASSUME NEW r \in Rows, DeleteRow(r) PROVE Answers'
  BY <1>4 DEF DeleteRow, storeVars, hubVars, runVars
<1>5. ASSUME NEW r \in Rows, NEW v \in HubVersions, HubWrite(r, v) PROVE Answers'
  BY <1>5 DEF HubWrite, StoreAtHub, storeVars, runVars
<1>6. CASE StartRun
  BY <1>6 DEF StartRun, storeVars, hubVars, runVars
<1>7. CASE QueryRows
  BY <1>7 DEF QueryRows, Shape, storeVars, hubVars, runVars
<1>8. CASE ReofferRows
  BY <1>8 DEF ReofferRows, storeVars, hubVars, runVars
<1>9. CASE NextBatch
  BY <1>9 DEF NextBatch, storeVars, hubVars, runVars
<1>10. CASE SendChunk
  BY <1>10 DEF SendChunk, storeVars, hubVars, runVars
<1>11. CASE ChunkAnswered
  BY <1>11 DEF ChunkAnswered, storeVars, hubVars, runVars
<1>12. CASE ChunkLost
  BY <1>12 DEF ChunkLost, storeVars, hubVars, runVars, Fault, EndRun, MergesLeft
<1>13. ASSUME NEW r \in Rows, ApplyOutcome(r) PROVE Answers'
  BY <1>13 DEF ApplyOutcome, storeVars, hubVars, runVars
<1>14. CASE AdvanceCursor
  BY <1>14 DEF AdvanceCursor, storeVars, hubVars, runVars, EndRun
<1>15. CASE RunStops
  BY <1>15 DEF RunStops, storeVars, hubVars, runVars, Fault, EndRun, MergesLeft
<1>16. ASSUME NEW r \in Rows, BackoffEnds(r) PROVE Answers'
  BY <1>16 DEF BackoffEnds, storeVars, hubVars, runVars
<1>17. ASSUME NEW r \in Rows, BeginMerge(r) PROVE Answers'
  <2>1. offer[r] \in Version /\ hub[r] \in Version \cup {None} /\ r \in Offered
    BY <1>17, AskedIsOffered DEF BeginMerge, Shape, Offered
  <2>2. r \notin fresh /\ Owed(r) /\ Refused(hub[r], offer[r]) => r \in had
    BY <2>1, StampIsNat DEF Refused, OfferCurrent, Offered, HubHad, Holds
  <2> QED
    BY <1>17, <2>2 DEF BeginMerge, storeVars, hubVars
<1>18. CASE ConfirmMerge
  BY <1>18 DEF ConfirmMerge, storeVars, hubVars, runVars
<1>19. CASE CommitMerge
  <2>1. /\ cur \in Merge /\ cur.row \in Rows /\ cur.ver = offer[cur.row]
        /\ offer[cur.row] # None
    BY <1>19, MergeParts DEF CommitMerge, Shape, Offered
  <2>2. src' = src /\ fresh' = fresh /\ had \subseteq had'
    BY <1>19 DEF CommitMerge, StoreAtHub, storeVars
  <2>3. ASSUME NEW q \in Rows \ fresh, q # cur.row, reply'[q] = "ended", Owed(q) PROVE q \in had'
    BY <1>19, <2>2, <2>3 DEF CommitMerge
  <2>4. ASSUME cur.row \notin fresh, reply'[cur.row] = "ended", Owed(cur.row) PROVE cur.row \in had'
    <3>1. cur.ver = src[cur.row]
      BY <2>1, <2>4 DEF OfferCurrent
    <3>2. had' = had \cup {cur.row}
      BY <1>19, <2>1, <2>4, <3>1, KeptAre DEF CommitMerge, StoreAtHub, Holds
    <3> QED
      BY <3>2
  <2> QED
    BY <2>2, <2>3, <2>4
<1>20. CASE MergeUndecided
  BY <1>20 DEF MergeUndecided, storeVars, hubVars, runVars, Fault, MergesLeft
<1>21. ASSUME NEW m \in merges, LateRead(m) PROVE Answers'
  BY <1>21 DEF LateRead, storeVars, hubVars, runVars
<1>22. ASSUME NEW m \in merges, LateConfirm(m) PROVE Answers'
  BY <1>22 DEF LateConfirm, storeVars, hubVars, runVars
<1>23. ASSUME NEW m \in merges, LateCommit(m) PROVE Answers'
  BY <1>23 DEF LateCommit, StoreAtHub, storeVars, runVars
<1>24. CASE UNCHANGED vars
  BY <1>24 DEF vars, storeVars, hubVars, runVars
<1> QED
  BY <1>1, <1>2, <1>3, <1>4, <1>5, <1>6, <1>7, <1>8, <1>9, <1>10, <1>11, <1>12,
     <1>13, <1>14, <1>15, <1>16, <1>17, <1>18, <1>19, <1>20, <1>21, <1>22, <1>23, <1>24, HubWritesOnly
  DEF Next, SenderStep, HubStep, LateStep, Writes

LEMMA InitCovers == Init => Selected /\ CursorCovers
BY SyncConstants DEF Init, Selected, CursorCovers, Owed, NoOffer

(* A memory that is not written stays safe while its retry row and its     *)
(* lateness stay.                                                          *)
LEMMA SafeKept ==
  ASSUME NEW r \in Rows, Safe(r), r \in had => r \in had',
         retry'[r] = "no" => retry[r] = "no", r \in late => r \in late'
  PROVE Safe(r)'
BY DEF Safe, Pending, Delivered

(* A memory whose outcome is recorded has a retry row, or has been at the  *)
(* hub in the version the spoke has.                                       *)
LEMMA OutcomeSafe ==
  ASSUME TypeOK, Answers, NEW r \in Rows \ fresh, ApplyOutcome(r), Owed(r)
  PROVE Safe(r)'
<1>1. CASE reply[r] = "ended"
  BY <1>1 DEF ApplyOutcome, hubVars, Answers, Safe, Delivered
<1>2. CASE reply[r] # "ended"
  BY <1>2 DEF ApplyOutcome, TypeOK, Safe, Pending
<1> QED
  BY <1>1, <1>2

(* Every memory the query found is accounted for until the run ends.       *)
LEMMA StepSelected == SyncInv /\ [Next]_vars => Selected'
<1> SUFFICES ASSUME TypeOK, Shape, Answers, OfferCurrent, FreshCovered, Selected, CoversSafe, [Next]_vars
             PROVE Selected'
  BY DEF SyncInv, RunInv, CursorCovers, CoversSafe, Safe
<1> USE SyncConstants DEF TypeOK, Store, NoOffer, Selected, Owed
<1>1. CASE Tick
  BY <1>1, SafeKept DEF Tick, storeVars, hubVars, runVars
<1>2. ASSUME NEW r \in Rows, NEW k \in Kinds, BeginPut(r, k) PROVE Selected'
  BY <1>2, SafeKept DEF BeginPut, storeVars, hubVars, runVars
<1>3. ASSUME NEW r \in Rows, CommitPut(r) PROVE Selected'
  BY <1>3, SafeKept DEF CommitPut, storeVars, hubVars, runVars
<1>4. ASSUME NEW r \in Rows, DeleteRow(r) PROVE Selected'
  BY <1>4, SafeKept DEF DeleteRow, storeVars, hubVars, runVars
<1>5. ASSUME NEW r \in Rows, NEW v \in HubVersions, HubWrite(r, v) PROVE Selected'
  BY <1>5, SafeKept DEF HubWrite, storeVars, hubVars, runVars, StoreAtHub
<1>6. CASE StartRun
  BY <1>6, SafeKept DEF StartRun, storeVars, hubVars, runVars
<1>7. CASE QueryRows
  <2> SUFFICES ASSUME NEW q \in Rows, Owed(q) PROVE Safe(q)' \/ offer'[q] = src[q]
    BY <1>7 DEF QueryRows
  <2>1. CASE src[q].at <= cursor
    <3>1. Safe(q)
      BY <2>1 DEF CoversSafe
    <3> QED
      BY <1>7, <3>1, SafeKept DEF QueryRows, hubVars
  <2>2. CASE src[q].at > cursor
    BY <1>7, <2>2 DEF QueryRows
  <2> QED
    BY <2>1, <2>2, StampIsNat
<1>8. CASE ReofferRows
  BY <1>8, SafeKept DEF ReofferRows, storeVars, hubVars, runVars
<1>9. CASE NextBatch
  BY <1>9, SafeKept DEF NextBatch, storeVars, hubVars, runVars
<1>10. CASE SendChunk
  BY <1>10, SafeKept DEF SendChunk, storeVars, hubVars, runVars
<1>11. CASE ChunkAnswered
  BY <1>11, SafeKept DEF ChunkAnswered, storeVars, hubVars, runVars
<1>12. CASE ChunkLost
  BY <1>12, SafeKept DEF ChunkLost, storeVars, hubVars, runVars, Fault, EndRun, MergesLeft
<1>13. ASSUME NEW r \in Rows, ApplyOutcome(r) PROVE Selected'
  <2>1. src' = src /\ fresh' = fresh /\ late' = late /\ had' = had /\ pc = "apply"
    BY <1>13 DEF ApplyOutcome, storeVars, hubVars
  <2>2. ASSUME NEW q \in Rows \ fresh, Owed(q) PROVE Safe(q)' \/ offer'[q] = src[q]
    <3>1. CASE q = r
      BY <1>13, <2>2, <3>1, OutcomeSafe
    <3>2. CASE q # r
      <4>1. Safe(q) \/ offer[q] = src[q]
        BY <2>1, <2>2 DEF Selected
      <4>2. retry'[q] = retry[q] /\ offer'[q] = offer[q]
        BY <1>13, <3>2 DEF ApplyOutcome
      <4> QED
        BY <2>1, <2>2, <4>1, <4>2, SafeKept
    <3> QED
      BY <3>1, <3>2
  <2> QED
    BY <2>1, <2>2
<1>14. CASE AdvanceCursor
  BY <1>14, SafeKept DEF AdvanceCursor, storeVars, hubVars, runVars, EndRun
<1>15. CASE RunStops
  BY <1>15, SafeKept DEF RunStops, storeVars, hubVars, runVars, Fault, EndRun, MergesLeft
<1>16. ASSUME NEW r \in Rows, BackoffEnds(r) PROVE Selected'
  BY <1>16, SafeKept DEF BackoffEnds, storeVars, hubVars, runVars
<1>17. ASSUME NEW r \in Rows, BeginMerge(r) PROVE Selected'
  BY <1>17, SafeKept DEF BeginMerge, storeVars, hubVars, runVars
<1>18. CASE ConfirmMerge
  BY <1>18, SafeKept DEF ConfirmMerge, storeVars, hubVars, runVars
<1>19. CASE CommitMerge
  BY <1>19, SafeKept DEF CommitMerge, storeVars, hubVars, runVars, StoreAtHub, MergesLeft
<1>20. CASE MergeUndecided
  BY <1>20, SafeKept DEF MergeUndecided, storeVars, hubVars, runVars, Fault, MergesLeft
<1>21. ASSUME NEW m \in merges, LateRead(m) PROVE Selected'
  BY <1>21, SafeKept DEF LateRead, storeVars, hubVars, runVars
<1>22. ASSUME NEW m \in merges, LateConfirm(m) PROVE Selected'
  BY <1>22, SafeKept DEF LateConfirm, storeVars, hubVars, runVars
<1>23. ASSUME NEW m \in merges, LateCommit(m) PROVE Selected'
  BY <1>23, SafeKept DEF LateCommit, storeVars, hubVars, runVars, StoreAtHub, MergesLeft
<1>24. CASE UNCHANGED vars
  BY <1>24, SafeKept DEF vars, storeVars, hubVars, runVars
<1> QED
  BY <1>1, <1>2, <1>3, <1>4, <1>5, <1>6, <1>7, <1>8, <1>9, <1>10, <1>11, <1>12,
     <1>13, <1>14, <1>15, <1>16, <1>17, <1>18, <1>19, <1>20, <1>21, <1>22, <1>23, <1>24, HubWritesOnly
  DEF Next, SenderStep, HubStep, LateStep, Writes

(* Every step keeps what is at or below the cursor accounted for.          *)
LEMMA StepCovers == SyncInv /\ [Next]_vars => CursorCovers'
<1> SUFFICES ASSUME TypeOK, Shape, Answers, OfferCurrent, FreshCovered, Selected, CoversSafe, [Next]_vars
             PROVE CoversSafe'
  BY DEF SyncInv, RunInv, CursorCovers, CoversSafe, Safe
<1> USE SyncConstants DEF TypeOK, Store, NoOffer, CoversSafe, Owed
<1>1. CASE Tick
  BY <1>1, SafeKept DEF Tick, storeVars, hubVars, runVars
<1>2. ASSUME NEW r \in Rows, NEW k \in Kinds, BeginPut(r, k) PROVE CoversSafe'
  BY <1>2, SafeKept DEF BeginPut, storeVars, hubVars, runVars
<1>3. ASSUME NEW r \in Rows, CommitPut(r) PROVE CoversSafe'
  <2>1. cursor' = cursor /\ retry' = retry
    BY <1>3 DEF CommitPut
  <2>2. ASSUME NEW q \in Rows, Owed(q)', src'[q].at <= cursor PROVE Safe(q)'
    <3>1. CASE q = r
      BY <1>3, <2>2, <3>1 DEF CommitPut, Safe
    <3>2. CASE q # r
      <4>1. src'[q] = src[q] /\ (q \in late => q \in late') /\ (q \in had => q \in had')
        BY <1>3, <3>2 DEF CommitPut
      <4> QED
        BY <2>1, <2>2, <4>1, SafeKept
    <3> QED
      BY <3>1, <3>2
  <2> QED
    BY <2>1, <2>2
<1>4. ASSUME NEW r \in Rows, DeleteRow(r) PROVE CoversSafe'
  BY <1>4, SafeKept DEF DeleteRow, storeVars, hubVars, runVars
<1>5. ASSUME NEW r \in Rows, NEW v \in HubVersions, HubWrite(r, v) PROVE CoversSafe'
  BY <1>5, SafeKept DEF HubWrite, storeVars, hubVars, runVars, StoreAtHub
<1>6. CASE StartRun
  BY <1>6, SafeKept DEF StartRun, storeVars, hubVars, runVars
<1>7. CASE QueryRows
  BY <1>7, SafeKept DEF QueryRows, storeVars, hubVars, runVars
<1>8. CASE ReofferRows
  BY <1>8, SafeKept DEF ReofferRows, storeVars, hubVars, runVars
<1>9. CASE NextBatch
  BY <1>9, SafeKept DEF NextBatch, storeVars, hubVars, runVars
<1>10. CASE SendChunk
  BY <1>10, SafeKept DEF SendChunk, storeVars, hubVars, runVars
<1>11. CASE ChunkAnswered
  BY <1>11, SafeKept DEF ChunkAnswered, storeVars, hubVars, runVars
<1>12. CASE ChunkLost
  BY <1>12, SafeKept DEF ChunkLost, storeVars, hubVars, runVars, Fault, EndRun, MergesLeft
<1>13. ASSUME NEW r \in Rows, ApplyOutcome(r) PROVE CoversSafe'
  <2>1. src' = src /\ late' = late /\ had' = had /\ cursor' = cursor
    BY <1>13 DEF ApplyOutcome, storeVars, hubVars
  <2>2. ASSUME NEW q \in Rows, Owed(q), src[q].at <= cursor PROVE Safe(q)'
    <3>1. CASE q = r /\ r \notin fresh
      BY <1>13, <2>2, <3>1, OutcomeSafe
    <3>2. CASE q \in fresh
      BY <2>1, <2>2, <3>2 DEF FreshCovered, Safe
    <3>3. CASE q # r
      <4>1. retry'[q] = retry[q]
        BY <1>13, <3>3 DEF ApplyOutcome
      <4> QED
        BY <2>1, <2>2, <4>1, SafeKept
    <3> QED
      BY <3>1, <3>2, <3>3
  <2> QED
    BY <2>1, <2>2
<1>14. CASE AdvanceCursor
  <2>1. /\ pc = "batch" /\ src' = src /\ retry' = retry /\ cursor' = queriedAt /\ late \subseteq late' /\ had' = had
        /\ \A q \in Rows : offer[q] = None
    BY <1>14 DEF AdvanceCursor, Offered, hubVars
  <2>2. ASSUME NEW q \in Rows, Owed(q), src[q].at <= queriedAt PROVE Safe(q)'
    <3>1. CASE q \in fresh
      BY <1>14, <2>2, <3>1 DEF AdvanceCursor, Safe
    <3>2. CASE q \notin fresh
      <4>1. Safe(q)
        BY <2>1, <2>2, <3>2 DEF Selected
      <4> QED
        BY <2>1, <2>2, <4>1, SafeKept
    <3> QED
      BY <3>1, <3>2
  <2> QED
    BY <2>1, <2>2
<1>15. CASE RunStops
  BY <1>15, SafeKept DEF RunStops, storeVars, hubVars, runVars, Fault, EndRun, MergesLeft
<1>16. ASSUME NEW r \in Rows, BackoffEnds(r) PROVE CoversSafe'
  BY <1>16, SafeKept DEF BackoffEnds, storeVars, hubVars, runVars
<1>17. ASSUME NEW r \in Rows, BeginMerge(r) PROVE CoversSafe'
  BY <1>17, SafeKept DEF BeginMerge, storeVars, hubVars, runVars
<1>18. CASE ConfirmMerge
  BY <1>18, SafeKept DEF ConfirmMerge, storeVars, hubVars, runVars
<1>19. CASE CommitMerge
  BY <1>19, SafeKept DEF CommitMerge, storeVars, hubVars, runVars, StoreAtHub, MergesLeft
<1>20. CASE MergeUndecided
  BY <1>20, SafeKept DEF MergeUndecided, storeVars, hubVars, runVars, Fault, MergesLeft
<1>21. ASSUME NEW m \in merges, LateRead(m) PROVE CoversSafe'
  BY <1>21, SafeKept DEF LateRead, storeVars, hubVars, runVars
<1>22. ASSUME NEW m \in merges, LateConfirm(m) PROVE CoversSafe'
  BY <1>22, SafeKept DEF LateConfirm, storeVars, hubVars, runVars
<1>23. ASSUME NEW m \in merges, LateCommit(m) PROVE CoversSafe'
  BY <1>23, SafeKept DEF LateCommit, storeVars, hubVars, runVars, StoreAtHub, MergesLeft
<1>24. CASE UNCHANGED vars
  BY <1>24, SafeKept DEF vars, storeVars, hubVars, runVars
<1> QED
  BY <1>1, <1>2, <1>3, <1>4, <1>5, <1>6, <1>7, <1>8, <1>9, <1>10, <1>11, <1>12,
     <1>13, <1>14, <1>15, <1>16, <1>17, <1>18, <1>19, <1>20, <1>21, <1>22, <1>23, <1>24, HubWritesOnly
  DEF Next, SenderStep, HubStep, LateStep, Writes

-----------------------------------------------------------------------------
LEMMA StepRun == RunInv /\ [Next]_vars => RunInv'
BY StepType, StepShape DEF RunInv

LEMMA StepHubInv == HubInv /\ [Next]_vars => HubInv'
BY StepRun, StepLock DEF HubInv

LEMMA StepSync == SyncInv /\ [Next]_vars => SyncInv'
BY StepRun, StepHad, StepAnswers, StepFresh, StepOffer, StepSelected, StepCovers DEF SyncInv

(* Every variable of the run, the two stores and the merges has its type,  *)
(* whatever the memories, the writes and the failures.                     *)
THEOREM SyncTypeCorrect == Spec => []TypeOK
<1>1. RunInv => TypeOK
  BY DEF RunInv
<1> QED
  BY <1>1, InitRun, StepRun, PTL DEF Spec

(* No merge replaces the hub's memory by an older version or removes it,   *)
(* whatever repeated, late or reordered records mergeRecord is given and   *)
(* whatever the hub's writers stamp, put and delete, unless one of them    *)
(* commits between the confirmation and the commit of that merge.          *)
THEOREM HubIsNeverSetBack == Spec => HubNeverGoesBack
<1>1. Init => HubInv
  BY InitRun, InitLock DEF HubInv
<1>2. HubInv /\ [Next]_vars => [HubKept]_vars
  BY StepHub
<1>3. Spec => [][HubKept]_vars
  BY <1>1, <1>2, StepHubInv, PTL DEF Spec
<1> QED
  BY <1>3, PTL DEF HubNeverGoesBack, HubKept

(* A private memory never reaches the hub, also not through a retry row    *)
(* that was made while it was shared.                                      *)
THEOREM PrivateMemoriesStay == Spec => []PrivateStays
<1>1. Init => PrivacyInv
  BY InitRun, InitPrivacy DEF PrivacyInv
<1>2. PrivacyInv /\ [Next]_vars => PrivacyInv'
  BY StepRun, StepPrivacy DEF PrivacyInv
<1>3. PrivacyInv => PrivateStays
  BY DEF PrivacyInv
<1> QED
  BY <1>1, <1>2, <1>3, PTL DEF Spec

(* A run that moves the cursor has accounted for every memory stamped at   *)
(* or below it: the hub has stored it, it has a retry row, or it was       *)
(* committed after the query.                                              *)
THEOREM CursorCoversAll == Spec => []CursorCovers
<1>1. Init => SyncInv
  BY InitRun, InitAnswers, InitCovers DEF SyncInv
<1>2. SyncInv => CursorCovers
  BY DEF SyncInv
<1> QED
  BY <1>1, <1>2, StepSync, PTL DEF Spec
==============================================================================
