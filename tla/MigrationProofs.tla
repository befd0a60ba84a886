--------------------------- MODULE MigrationProofs ---------------------------
(***************************************************************************)
(* Proofs about the migration lock and the cycles that run under it, for   *)
(* any processes, hosts, rows, versions, crashes and failures.             *)
(*                                                                         *)
(* That a live handle stands for the file at the lock path is not          *)
(* inductive.  A process that changes the file has judged it earlier, in   *)
(* steps that others come between; its judgement holds because it owns the *)
(* guard meanwhile (GuardOwned) and nobody else touches the path           *)
(* (PathJudged).  That nobody takes the guard of a live process rests in   *)
(* turn on a judgement that cannot go stale: an entry no process has for   *)
(* its generation is never one again, as new entries are fresh, also after *)
(* a boot under the same pid (UnlinkJudged).                               *)
(***************************************************************************)
EXTENDS MigrationRunner, TLAPS

(* The labels of a call that has published the guard.                      *)
Guarded == {"look", "link", "drop", "replace", "remove", "unguard"}

(* What a process knows, by where it is in its call.                       *)
CallShape ==
  \A p \in Procs :
    /\ gen[p] # None <=> pc[p] \in Guarded
    /\ handle[p] # None <=> pc[p] = "work"
    /\ pc[p] \in {"idle", "work", "link", "drop", "replace"} => p \notin releasing
    /\ p \in retry => pc[p] = "unguard" /\ rec[p] = None /\ p \notin releasing
    /\ p \notin releasing /\ pc[p] # "unguard" => rec[p] = None
    /\ p \notin alive => pc[p] = "idle"
    /\ pc[p] \in {"open", "unlink"} => seen[p] # None

(* The entries a process remembers as its own carry its pid.               *)
OwnNames ==
  \A p \in Procs :
    /\ gen[p] # None => gen[p].by = p
    /\ handle[p] # None => handle[p].by = p
    /\ rec[p] # None => rec[p].by = p
    /\ lostRec[p] # None => lostRec[p].by = p

(* The entry a process is about to unlink is nobody's generation, unless   *)
(* it is judged by its age.                                                *)
UnlinkJudged ==
  \A p \in Procs :
    pc[p] = "unlink" /\ host[seen[p].by] = host[p] => gen[seen[p].by] # seen[p]

(* The guard is the generation of whoever has published one.               *)
GuardOwned == ~stolen => \A p \in Procs : gen[p] # None => guard = gen[p]

(* What a process has found at the lock path is still there, and it is not *)
(* the file of a process that works, unless that is judged by its age.     *)
PathJudged ==
  ~stolen =>
    \A p \in Procs :
      /\ pc[p] = "drop" => lock = lostRec[p]
      /\ pc[p] = "remove" => lock = rec[p]
      /\ pc[p] = "replace" => lock # None /\ (host[lock.by] = host[p] => handle[lock.by] # lock)
      /\ pc[p] = "unguard" /\ p \notin releasing /\ rec[p] # None => lock = rec[p]

CallInv == LockTypeOK /\ CallShape /\ OwnNames
GuardInv == CallInv /\ UnlinkJudged /\ GuardOwned
PathInv == GuardInv /\ PathJudged /\ HandleOwnsPath

(* What a cycle does outside the calls of the lock.                        *)
Quiet ==
  /\ UNCHANGED <<host, alive, callVars, guard, guardFresh, lock, memVars, crashes, ages, stolen>>
  /\ lockFresh' \in BOOLEAN /\ faults' \in 0 .. MaxFaults

(* A cycle is inside its lock.                                             *)
StageAtWork == \A p \in Procs : stage[p] # "begin" => pc[p] = "work"

(* A record that has counted rows comes from the entry that was read.      *)
CountedRecord == \A p \in Procs : stage[p] = "detect" /\ unconf[p] # {} => ent[p] # None

(* A success that is about to be recorded is true.                         *)
SuccessToCome ==
  \A p \in Procs :
    stage[p] \in {"record", "check", "rename"} /\ next[p] # None /\ next[p].out = "success" =>
      pending \subseteq arrived[p]

CycleInv == TypeOK /\ CallInv /\ CountedRecord
TruthInv == CycleInv /\ SuccessToCome /\ SuccessCovers
EntryInv == CycleInv /\ PathInv /\ StageAtWork /\ NoLostEntry

(* A step of the lock: of its calls, of a release, of the processes, of    *)
(* time, or none.                                                          *)
LockStep ==
  \/ \E p \in Procs :
       Acquire(p) \/ CallStep(p) \/ CallFails(p) \/ Release(p) \/ Crash(p) \/ Boot(p)
  \/ Ages \/ Quiet

-----------------------------------------------------------------------------
(* The assumptions on the constants, as the leaves use them.               *)
LEMMA MigrationConstants ==
  /\ GuardAttempts \in Nat \ {0} /\ LockRounds \in Nat \ {0}
  /\ MaxCrashes \in Nat /\ MaxFaults \in Nat /\ MaxAges \in Nat
  /\ MaxCycles \in Nat /\ MaxArrivals \in Nat
  /\ None \notin Entry /\ None \notin StateEntry
  /\ Hostings \subseteq [Procs -> Hosts] /\ \A p \in Procs : Version[p] \in Versions
BY LockAssumption, RunnerAssumption DEF Entry, StateEntry

(* An entry names the process that made it.                                *)
LEMMA EntryBy == \A e \in Entry : e.by \in Procs
BY DEF Entry

(* A fresh entry is its process's, and nothing remembers it yet.           *)
LEMMA FreshEntry ==
  ASSUME NEW p \in Procs, NEW e \in Fresh(p)
  PROVE  /\ e \in Entry /\ e.by = p /\ e # lock /\ e # guard
         /\ \A q \in Procs : e # seen[q] /\ e # gen[q] /\ e # handle[q] /\ e # rec[q] /\ e # lostRec[q]
BY DEF Fresh, Known

(* Every step of the lock keeps the types of the Boolean variables.        *)
LEMMA BooleansStep ==
  LockTypeOK /\ LockStep => /\ guardFresh' \in BOOLEAN
                           /\ lockFresh' \in BOOLEAN
                           /\ stolen' \in BOOLEAN
<1> DEFINE Booleans == guardFresh \in BOOLEAN /\ lockFresh \in BOOLEAN /\ stolen \in BOOLEAN
<1> SUFFICES ASSUME Booleans, LockStep PROVE Booleans'
  BY DEF LockTypeOK
<1>1. ASSUME NEW p \in Procs, Acquire(p) PROVE Booleans'
  BY <1>1 DEF Acquire, Goto, callVars, fileVars, memVars, bounds
<1>2. ASSUME NEW p \in Procs, PublishGuard(p) PROVE Booleans'
  BY <1>2 DEF PublishGuard, Goto, callVars, fileVars, memVars, bounds
<1>3. ASSUME NEW p \in Procs, ListGuard(p) PROVE Booleans'
  BY <1>3 DEF ListGuard, NextTry, Refused, Goto, callVars, fileVars, memVars, bounds
<1>4. ASSUME NEW p \in Procs, OpenGuard(p) PROVE Booleans'
  BY <1>4 DEF OpenGuard, Refused, Goto, callVars, fileVars, memVars, bounds
<1>5. ASSUME NEW p \in Procs, UnlinkGuard(p) PROVE Booleans'
  BY <1>5 DEF UnlinkGuard, NextTry, Refused, Goto, callVars, fileVars, memVars, bounds
<1>6. ASSUME NEW p \in Procs, Look(p) PROVE Booleans'
  BY <1>6 DEF Look, Goto, callVars, fileVars, memVars, bounds
<1>7. ASSUME NEW p \in Procs, DropAbandoned(p) PROVE Booleans'
  BY <1>7 DEF DropAbandoned, Goto, callVars, fileVars, memVars, bounds
<1>8. ASSUME NEW p \in Procs, PublishLock(p) PROVE Booleans'
  BY <1>8 DEF PublishLock, Goto, callVars, fileVars, memVars, bounds
<1>9. ASSUME NEW p \in Procs, ReplaceLock(p) PROVE Booleans'
  BY <1>9 DEF ReplaceLock, Goto, callVars, fileVars, memVars, bounds
<1>10. ASSUME NEW p \in Procs, ReleaseLook(p) PROVE Booleans'
  BY <1>10 DEF ReleaseLook, Goto, callVars, fileVars, memVars, bounds
<1>11. ASSUME NEW p \in Procs, RemoveLock(p) PROVE Booleans'
  BY <1>11 DEF RemoveLock, Goto, callVars, fileVars, memVars, bounds
<1>12. ASSUME NEW p \in Procs, Unguard(p) PROVE Booleans'
  BY <1>12 DEF Unguard, Goto, callVars, fileVars, memVars, bounds
<1>13. ASSUME NEW p \in Procs, GuardFails(p) PROVE Booleans'
  BY <1>13 DEF GuardFails, Fault, Refused, Goto, callVars, fileVars, memVars, bounds
<1>14. ASSUME NEW p \in Procs, TransitionFails(p) PROVE Booleans'
  BY <1>14 DEF TransitionFails, Fault, Goto, callVars, fileVars, memVars, bounds
<1>15. ASSUME NEW p \in Procs, UnguardFails(p) PROVE Booleans'
  BY <1>15 DEF UnguardFails, Fault, Goto, callVars, fileVars, memVars, bounds
<1>16. ASSUME NEW p \in Procs, Release(p) PROVE Booleans'
  BY <1>16 DEF Release, Goto, callVars, fileVars, memVars, bounds
<1>17. ASSUME NEW p \in Procs, Crash(p) PROVE Booleans'
  BY <1>17 DEF Crash, Goto, callVars, fileVars, memVars, bounds
<1>18. ASSUME NEW p \in Procs, Boot(p) PROVE Booleans'
  BY <1>18 DEF Boot, Goto, callVars, fileVars, memVars, bounds
<1>19. CASE LockAges
  BY <1>19 DEF LockAges, Goto, callVars, fileVars, memVars, bounds
<1>20. CASE GuardAges
  BY <1>20 DEF GuardAges, Goto, callVars, fileVars, memVars, bounds
<1>21. CASE Quiet
  BY <1>21 DEF Quiet, Goto, callVars, fileVars, memVars, bounds
<1> QED
  BY <1>1, <1>2, <1>3, <1>4, <1>5, <1>6, <1>7, <1>8, <1>9, <1>10, <1>11, <1>12,
     <1>13, <1>14, <1>15, <1>16, <1>17, <1>18, <1>19, <1>20, <1>21
  DEF LockStep, CallStep, CallFails, Ages

(* Every step of the lock keeps the types.                                 *)
LEMMA LockTypeStep == LockTypeOK /\ LockStep => LockTypeOK'
<1> DEFINE Others ==
      /\ host \in [Procs -> Hosts] /\ alive \subseteq Procs
      /\ pc \in [Procs -> Labels] /\ releasing \subseteq Procs /\ retry \subseteq Procs
      /\ tries \in [Procs -> 0 .. GuardAttempts - 1] /\ round \in [Procs -> 0 .. LockRounds - 1]
      /\ {guard, lock} \subseteq Entry \cup {None}
      /\ crashes \in 0 .. MaxCrashes /\ faults \in 0 .. MaxFaults /\ ages \in 0 .. MaxAges
      /\ {seen, gen, lostGen, rec, handle, lostRec} \subseteq [Procs -> Entry \cup {None}]
<1> SUFFICES ASSUME Others, LockStep PROVE Others'
  BY BooleansStep DEF LockTypeOK
<1> USE MigrationConstants DEF Labels
<1>1. ASSUME NEW p \in Procs, Acquire(p) PROVE Others'
  BY <1>1 DEF Acquire, Goto, callVars, fileVars, memVars, bounds
<1>2. ASSUME NEW p \in Procs, PublishGuard(p) PROVE Others'
  BY <1>2, FreshEntry DEF PublishGuard, Goto, callVars, fileVars, memVars, bounds
<1>3. ASSUME NEW p \in Procs, ListGuard(p) PROVE Others'
  BY <1>3 DEF ListGuard, NextTry, Refused, Goto, callVars, fileVars, memVars, bounds
<1>4. ASSUME NEW p \in Procs, OpenGuard(p) PROVE Others'
  BY <1>4 DEF OpenGuard, Refused, Goto, callVars, fileVars, memVars, bounds
<1>5. ASSUME NEW p \in Procs, UnlinkGuard(p) PROVE Others'
  BY <1>5 DEF UnlinkGuard, NextTry, Refused, Goto, callVars, fileVars, memVars, bounds
<1>6. ASSUME NEW p \in Procs, Look(p) PROVE Others'
  BY <1>6 DEF Look, Goto, callVars, fileVars, memVars, bounds
<1>7. ASSUME NEW p \in Procs, DropAbandoned(p) PROVE Others'
  BY <1>7 DEF DropAbandoned, Goto, callVars, fileVars, memVars, bounds
<1>8. ASSUME NEW p \in Procs, PublishLock(p) PROVE Others'
  BY <1>8, FreshEntry DEF PublishLock, Goto, callVars, fileVars, memVars, bounds
<1>9. ASSUME NEW p \in Procs, ReplaceLock(p) PROVE Others'
  BY <1>9, FreshEntry DEF ReplaceLock, Goto, callVars, fileVars, memVars, bounds
<1>10. ASSUME NEW p \in Procs, ReleaseLook(p) PROVE Others'
  BY <1>10 DEF ReleaseLook, Goto, callVars, fileVars, memVars, bounds
<1>11. ASSUME NEW p \in Procs, RemoveLock(p) PROVE Others'
  BY <1>11 DEF RemoveLock, Goto, callVars, fileVars, memVars, bounds
<1>12. ASSUME NEW p \in Procs, Unguard(p) PROVE Others'
  BY <1>12 DEF Unguard, Goto, callVars, fileVars, memVars, bounds
<1>13. ASSUME NEW p \in Procs, GuardFails(p) PROVE Others'
  BY <1>13 DEF GuardFails, Fault, Refused, Goto, callVars, fileVars, memVars, bounds
<1>14. ASSUME NEW p \in Procs, TransitionFails(p) PROVE Others'
  BY <1>14 DEF TransitionFails, Fault, Goto, callVars, fileVars, memVars, bounds
<1>15. ASSUME NEW p \in Procs, UnguardFails(p) PROVE Others'
  BY <1>15 DEF UnguardFails, Fault, Goto, callVars, fileVars, memVars, bounds
<1>16. ASSUME NEW p \in Procs, Release(p) PROVE Others'
  BY <1>16 DEF Release, Goto, callVars, fileVars, memVars, bounds
<1>17. ASSUME NEW p \in Procs, Crash(p) PROVE Others'
  BY <1>17 DEF Crash, Goto, callVars, fileVars, memVars, bounds
<1>18. ASSUME NEW p \in Procs, Boot(p) PROVE Others'
  BY <1>18 DEF Boot, Goto, callVars, fileVars, memVars, bounds
<1>19. CASE LockAges
  BY <1>19 DEF LockAges, Goto, callVars, fileVars, memVars, bounds
<1>20. CASE GuardAges
  BY <1>20 DEF GuardAges, Goto, callVars, fileVars, memVars, bounds
<1>21. CASE Quiet
  BY <1>21 DEF Quiet, Goto, callVars, fileVars, memVars, bounds
<1> QED
  BY <1>1, <1>2, <1>3, <1>4, <1>5, <1>6, <1>7, <1>8, <1>9, <1>10, <1>11, <1>12,
     <1>13, <1>14, <1>15, <1>16, <1>17, <1>18, <1>19, <1>20, <1>21
  DEF LockStep, CallStep, CallFails, Ages

(* Every step of the lock keeps what a process knows in line with where it *)
(* is.                                                                     *)
LEMMA ShapeStep == CallInv /\ LockStep => CallShape'
<1> SUFFICES ASSUME LockTypeOK, CallShape, LockStep PROVE CallShape'
  BY DEF CallInv
<1> USE MigrationConstants DEF LockTypeOK, Labels, CallShape, Guarded
<1>1. ASSUME NEW p \in Procs, Acquire(p) PROVE CallShape'
  BY <1>1 DEF Acquire, Goto, callVars, fileVars, memVars, bounds
<1>2. ASSUME NEW p \in Procs, PublishGuard(p) PROVE CallShape'
  BY <1>2, FreshEntry DEF PublishGuard, Goto, callVars, fileVars, memVars, bounds
<1>3. ASSUME NEW p \in Procs, ListGuard(p) PROVE CallShape'
  BY <1>3 DEF ListGuard, NextTry, Refused, Goto, callVars, fileVars, memVars, bounds
<1>4. ASSUME NEW p \in Procs, OpenGuard(p) PROVE CallShape'
  BY <1>4 DEF OpenGuard, Refused, Goto, callVars, fileVars, memVars, bounds
<1>5. ASSUME NEW p \in Procs, UnlinkGuard(p) PROVE CallShape'
  BY <1>5 DEF UnlinkGuard, NextTry, Refused, Goto, callVars, fileVars, memVars, bounds
<1>6. ASSUME NEW p \in Procs, Look(p) PROVE CallShape'
  BY <1>6 DEF Look, Goto, callVars, fileVars, memVars, bounds
<1>7. ASSUME NEW p \in Procs, DropAbandoned(p) PROVE CallShape'
  BY <1>7 DEF DropAbandoned, Goto, callVars, fileVars, memVars, bounds
<1>8. ASSUME NEW p \in Procs, PublishLock(p) PROVE CallShape'
  BY <1>8, FreshEntry DEF PublishLock, Goto, callVars, fileVars, memVars, bounds
<1>9. ASSUME NEW p \in Procs, ReplaceLock(p) PROVE CallShape'
  BY <1>9, FreshEntry DEF ReplaceLock, Goto, callVars, fileVars, memVars, bounds
<1>10. ASSUME NEW p \in Procs, ReleaseLook(p) PROVE CallShape'
  BY <1>10 DEF ReleaseLook, Goto, callVars, fileVars, memVars, bounds
<1>11. ASSUME NEW p \in Procs, RemoveLock(p) PROVE CallShape'
  BY <1>11 DEF RemoveLock, Goto, callVars, fileVars, memVars, bounds
<1>12. ASSUME NEW p \in Procs, Unguard(p) PROVE CallShape'
  BY <1>12 DEF Unguard, Goto, callVars, fileVars, memVars, bounds
<1>13. ASSUME NEW p \in Procs, GuardFails(p) PROVE CallShape'
  BY <1>13 DEF GuardFails, Fault, Refused, Goto, callVars, fileVars, memVars, bounds
<1>14. ASSUME NEW p \in Procs, TransitionFails(p) PROVE CallShape'
  BY <1>14 DEF TransitionFails, Fault, Goto, callVars, fileVars, memVars, bounds
<1>15. ASSUME NEW p \in Procs, UnguardFails(p) PROVE CallShape'
  BY <1>15 DEF UnguardFails, Fault, Goto, callVars, fileVars, memVars, bounds
<1>16. ASSUME NEW p \in Procs, Release(p) PROVE CallShape'
  BY <1>16 DEF Release, Goto, callVars, fileVars, memVars, bounds
<1>17. ASSUME NEW p \in Procs, Crash(p) PROVE CallShape'
  BY <1>17 DEF Crash, Goto, callVars, fileVars, memVars, bounds
<1>18. ASSUME NEW p \in Procs, Boot(p) PROVE CallShape'
  BY <1>18 DEF Boot, Goto, callVars, fileVars, memVars, bounds
<1>19. CASE LockAges
  BY <1>19 DEF LockAges, Goto, callVars, fileVars, memVars, bounds
<1>20. CASE GuardAges
  BY <1>20 DEF GuardAges, Goto, callVars, fileVars, memVars, bounds
<1>21. CASE Quiet
  BY <1>21 DEF Quiet, Goto, callVars, fileVars, memVars, bounds
<1> QED
  BY <1>1, <1>2, <1>3, <1>4, <1>5, <1>6, <1>7, <1>8, <1>9, <1>10, <1>11, <1>12,
     <1>13, <1>14, <1>15, <1>16, <1>17, <1>18, <1>19, <1>20, <1>21
  DEF LockStep, CallStep, CallFails, Ages

(* Every step of the lock keeps the names of a process's own entries.      *)
LEMMA NamesStep == CallInv /\ LockStep => OwnNames'
<1> SUFFICES ASSUME LockTypeOK, CallShape, OwnNames, LockStep PROVE OwnNames'
  BY DEF CallInv
<1> USE MigrationConstants DEF LockTypeOK, OwnNames
<1>1. ASSUME NEW p \in Procs, Acquire(p) PROVE OwnNames'
  BY <1>1 DEF Acquire, Goto, callVars, fileVars, memVars, bounds
<1>2. ASSUME NEW p \in Procs, PublishGuard(p) PROVE OwnNames'
  BY <1>2, FreshEntry DEF PublishGuard, Goto, callVars, fileVars, memVars, bounds
<1>3. ASSUME NEW p \in Procs, ListGuard(p) PROVE OwnNames'
  BY <1>3 DEF ListGuard, NextTry, Refused, Goto, callVars, fileVars, memVars, bounds
<1>4. ASSUME NEW p \in Procs, OpenGuard(p) PROVE OwnNames'
  BY <1>4 DEF OpenGuard, Refused, Goto, callVars, fileVars, memVars, bounds
<1>5. ASSUME NEW p \in Procs, UnlinkGuard(p) PROVE OwnNames'
  BY <1>5 DEF UnlinkGuard, NextTry, Refused, Goto, callVars, fileVars, memVars, bounds
<1>6. ASSUME NEW p \in Procs, Look(p) PROVE OwnNames'
  BY <1>6 DEF Look, Goto, callVars, fileVars, memVars, bounds
<1>7. ASSUME NEW p \in Procs, DropAbandoned(p) PROVE OwnNames'
  BY <1>7 DEF DropAbandoned, Goto, callVars, fileVars, memVars, bounds
<1>8. ASSUME NEW p \in Procs, PublishLock(p) PROVE OwnNames'
  BY <1>8, FreshEntry DEF PublishLock, Goto, callVars, fileVars, memVars, bounds
<1>9. ASSUME NEW p \in Procs, ReplaceLock(p) PROVE OwnNames'
  BY <1>9, FreshEntry DEF ReplaceLock, Goto, callVars, fileVars, memVars, bounds
<1>10. ASSUME NEW p \in Procs, ReleaseLook(p) PROVE OwnNames'
  BY <1>10 DEF ReleaseLook, Goto, callVars, fileVars, memVars, bounds
<1>11. ASSUME NEW p \in Procs, RemoveLock(p) PROVE OwnNames'
  BY <1>11 DEF RemoveLock, Goto, callVars, fileVars, memVars, bounds
<1>12. ASSUME NEW p \in Procs, Unguard(p) PROVE OwnNames'
  BY <1>12 DEF Unguard, Goto, callVars, fileVars, memVars, bounds
<1>13. ASSUME NEW p \in Procs, GuardFails(p) PROVE OwnNames'
  BY <1>13 DEF GuardFails, Fault, Refused, Goto, callVars, fileVars, memVars, bounds
<1>14. ASSUME NEW p \in Procs, TransitionFails(p) PROVE OwnNames'
  BY <1>14 DEF TransitionFails, Fault, Goto, callVars, fileVars, memVars, bounds
<1>15. ASSUME NEW p \in Procs, UnguardFails(p) PROVE OwnNames'
  BY <1>15 DEF UnguardFails, Fault, Goto, callVars, fileVars, memVars, bounds
<1>16. ASSUME NEW p \in Procs, Release(p) PROVE OwnNames'
  BY <1>16 DEF Release, Goto, callVars, fileVars, memVars, bounds
<1>17. ASSUME NEW p \in Procs, Crash(p) PROVE OwnNames'
  BY <1>17 DEF Crash, Goto, callVars, fileVars, memVars, bounds
<1>18. ASSUME NEW p \in Procs, Boot(p) PROVE OwnNames'
  BY <1>18 DEF Boot, Goto, callVars, fileVars, memVars, bounds
<1>19. CASE LockAges
  BY <1>19 DEF LockAges, Goto, callVars, fileVars, memVars, bounds
<1>20. CASE GuardAges
  BY <1>20 DEF GuardAges, Goto, callVars, fileVars, memVars, bounds
<1>21. CASE Quiet
  BY <1>21 DEF Quiet, Goto, callVars, fileVars, memVars, bounds
<1> QED
  BY <1>1, <1>2, <1>3, <1>4, <1>5, <1>6, <1>7, <1>8, <1>9, <1>10, <1>11, <1>12,
     <1>13, <1>14, <1>15, <1>16, <1>17, <1>18, <1>19, <1>20, <1>21
  DEF LockStep, CallStep, CallFails, Ages

(* An entry judged to be nobody's generation stays so until it is          *)
(* unlinked.                                                               *)
LEMMA UnlinkStep == CallInv /\ UnlinkJudged /\ LockStep => UnlinkJudged'
<1> SUFFICES ASSUME LockTypeOK, CallShape, UnlinkJudged, LockStep PROVE UnlinkJudged'
  BY DEF CallInv
<1> USE MigrationConstants, EntryBy DEF LockTypeOK, CallShape, Guarded, UnlinkJudged
<1>1. ASSUME NEW p \in Procs, Acquire(p) PROVE UnlinkJudged'
  BY <1>1 DEF Acquire, Goto, callVars, fileVars, memVars, bounds
<1>2. ASSUME NEW p \in Procs, PublishGuard(p) PROVE UnlinkJudged'
  BY <1>2, FreshEntry DEF PublishGuard, Goto, callVars, fileVars, memVars, bounds
<1>3. ASSUME NEW p \in Procs, ListGuard(p) PROVE UnlinkJudged'
  BY <1>3 DEF ListGuard, NextTry, Refused, Goto, callVars, fileVars, memVars, bounds
<1>4. ASSUME NEW p \in Procs, OpenGuard(p) PROVE UnlinkJudged'
  BY <1>4 DEF OpenGuard, Refused, Goto, GuardBreakable, fileVars
<1>5. ASSUME NEW p \in Procs, UnlinkGuard(p) PROVE UnlinkJudged'
  BY <1>5 DEF UnlinkGuard, NextTry, Refused, Goto, callVars, fileVars, memVars, bounds
<1>6. ASSUME NEW p \in Procs, Look(p) PROVE UnlinkJudged'
  BY <1>6 DEF Look, Goto, callVars, fileVars, memVars, bounds
<1>7. ASSUME NEW p \in Procs, DropAbandoned(p) PROVE UnlinkJudged'
  BY <1>7 DEF DropAbandoned, Goto, callVars, fileVars, memVars, bounds
<1>8. ASSUME NEW p \in Procs, PublishLock(p) PROVE UnlinkJudged'
  BY <1>8, FreshEntry DEF PublishLock, Goto, callVars, fileVars, memVars, bounds
<1>9. ASSUME NEW p \in Procs, ReplaceLock(p) PROVE UnlinkJudged'
  BY <1>9, FreshEntry DEF ReplaceLock, Goto, callVars, fileVars, memVars, bounds
<1>10. ASSUME NEW p \in Procs, ReleaseLook(p) PROVE UnlinkJudged'
  BY <1>10 DEF ReleaseLook, Goto, callVars, fileVars, memVars, bounds
<1>11. ASSUME NEW p \in Procs, RemoveLock(p) PROVE UnlinkJudged'
  BY <1>11 DEF RemoveLock, Goto, callVars, fileVars, memVars, bounds
<1>12. ASSUME NEW p \in Procs, Unguard(p) PROVE UnlinkJudged'
  BY <1>12 DEF Unguard, Goto, callVars, fileVars, memVars, bounds
<1>13. ASSUME NEW p \in Procs, GuardFails(p) PROVE UnlinkJudged'
  BY <1>13 DEF GuardFails, Fault, Refused, Goto, callVars, fileVars, memVars, bounds
<1>14. ASSUME NEW p \in Procs, TransitionFails(p) PROVE UnlinkJudged'
  BY <1>14 DEF TransitionFails, Fault, Goto, callVars, fileVars, memVars, bounds
<1>15. ASSUME NEW p \in Procs, UnguardFails(p) PROVE UnlinkJudged'
  BY <1>15 DEF UnguardFails, Fault, Goto, callVars, fileVars, memVars, bounds
<1>16. ASSUME NEW p \in Procs, Release(p) PROVE UnlinkJudged'
  BY <1>16 DEF Release, Goto, callVars, fileVars, memVars, bounds
<1>17. ASSUME NEW p \in Procs, Crash(p) PROVE UnlinkJudged'
  BY <1>17 DEF Crash, Goto, callVars, fileVars, memVars, bounds
<1>18. ASSUME NEW p \in Procs, Boot(p) PROVE UnlinkJudged'
  BY <1>18 DEF Boot, Goto, callVars, fileVars, memVars, bounds
<1>19. CASE LockAges
  BY <1>19 DEF LockAges, Goto, callVars, fileVars, memVars, bounds
<1>20. CASE GuardAges
  BY <1>20 DEF GuardAges, Goto, callVars, fileVars, memVars, bounds
<1>21. CASE Quiet
  BY <1>21 DEF Quiet, Goto, callVars, fileVars, memVars, bounds
<1> QED
  BY <1>1, <1>2, <1>3, <1>4, <1>5, <1>6, <1>7, <1>8, <1>9, <1>10, <1>11, <1>12,
     <1>13, <1>14, <1>15, <1>16, <1>17, <1>18, <1>19, <1>20, <1>21
  DEF LockStep, CallStep, CallFails, Ages

(* Without a theft only one process at a time is under the guard.          *)
LEMMA AloneUnderGuard ==
  ASSUME GuardInv, ~stolen, NEW p \in Procs, NEW q \in Procs, pc[p] \in Guarded, pc[q] \in Guarded
  PROVE  p = q
BY DEF GuardInv, CallInv, CallShape, OwnNames, GuardOwned

(* Every step of the lock leaves the guard to the process that has         *)
(* published it.                                                           *)
LEMMA GuardStep == GuardInv /\ LockStep => GuardOwned'
<1> SUFFICES ASSUME LockTypeOK, CallShape, OwnNames, UnlinkJudged, GuardOwned, LockStep PROVE GuardOwned'
  BY DEF GuardInv, CallInv
<1> USE MigrationConstants, EntryBy DEF LockTypeOK, CallShape, OwnNames, Guarded, GuardOwned
<1>1. ASSUME NEW p \in Procs, Acquire(p) PROVE GuardOwned'
  BY <1>1 DEF Acquire, Goto, callVars, fileVars, memVars, bounds
<1>2. ASSUME NEW p \in Procs, PublishGuard(p) PROVE GuardOwned'
  BY <1>2, FreshEntry DEF PublishGuard, Goto, callVars, fileVars, memVars, bounds
<1>3. ASSUME NEW p \in Procs, ListGuard(p) PROVE GuardOwned'
  BY <1>3 DEF ListGuard, NextTry, Refused, Goto, callVars, fileVars, memVars, bounds
<1>4. ASSUME NEW p \in Procs, OpenGuard(p) PROVE GuardOwned'
  BY <1>4 DEF OpenGuard, Refused, Goto, callVars, fileVars, memVars, bounds
<1>5. ASSUME NEW p \in Procs, UnlinkGuard(p) PROVE GuardOwned'
  <2>1. gen' = gen /\ pc[p] = "unlink" /\ seen[p] \in Entry /\ (stolen => stolen')
    BY <1>5 DEF UnlinkGuard
  <2>2. CASE guard # seen[p]
    BY <1>5, <2>1, <2>2 DEF UnlinkGuard
  <2>3. CASE guard = seen[p]
    <3>1. ~stolen' => gen[seen[p].by] # seen[p]
      BY <1>5, <2>1, <2>3 DEF UnlinkGuard, UnlinkJudged
    <3>2. ASSUME ~stolen', NEW q \in Procs, gen[q] # None PROVE FALSE
      <4>1. gen[q] = seen[p] /\ q = seen[p].by
        BY <2>1, <2>3, <3>2
      <4> QED
        BY <3>1, <3>2, <4>1
    <3> QED
      BY <2>1, <3>2
  <2> QED
    BY <2>2, <2>3
<1>6. ASSUME NEW p \in Procs, Look(p) PROVE GuardOwned'
  BY <1>6 DEF Look, Goto, callVars, fileVars, memVars, bounds
<1>7. ASSUME NEW p \in Procs, DropAbandoned(p) PROVE GuardOwned'
  BY <1>7 DEF DropAbandoned, Goto, callVars, fileVars, memVars, bounds
<1>8. ASSUME NEW p \in Procs, PublishLock(p) PROVE GuardOwned'
  BY <1>8, FreshEntry DEF PublishLock, Goto, callVars, fileVars, memVars, bounds
<1>9. ASSUME NEW p \in Procs, ReplaceLock(p) PROVE GuardOwned'
  BY <1>9, FreshEntry DEF ReplaceLock, Goto, callVars, fileVars, memVars, bounds
<1>10. ASSUME NEW p \in Procs, ReleaseLook(p) PROVE GuardOwned'
  BY <1>10 DEF ReleaseLook, Goto, callVars, fileVars, memVars, bounds
<1>11. ASSUME NEW p \in Procs, RemoveLock(p) PROVE GuardOwned'
  BY <1>11 DEF RemoveLock, Goto, callVars, fileVars, memVars, bounds
<1>12. ASSUME NEW p \in Procs, Unguard(p) PROVE GuardOwned'
  BY <1>12 DEF Unguard, Goto, callVars, fileVars, memVars, bounds
<1>13. ASSUME NEW p \in Procs, GuardFails(p) PROVE GuardOwned'
  BY <1>13 DEF GuardFails, Fault, Refused, Goto, callVars, fileVars, memVars, bounds
<1>14. ASSUME NEW p \in Procs, TransitionFails(p) PROVE GuardOwned'
  BY <1>14 DEF TransitionFails, Fault, Goto, callVars, fileVars, memVars, bounds
<1>15. ASSUME NEW p \in Procs, UnguardFails(p) PROVE GuardOwned'
  BY <1>15 DEF UnguardFails, Fault, Goto, callVars, fileVars, memVars, bounds
<1>16. ASSUME NEW p \in Procs, Release(p) PROVE GuardOwned'
  BY <1>16 DEF Release, Goto, callVars, fileVars, memVars, bounds
<1>17. ASSUME NEW p \in Procs, Crash(p) PROVE GuardOwned'
  BY <1>17 DEF Crash, Goto, callVars, fileVars, memVars, bounds
<1>18. ASSUME NEW p \in Procs, Boot(p) PROVE GuardOwned'
  BY <1>18 DEF Boot, Goto, callVars, fileVars, memVars, bounds
<1>19. CASE LockAges
  BY <1>19 DEF LockAges, Goto, callVars, fileVars, memVars, bounds
<1>20. CASE GuardAges
  BY <1>20 DEF GuardAges, Goto, callVars, fileVars, memVars, bounds
<1>21. CASE Quiet
  BY <1>21 DEF Quiet, Goto, callVars, fileVars, memVars, bounds
<1> QED
  BY <1>1, <1>2, <1>3, <1>4, <1>5, <1>6, <1>7, <1>8, <1>9, <1>10, <1>11, <1>12,
     <1>13, <1>14, <1>15, <1>16, <1>17, <1>18, <1>19, <1>20, <1>21
  DEF LockStep, CallStep, CallFails, Ages

(* Every step of the lock leaves the lock path to the process that works   *)
(* under it.                                                               *)
LEMMA HandleStep == PathInv /\ LockStep => HandleOwnsPath'
<1> SUFFICES ASSUME GuardInv, LockTypeOK, CallShape, OwnNames, PathJudged, HandleOwnsPath, LockStep
             PROVE  HandleOwnsPath'
  BY DEF PathInv, GuardInv, CallInv
<1>alone. ASSUME ~stolen, NEW p \in Procs, NEW q \in Procs, pc[p] \in Guarded, pc[q] \in Guarded
          PROVE  p = q
  BY <1>alone, AloneUnderGuard
<1> USE MigrationConstants, EntryBy DEF LockTypeOK, CallShape, OwnNames, Guarded, PathJudged, HandleOwnsPath
<1>1. ASSUME NEW p \in Procs, Acquire(p) PROVE HandleOwnsPath'
  BY <1>1 DEF Acquire, Goto, callVars, fileVars, memVars, bounds
<1>2. ASSUME NEW p \in Procs, PublishGuard(p) PROVE HandleOwnsPath'
  BY <1>2, FreshEntry DEF PublishGuard, Goto, callVars, fileVars, memVars, bounds
<1>3. ASSUME NEW p \in Procs, ListGuard(p) PROVE HandleOwnsPath'
  BY <1>3 DEF ListGuard, NextTry, Refused, Goto, callVars, fileVars, memVars, bounds
<1>4. ASSUME NEW p \in Procs, OpenGuard(p) PROVE HandleOwnsPath'
  BY <1>4 DEF OpenGuard, Refused, Goto, callVars, fileVars, memVars, bounds
<1>5. ASSUME NEW p \in Procs, UnlinkGuard(p) PROVE HandleOwnsPath'
  BY <1>5 DEF UnlinkGuard, NextTry, Refused, Goto, callVars, fileVars, memVars, bounds
<1>6. ASSUME NEW p \in Procs, Look(p) PROVE HandleOwnsPath'
  BY <1>6, <1>alone DEF Look, Goto, callVars, fileVars, memVars, bounds
<1>7. ASSUME NEW p \in Procs, DropAbandoned(p) PROVE HandleOwnsPath'
  BY <1>7, <1>alone DEF DropAbandoned, Goto, callVars, fileVars, memVars, bounds
<1>8. ASSUME NEW p \in Procs, PublishLock(p) PROVE HandleOwnsPath'
  BY <1>8, <1>alone, FreshEntry DEF PublishLock, Goto, callVars, fileVars, memVars, bounds
<1>9. ASSUME NEW p \in Procs, ReplaceLock(p) PROVE HandleOwnsPath'
  <2>1. /\ pc[p] = "replace" /\ handle' = handle
        /\ ~stolen' => ~stolen /\ ~ \E q \in Procs : host[q] # host[p] /\ handle[q] # None /\ handle[q] = lock
    BY <1>9 DEF ReplaceLock
  <2>2. ASSUME ~stolen', NEW q \in Procs, handle[q] # None PROVE FALSE
    <3>1. lock = handle[q] /\ lock.by = q
      BY <2>1, <2>2
    <3>2. host[q] = host[p]
      BY <2>1, <2>2, <3>1
    <3>3. host[lock.by] = host[p] => handle[lock.by] # lock
      BY <2>1, <2>2
    <3> QED
      BY <3>1, <3>2, <3>3
  <2> QED
    BY <2>1, <2>2
<1>10. ASSUME NEW p \in Procs, ReleaseLook(p) PROVE HandleOwnsPath'
  BY <1>10, <1>alone DEF ReleaseLook, Goto, callVars, fileVars, memVars, bounds
<1>11. ASSUME NEW p \in Procs, RemoveLock(p) PROVE HandleOwnsPath'
  BY <1>11, <1>alone DEF RemoveLock, Goto, callVars, fileVars, memVars, bounds
<1>12. ASSUME NEW p \in Procs, Unguard(p) PROVE HandleOwnsPath'
  BY <1>12, <1>alone DEF Unguard, Goto, callVars, fileVars, memVars, bounds
<1>13. ASSUME NEW p \in Procs, GuardFails(p) PROVE HandleOwnsPath'
  BY <1>13 DEF GuardFails, Fault, Refused, Goto, callVars, fileVars, memVars, bounds
<1>14. ASSUME NEW p \in Procs, TransitionFails(p) PROVE HandleOwnsPath'
  BY <1>14, <1>alone DEF TransitionFails, Fault, Goto, callVars, fileVars, memVars, bounds
<1>15. ASSUME NEW p \in Procs, UnguardFails(p) PROVE HandleOwnsPath'
  BY <1>15, <1>alone DEF UnguardFails, Fault, Goto, callVars, fileVars, memVars, bounds
<1>16. ASSUME NEW p \in Procs, Release(p) PROVE HandleOwnsPath'
  BY <1>16 DEF Release, Goto, callVars, fileVars, memVars, bounds
<1>17. ASSUME NEW p \in Procs, Crash(p) PROVE HandleOwnsPath'
  BY <1>17 DEF Crash, Goto, callVars, fileVars, memVars, bounds
<1>18. ASSUME NEW p \in Procs, Boot(p) PROVE HandleOwnsPath'
  BY <1>18 DEF Boot, Goto, callVars, fileVars, memVars, bounds
<1>19. CASE LockAges
  BY <1>19 DEF LockAges, Goto, callVars, fileVars, memVars, bounds
<1>20. CASE GuardAges
  BY <1>20 DEF GuardAges, Goto, callVars, fileVars, memVars, bounds
<1>21. CASE Quiet
  BY <1>21 DEF Quiet, Goto, callVars, fileVars, memVars, bounds
<1> QED
  BY <1>1, <1>2, <1>3, <1>4, <1>5, <1>6, <1>7, <1>8, <1>9, <1>10, <1>11, <1>12,
     <1>13, <1>14, <1>15, <1>16, <1>17, <1>18, <1>19, <1>20, <1>21
  DEF LockStep, CallStep, CallFails, Ages

(* What a process has found at the lock path stays until it acts on it.    *)
LEMMA PathStep == PathInv /\ LockStep => PathJudged'
<1> SUFFICES ASSUME GuardInv, LockTypeOK, CallShape, OwnNames, PathJudged, HandleOwnsPath, LockStep
             PROVE  PathJudged'
  BY DEF PathInv, GuardInv, CallInv
<1>alone. ASSUME ~stolen, NEW p \in Procs, NEW q \in Procs, pc[p] \in Guarded, pc[q] \in Guarded
          PROVE  p = q
  BY <1>alone, AloneUnderGuard
<1> USE MigrationConstants, EntryBy DEF LockTypeOK, CallShape, OwnNames, Guarded, PathJudged, HandleOwnsPath
<1>1. ASSUME NEW p \in Procs, Acquire(p) PROVE PathJudged'
  BY <1>1 DEF Acquire, Goto, callVars, fileVars, memVars, bounds
<1>2. ASSUME NEW p \in Procs, PublishGuard(p) PROVE PathJudged'
  BY <1>2, FreshEntry DEF PublishGuard, Goto, callVars, fileVars, memVars, bounds
<1>3. ASSUME NEW p \in Procs, ListGuard(p) PROVE PathJudged'
  BY <1>3 DEF ListGuard, NextTry, Refused, Goto, callVars, fileVars, memVars, bounds
<1>4. ASSUME NEW p \in Procs, OpenGuard(p) PROVE PathJudged'
  BY <1>4 DEF OpenGuard, Refused, Goto, callVars, fileVars, memVars, bounds
<1>5. ASSUME NEW p \in Procs, UnlinkGuard(p) PROVE PathJudged'
  BY <1>5 DEF UnlinkGuard, NextTry, Refused, Goto, callVars, fileVars, memVars, bounds
<1>6. ASSUME NEW p \in Procs, Look(p) PROVE PathJudged'
  BY <1>6, <1>alone DEF Look, Goto, LockBreakable, fileVars
<1>7. ASSUME NEW p \in Procs, DropAbandoned(p) PROVE PathJudged'
  BY <1>7, <1>alone DEF DropAbandoned, Goto, callVars, fileVars, memVars, bounds
<1>8. ASSUME NEW p \in Procs, PublishLock(p) PROVE PathJudged'
  BY <1>8, <1>alone, FreshEntry DEF PublishLock, Goto, callVars, fileVars, memVars, bounds
<1>9. ASSUME NEW p \in Procs, ReplaceLock(p) PROVE PathJudged'
  BY <1>9, <1>alone, FreshEntry DEF ReplaceLock, Goto, callVars, fileVars, memVars, bounds
<1>10. ASSUME NEW p \in Procs, ReleaseLook(p) PROVE PathJudged'
  BY <1>10, <1>alone DEF ReleaseLook, Goto, callVars, fileVars, memVars, bounds
<1>11. ASSUME NEW p \in Procs, RemoveLock(p) PROVE PathJudged'
  BY <1>11, <1>alone DEF RemoveLock, Goto, callVars, fileVars, memVars, bounds
<1>12. ASSUME NEW p \in Procs, Unguard(p) PROVE PathJudged'
  BY <1>12, <1>alone DEF Unguard, Goto, callVars, fileVars, memVars, bounds
<1>13. ASSUME NEW p \in Procs, GuardFails(p) PROVE PathJudged'
  BY <1>13 DEF GuardFails, Fault, Refused, Goto, callVars, fileVars, memVars, bounds
<1>14. ASSUME NEW p \in Procs, TransitionFails(p) PROVE PathJudged'
  BY <1>14, <1>alone DEF TransitionFails, Fault, Goto, callVars, fileVars, memVars, bounds
<1>15. ASSUME NEW p \in Procs, UnguardFails(p) PROVE PathJudged'
  BY <1>15, <1>alone DEF UnguardFails, Fault, Goto, callVars, fileVars, memVars, bounds
<1>16. ASSUME NEW p \in Procs, Release(p) PROVE PathJudged'
  BY <1>16 DEF Release, Goto, callVars, fileVars, memVars, bounds
<1>17. ASSUME NEW p \in Procs, Crash(p) PROVE PathJudged'
  BY <1>17 DEF Crash, Goto, callVars, fileVars, memVars, bounds
<1>18. ASSUME NEW p \in Procs, Boot(p) PROVE PathJudged'
  BY <1>18 DEF Boot, Goto, callVars, fileVars, memVars, bounds
<1>19. CASE LockAges
  BY <1>19 DEF LockAges, Goto, callVars, fileVars, memVars, bounds
<1>20. CASE GuardAges
  BY <1>20 DEF GuardAges, Goto, callVars, fileVars, memVars, bounds
<1>21. CASE Quiet
  BY <1>21 DEF Quiet, Goto, callVars, fileVars, memVars, bounds
<1> QED
  BY <1>1, <1>2, <1>3, <1>4, <1>5, <1>6, <1>7, <1>8, <1>9, <1>10, <1>11, <1>12,
     <1>13, <1>14, <1>15, <1>16, <1>17, <1>18, <1>19, <1>20, <1>21
  DEF LockStep, CallStep, CallFails, Ages

-----------------------------------------------------------------------------
(* The cycles.  The lock does not notice what a cycle does outside its     *)
(* calls.                                                                  *)
LEMMA QuietCycle ==
  ASSUME LockTypeOK, SameLock, faults' \in 0 .. MaxFaults, UNCHANGED <<crashes, ages>> PROVE Quiet
BY DEF LockTypeOK, SameLock, Quiet, fileVars, callVars, memVars

(* The lock does not notice a failure that a cycle meets.                  *)
LEMMA QuietFault == ASSUME LockTypeOK, SameLock, Fault PROVE Quiet
BY QuietCycle, MigrationConstants DEF LockTypeOK, Fault

(* The lock does not notice a stuttering step.                             *)
LEMMA QuietStutter == ASSUME LockTypeOK, UNCHANGED lockVars PROVE Quiet
BY QuietCycle DEF LockTypeOK, SameLock, lockVars, bounds

(* Every step of the composition is a step of the lock.                    *)
LEMMA NextIsLockStep == LockTypeOK /\ [Next]_vars => LockStep
<1> SUFFICES ASSUME LockTypeOK, [Next]_vars PROVE LockStep
  OBVIOUS
<1>1. ASSUME NEW p \in Procs, StartCycle(p) PROVE LockStep
  BY <1>1 DEF StartCycle, LockStep
<1>2. ASSUME NEW p \in Procs, LockCall(p) PROVE LockStep
  BY <1>2 DEF LockCall, LockStep
<1>3. ASSUME NEW p \in Procs, CallFails(p) /\ UNCHANGED runnerVars PROVE LockStep
  BY <1>3 DEF LockStep
<1>4. ASSUME NEW p \in Procs, BeginCycle(p) PROVE LockStep
  BY <1>4, QuietStutter, QuietFault DEF BeginCycle, LockStep
<1>5. ASSUME NEW p \in Procs, Detect(p) PROVE LockStep
  BY <1>5, QuietStutter DEF Detect, LockStep
<1>6. ASSUME NEW p \in Procs, SearchBatch(p) PROVE LockStep
  BY <1>6, QuietStutter DEF SearchBatch, LockStep
<1>7. ASSUME NEW p \in Procs, NEW r \in Rows, WriteRow(p, r) PROVE LockStep
  BY <1>7, QuietStutter DEF WriteRow, LockStep
<1>8. ASSUME NEW p \in Procs, EndBatch(p) PROVE LockStep
  BY <1>8 DEF EndBatch, Touched, LockStep, Quiet, LockTypeOK, callVars, memVars, bounds
<1>9. ASSUME NEW p \in Procs, Gate(p) PROVE LockStep
  BY <1>9, QuietStutter DEF Gate, LockStep
<1>10. ASSUME NEW p \in Procs, ReadStateFile(p) PROVE LockStep
  BY <1>10, QuietStutter DEF ReadStateFile, LockStep
<1>11. ASSUME NEW p \in Procs, CheckLock(p) PROVE LockStep
  BY <1>11, QuietStutter DEF CheckLock, LockStep
<1>12. ASSUME NEW p \in Procs, RenameState(p) PROVE LockStep
  BY <1>12, QuietStutter DEF RenameState, LockStep
<1>13. ASSUME NEW p \in Procs, EndCycle(p) PROVE LockStep
  BY <1>13 DEF EndCycle, LockStep
<1>14. ASSUME NEW p \in Procs, CycleFails(p) PROVE LockStep
  BY <1>14, QuietFault DEF CycleFails, LockStep
<1>15. ASSUME NEW p \in Procs, MigrationHalts(p) PROVE LockStep
  BY <1>15, QuietFault DEF MigrationHalts, LockStep
<1>16. ASSUME NEW p \in Procs, StateWriteFails(p) PROVE LockStep
  BY <1>16, QuietFault DEF StateWriteFails, LockStep
<1>17. ASSUME NEW p \in Procs, NEW r \in Rows, WriteRowFails(p, r) PROVE LockStep
  BY <1>17, QuietFault DEF WriteRowFails, LockStep
<1>18. ASSUME NEW p \in Procs, Die(p) PROVE LockStep
  BY <1>18 DEF Die, LockStep
<1>19. ASSUME NEW p \in Procs, Restart(p) PROVE LockStep
  BY <1>19 DEF Restart, LockStep
<1>20. ASSUME NEW r \in Rows, OwnerPut(r) PROVE LockStep
  BY <1>20, QuietStutter DEF OwnerPut, LockStep
<1>21. ASSUME NEW r \in Rows, RowArrives(r) PROVE LockStep
  BY <1>21, QuietStutter DEF RowArrives, LockStep
<1>22. CASE Ages /\ UNCHANGED runnerVars
  BY <1>22 DEF LockStep
<1>23. CASE UNCHANGED vars
  BY <1>23, QuietStutter DEF vars, LockStep
<1> QED
  BY <1>1, <1>2, <1>3, <1>4, <1>5, <1>6, <1>7, <1>8, <1>9, <1>10, <1>11, <1>12,
     <1>13, <1>14, <1>15, <1>16, <1>17, <1>18, <1>19, <1>20, <1>21, <1>22, <1>23
  DEF Next, CycleStep, CycleFault

(* Initially there is no file and nobody is in a call.                     *)
LEMMA LockInitInv == LockInit => PathInv
<1> SUFFICES ASSUME LockInit PROVE PathInv
  OBVIOUS
<1>1. guardFresh \in BOOLEAN /\ lockFresh \in BOOLEAN /\ stolen \in BOOLEAN
  BY DEF LockInit
<1>2. LockTypeOK
  BY <1>1, MigrationConstants DEF LockInit, LockTypeOK, Labels
<1>3. CallShape /\ OwnNames
  BY DEF LockInit, CallShape, OwnNames, Guarded
<1>4. UnlinkJudged /\ GuardOwned /\ PathJudged /\ HandleOwnsPath
  BY DEF LockInit, UnlinkJudged, GuardOwned, PathJudged, HandleOwnsPath
<1> QED
  BY <1>2, <1>3, <1>4 DEF PathInv, GuardInv, CallInv

(* Every step keeps what a process knows of its own call.                  *)
LEMMA CallInvStep == CallInv /\ [Next]_vars => CallInv'
BY NextIsLockStep, LockTypeStep, ShapeStep, NamesStep DEF CallInv

(* Every step keeps the judgements of the guard and of the lock path.      *)
LEMMA PathInvStep == PathInv /\ [Next]_vars => PathInv'
BY NextIsLockStep, CallInvStep, UnlinkStep, GuardStep, HandleStep, PathStep DEF PathInv, GuardInv, CallInv

(* An entry whose record of unconfirmed rows is replaced is an entry, with *)
(* the same outcome.                                                       *)
LEMMA EntryEdit ==
  ASSUME NEW e \in StateEntry, NEW u \in SUBSET Rows
  PROVE  [e EXCEPT !.unconf = u] \in StateEntry /\ [e EXCEPT !.unconf = u].out = e.out
BY DEF StateEntry

(* The entries a cycle makes.                                              *)
LEMMA EntryMade ==
  ASSUME NEW p \in Procs, NEW u \in SUBSET Rows
  PROVE  /\ Halted(p, u) \in StateEntry /\ Halted(p, u).out = "halted"
         /\ Succeeded(p, u) \in StateEntry
BY MigrationConstants DEF StateEntry, Halted, Succeeded

(* The rows an entry leaves unconfirmed are rows.                          *)
LEMMA EntryUnconf == \A e \in StateEntry : e.unconf \subseteq Rows
BY DEF StateEntry

(* Every step of a cycle keeps the types.                                  *)
LEMMA CycleTypeStep == TypeOK /\ CountedRecord /\ [Next]_vars => TypeOK'
<1> DEFINE Cycles ==
      /\ pending \subseteq Rows
      /\ state \in StateEntry \cup {None}
      /\ stage \in [Procs -> {"begin", "detect", "preflight", "search", "write", "gate",
                              "record", "check", "rename", "end"}]
      /\ {ent, next, base} \subseteq [Procs -> StateEntry \cup {None}]
      /\ {unconf, cand, touched, arrived} \subseteq [Procs -> SUBSET Rows]
      /\ late \subseteq Rows
      /\ cycles \in 0 .. MaxCycles /\ arrivals \in 0 .. MaxArrivals
<1> SUFFICES ASSUME Cycles, CountedRecord, [Next]_vars PROVE Cycles'
  BY NextIsLockStep, LockTypeStep DEF TypeOK
<1>record. ASSUME NEW p \in Procs, NEW e \in StateEntry, Record(p, e)
           PROVE  /\ {ent, next}' \subseteq [Procs -> StateEntry \cup {None}]
                  /\ {unconf, cand, touched}' \subseteq [Procs -> SUBSET Rows]
                  /\ stage' = [stage EXCEPT ![p] = "record"]
  BY <1>record DEF Record, Leave, Stage
<1>finish. ASSUME NEW p \in Procs, Finish(p)
           PROVE  /\ {ent, next, base}' \subseteq [Procs -> StateEntry \cup {None}]
                  /\ {unconf, cand, touched, arrived}' \subseteq [Procs -> SUBSET Rows]
                  /\ stage' = [stage EXCEPT ![p] = "end"]
  BY <1>finish DEF Finish, Leave, Stage
<1> USE MigrationConstants DEF CountedRecord
<1>1. ASSUME NEW p \in Procs, StartCycle(p) PROVE Cycles'
  BY <1>1 DEF StartCycle, At, Stage, Same, runnerVars, cycleVars, workVars
<1>2. ASSUME NEW p \in Procs, LockCall(p) PROVE Cycles'
  BY <1>2 DEF LockCall, At, Stage, Same, runnerVars, cycleVars, workVars
<1>3. ASSUME NEW p \in Procs, CallFails(p) /\ UNCHANGED runnerVars PROVE Cycles'
  BY <1>3 DEF At, Stage, Same, runnerVars, cycleVars, workVars
<1>4. ASSUME NEW p \in Procs, BeginCycle(p) PROVE Cycles'
  <2>1. PICK kept \in SUBSET (IF state = None THEN {} ELSE state.unconf) :
          \/ Finish(p)
          \/ /\ state # None
             /\ Record(p, [state EXCEPT !.unconf = kept])
             /\ arrived' = [arrived EXCEPT ![p] = late] /\ UNCHANGED base
          \/ /\ unconf' = [unconf EXCEPT ![p] = kept]
             /\ ent' = [ent EXCEPT ![p] = state]
             /\ arrived' = [arrived EXCEPT ![p] = late]
             /\ Stage(p, "detect")
             /\ UNCHANGED <<cand, touched, next, base>>
    BY <1>4 DEF BeginCycle, Recorded
  <2>2. kept \subseteq Rows
    BY EntryUnconf
  <2>3. Same
    BY <1>4 DEF BeginCycle
  <2>4. state # None => [state EXCEPT !.unconf = kept] \in StateEntry
    BY <2>2, EntryEdit
  <2>5. CASE Finish(p)
    BY <2>3, <2>5, <1>finish DEF Same
  <2>6. CASE state # None /\ Record(p, [state EXCEPT !.unconf = kept])
    BY <2>1, <2>3, <2>4, <2>6, <1>record DEF Same, Stage, Finish
  <2> QED
    BY <2>1, <2>2, <2>3, <2>5, <2>6 DEF Same, Stage
<1>5. ASSUME NEW p \in Procs, Detect(p) PROVE Cycles'
  <2>1. Same
    BY <1>5 DEF Detect
  <2>2. CASE Stage(p, "preflight") /\ UNCHANGED <<workVars, next, base, arrived>>
    BY <2>1, <2>2 DEF Same, Stage, workVars
  <2>3. CASE Finish(p)
    BY <2>1, <2>3, <1>finish DEF Same
  <2>4. ASSUME NEW e \in StateEntry, Record(p, e), UNCHANGED base,
               arrived' \in {arrived, [arrived EXCEPT ![p] = {}]}
        PROVE  Cycles'
    BY <2>1, <2>4, <1>record DEF Same
  <2>5. Succeeded(p, {}) \in StateEntry
    BY EntryMade
  <2>6. unconf[p] # {} => [ent[p] EXCEPT !.unconf = unconf[p]] \in StateEntry
    <3>1. unconf[p] # {} => ent[p] \in StateEntry /\ unconf[p] \in SUBSET Rows
      BY <1>5 DEF Detect, At
    <3> QED
      BY <3>1, EntryEdit
  <2> QED
    BY <1>5, <2>2, <2>3, <2>4, <2>5, <2>6 DEF Detect
<1>6. ASSUME NEW p \in Procs, SearchBatch(p) PROVE Cycles'
  BY <1>6 DEF SearchBatch, At, Stage, Same, runnerVars, cycleVars, workVars
<1>7. ASSUME NEW p \in Procs, NEW r \in Rows, WriteRow(p, r) PROVE Cycles'
  BY <1>7 DEF WriteRow, At, Stage, Same, runnerVars, cycleVars, workVars
<1>8. ASSUME NEW p \in Procs, EndBatch(p) PROVE Cycles'
  BY <1>8 DEF EndBatch, At, Stage, Same, runnerVars, cycleVars, workVars
<1>9. ASSUME NEW p \in Procs, Gate(p) PROVE Cycles'
  BY <1>9, EntryMade DEF Gate, Record, Leave, At, Stage, Same, runnerVars, cycleVars, workVars
<1>10. ASSUME NEW p \in Procs, ReadStateFile(p) PROVE Cycles'
  BY <1>10 DEF ReadStateFile, At, Stage, Same, runnerVars, cycleVars, workVars
<1>11. ASSUME NEW p \in Procs, CheckLock(p) PROVE Cycles'
  BY <1>11 DEF CheckLock, Finish, Leave, At, Stage, Same, runnerVars, cycleVars, workVars
<1>12. ASSUME NEW p \in Procs, RenameState(p) PROVE Cycles'
  BY <1>12 DEF RenameState, Finish, Leave, At, Stage, Same, runnerVars, cycleVars, workVars
<1>13. ASSUME NEW p \in Procs, EndCycle(p) PROVE Cycles'
  BY <1>13 DEF EndCycle, At, Stage, Same, runnerVars, cycleVars, workVars
<1>14. ASSUME NEW p \in Procs, CycleFails(p) PROVE Cycles'
  BY <1>14 DEF CycleFails, Finish, Leave, At, Stage, Same, runnerVars, cycleVars, workVars
<1>15. ASSUME NEW p \in Procs, MigrationHalts(p) PROVE Cycles'
  BY <1>15, EntryMade DEF MigrationHalts, Record, Leave, At, Stage, Same, runnerVars, cycleVars, workVars
<1>16. ASSUME NEW p \in Procs, StateWriteFails(p) PROVE Cycles'
  BY <1>16 DEF StateWriteFails, Finish, Leave, At, Stage, Same, runnerVars, cycleVars, workVars
<1>17. ASSUME NEW p \in Procs, NEW r \in Rows, WriteRowFails(p, r) PROVE Cycles'
  <2>1. pending' \subseteq Rows /\ UNCHANGED <<state, base, arrived, late, cycles, arrivals>>
    BY <1>17 DEF WriteRowFails
  <2>2. \/ /\ unconf' = [unconf EXCEPT ![p] = @ \cup {r}]
           /\ cand' = [cand EXCEPT ![p] = @ \ {r}]
           /\ UNCHANGED <<stage, ent, touched, next>>
        \/ \E u \in {unconf[p], unconf[p] \cup {r}} : Record(p, Halted(p, u))
    BY <1>17 DEF WriteRowFails
  <2>3. ASSUME NEW u \in {unconf[p], unconf[p] \cup {r}}, Record(p, Halted(p, u)) PROVE Cycles'
    <3>1. Halted(p, u) \in StateEntry
      BY EntryMade
    <3> QED
      BY <2>1, <2>3, <3>1, <1>record
  <2> QED
    BY <2>1, <2>2, <2>3
<1>18. ASSUME NEW p \in Procs, Die(p) PROVE Cycles'
  BY <1>18 DEF Die, Leave, At, Stage, Same, runnerVars, cycleVars, workVars
<1>19. ASSUME NEW p \in Procs, Restart(p) PROVE Cycles'
  BY <1>19 DEF Restart, At, Stage, Same, runnerVars, cycleVars, workVars
<1>20. ASSUME NEW r \in Rows, OwnerPut(r) PROVE Cycles'
  BY <1>20 DEF OwnerPut, At, Stage, Same, runnerVars, cycleVars, workVars
<1>21. ASSUME NEW r \in Rows, RowArrives(r) PROVE Cycles'
  BY <1>21 DEF RowArrives, Recorded, At, Stage, Same, runnerVars, cycleVars, workVars
<1>22. CASE Ages /\ UNCHANGED runnerVars
  BY <1>22 DEF At, Stage, Same, runnerVars, cycleVars, workVars
<1>23. CASE UNCHANGED vars
  BY <1>23 DEF vars, At, Stage, Same, runnerVars, cycleVars, workVars
<1> QED
  BY <1>1, <1>2, <1>3, <1>4, <1>5, <1>6, <1>7, <1>8, <1>9, <1>10, <1>11, <1>12,
     <1>13, <1>14, <1>15, <1>16, <1>17, <1>18, <1>19, <1>20, <1>21, <1>22, <1>23
  DEF Next, CycleStep, CycleFault

(* A counted record keeps the entry it comes from.                         *)
LEMMA CountedStep == TypeOK /\ CountedRecord /\ [Next]_vars => CountedRecord'
<1> SUFFICES ASSUME TypeOK, CountedRecord, [Next]_vars PROVE CountedRecord'
  OBVIOUS
<1> USE MigrationConstants DEF TypeOK, CountedRecord
<1>1. ASSUME NEW p \in Procs, StartCycle(p) PROVE CountedRecord'
  BY <1>1 DEF StartCycle, At, Stage, Same, runnerVars, cycleVars, workVars
<1>2. ASSUME NEW p \in Procs, LockCall(p) PROVE CountedRecord'
  BY <1>2 DEF LockCall, At, Stage, Same, runnerVars, cycleVars, workVars
<1>3. ASSUME NEW p \in Procs, CallFails(p) /\ UNCHANGED runnerVars PROVE CountedRecord'
  BY <1>3 DEF At, Stage, Same, runnerVars, cycleVars, workVars
<1>4. ASSUME NEW p \in Procs, BeginCycle(p) PROVE CountedRecord'
  BY <1>4 DEF BeginCycle, Record, Finish, Leave, Recorded, At, Stage, Same, runnerVars, cycleVars, workVars
<1>5. ASSUME NEW p \in Procs, Detect(p) PROVE CountedRecord'
  BY <1>5 DEF Detect, Record, Finish, Leave, Succeeded, At, Stage, Same, runnerVars, cycleVars, workVars
<1>6. ASSUME NEW p \in Procs, SearchBatch(p) PROVE CountedRecord'
  BY <1>6 DEF SearchBatch, At, Stage, Same, runnerVars, cycleVars, workVars
<1>7. ASSUME NEW p \in Procs, NEW r \in Rows, WriteRow(p, r) PROVE CountedRecord'
  BY <1>7 DEF WriteRow, At, Stage, Same, runnerVars, cycleVars, workVars
<1>8. ASSUME NEW p \in Procs, EndBatch(p) PROVE CountedRecord'
  BY <1>8 DEF EndBatch, At, Stage, Same, runnerVars, cycleVars, workVars
<1>9. ASSUME NEW p \in Procs, Gate(p) PROVE CountedRecord'
  BY <1>9 DEF Gate, Record, Leave, At, Stage, Same, runnerVars, cycleVars, workVars
<1>10. ASSUME NEW p \in Procs, ReadStateFile(p) PROVE CountedRecord'
  BY <1>10 DEF ReadStateFile, At, Stage, Same, runnerVars, cycleVars, workVars
<1>11. ASSUME NEW p \in Procs, CheckLock(p) PROVE CountedRecord'
  BY <1>11 DEF CheckLock, Finish, Leave, At, Stage, Same, runnerVars, cycleVars, workVars
<1>12. ASSUME NEW p \in Procs, RenameState(p) PROVE CountedRecord'
  BY <1>12 DEF RenameState, Finish, Leave, At, Stage, Same, runnerVars, cycleVars, workVars
<1>13. ASSUME NEW p \in Procs, EndCycle(p) PROVE CountedRecord'
  BY <1>13 DEF EndCycle, At, Stage, Same, runnerVars, cycleVars, workVars
<1>14. ASSUME NEW p \in Procs, CycleFails(p) PROVE CountedRecord'
  BY <1>14 DEF CycleFails, Finish, Leave, At, Stage, Same, runnerVars, cycleVars, workVars
<1>15. ASSUME NEW p \in Procs, MigrationHalts(p) PROVE CountedRecord'
  BY <1>15 DEF MigrationHalts, Record, Leave, At, Stage, Same, runnerVars, cycleVars, workVars
<1>16. ASSUME NEW p \in Procs, StateWriteFails(p) PROVE CountedRecord'
  BY <1>16 DEF StateWriteFails, Finish, Leave, At, Stage, Same, runnerVars, cycleVars, workVars
<1>17. ASSUME NEW p \in Procs, NEW r \in Rows, WriteRowFails(p, r) PROVE CountedRecord'
  BY <1>17 DEF WriteRowFails, Record, Leave, At, Stage, Same, runnerVars, cycleVars, workVars
<1>18. ASSUME NEW p \in Procs, Die(p) PROVE CountedRecord'
  BY <1>18 DEF Die, Leave, At, Stage, Same, runnerVars, cycleVars, workVars
<1>19. ASSUME NEW p \in Procs, Restart(p) PROVE CountedRecord'
  BY <1>19 DEF Restart, At, Stage, Same, runnerVars, cycleVars, workVars
<1>20. ASSUME NEW r \in Rows, OwnerPut(r) PROVE CountedRecord'
  BY <1>20 DEF OwnerPut, At, Stage, Same, runnerVars, cycleVars, workVars
<1>21. ASSUME NEW r \in Rows, RowArrives(r) PROVE CountedRecord'
  BY <1>21 DEF RowArrives, Recorded, At, Stage, Same, runnerVars, cycleVars, workVars
<1>22. CASE Ages /\ UNCHANGED runnerVars
  BY <1>22 DEF At, Stage, Same, runnerVars, cycleVars, workVars
<1>23. CASE UNCHANGED vars
  BY <1>23 DEF vars, At, Stage, Same, runnerVars, cycleVars, workVars
<1> QED
  BY <1>1, <1>2, <1>3, <1>4, <1>5, <1>6, <1>7, <1>8, <1>9, <1>10, <1>11, <1>12,
     <1>13, <1>14, <1>15, <1>16, <1>17, <1>18, <1>19, <1>20, <1>21, <1>22, <1>23
  DEF Next, CycleStep, CycleFault

(* A success in the state file stays true.                                 *)
LEMMA CoversStep == TypeOK /\ SuccessToCome /\ SuccessCovers /\ [Next]_vars => SuccessCovers'
<1> SUFFICES ASSUME TypeOK, SuccessToCome, SuccessCovers, [Next]_vars PROVE SuccessCovers'
  OBVIOUS
<1> USE MigrationConstants DEF TypeOK, SuccessCovers, Recorded
<1>1. ASSUME NEW p \in Procs, StartCycle(p) PROVE SuccessCovers'
  BY <1>1 DEF StartCycle, At, Stage, Same, runnerVars, cycleVars, workVars
<1>2. ASSUME NEW p \in Procs, LockCall(p) PROVE SuccessCovers'
  BY <1>2 DEF LockCall, At, Stage, Same, runnerVars, cycleVars, workVars
<1>3. ASSUME NEW p \in Procs, CallFails(p) /\ UNCHANGED runnerVars PROVE SuccessCovers'
  BY <1>3 DEF At, Stage, Same, runnerVars, cycleVars, workVars
<1>4. ASSUME NEW p \in Procs, BeginCycle(p) PROVE SuccessCovers'
  BY <1>4 DEF BeginCycle, Record, Finish, Leave, Recorded, At, Stage, Same, runnerVars, cycleVars, workVars
<1>5. ASSUME NEW p \in Procs, Detect(p) PROVE SuccessCovers'
  BY <1>5 DEF Detect, Record, Finish, Leave, Succeeded, At, Stage, Same, runnerVars, cycleVars, workVars
<1>6. ASSUME NEW p \in Procs, SearchBatch(p) PROVE SuccessCovers'
  BY <1>6 DEF SearchBatch, At, Stage, Same, runnerVars, cycleVars, workVars
<1>7. ASSUME NEW p \in Procs, NEW r \in Rows, WriteRow(p, r) PROVE SuccessCovers'
  BY <1>7 DEF WriteRow, At, Stage, Same, runnerVars, cycleVars, workVars
<1>8. ASSUME NEW p \in Procs, EndBatch(p) PROVE SuccessCovers'
  BY <1>8 DEF EndBatch, At, Stage, Same, runnerVars, cycleVars, workVars
<1>9. ASSUME NEW p \in Procs, Gate(p) PROVE SuccessCovers'
  BY <1>9 DEF Gate, Record, Leave, At, Stage, Same, runnerVars, cycleVars, workVars
<1>10. ASSUME NEW p \in Procs, ReadStateFile(p) PROVE SuccessCovers'
  BY <1>10 DEF ReadStateFile, At, Stage, Same, runnerVars, cycleVars, workVars
<1>11. ASSUME NEW p \in Procs, CheckLock(p) PROVE SuccessCovers'
  BY <1>11 DEF CheckLock, Finish, Leave, At, Stage, Same, runnerVars, cycleVars, workVars
<1>12. ASSUME NEW p \in Procs, RenameState(p) PROVE SuccessCovers'
  BY <1>12 DEF RenameState, At, SuccessToCome
<1>13. ASSUME NEW p \in Procs, EndCycle(p) PROVE SuccessCovers'
  BY <1>13 DEF EndCycle, At, Stage, Same, runnerVars, cycleVars, workVars
<1>14. ASSUME NEW p \in Procs, CycleFails(p) PROVE SuccessCovers'
  BY <1>14 DEF CycleFails, Finish, Leave, At, Stage, Same, runnerVars, cycleVars, workVars
<1>15. ASSUME NEW p \in Procs, MigrationHalts(p) PROVE SuccessCovers'
  BY <1>15 DEF MigrationHalts, Record, Leave, At, Stage, Same, runnerVars, cycleVars, workVars
<1>16. ASSUME NEW p \in Procs, StateWriteFails(p) PROVE SuccessCovers'
  BY <1>16 DEF StateWriteFails, Finish, Leave, At, Stage, Same, runnerVars, cycleVars, workVars
<1>17. ASSUME NEW p \in Procs, NEW r \in Rows, WriteRowFails(p, r) PROVE SuccessCovers'
  BY <1>17 DEF WriteRowFails, Record, Leave, At, Stage, Same, runnerVars, cycleVars, workVars
<1>18. ASSUME NEW p \in Procs, Die(p) PROVE SuccessCovers'
  BY <1>18 DEF Die, Leave, At, Stage, Same, runnerVars, cycleVars, workVars
<1>19. ASSUME NEW p \in Procs, Restart(p) PROVE SuccessCovers'
  BY <1>19 DEF Restart, At, Stage, Same, runnerVars, cycleVars, workVars
<1>20. ASSUME NEW r \in Rows, OwnerPut(r) PROVE SuccessCovers'
  BY <1>20 DEF OwnerPut, At, Stage, Same, runnerVars, cycleVars, workVars
<1>21. ASSUME NEW r \in Rows, RowArrives(r) PROVE SuccessCovers'
  BY <1>21 DEF RowArrives, Recorded, At, Stage, Same, runnerVars, cycleVars, workVars
<1>22. CASE Ages /\ UNCHANGED runnerVars
  BY <1>22 DEF At, Stage, Same, runnerVars, cycleVars, workVars
<1>23. CASE UNCHANGED vars
  BY <1>23 DEF vars, At, Stage, Same, runnerVars, cycleVars, workVars
<1> QED
  BY <1>1, <1>2, <1>3, <1>4, <1>5, <1>6, <1>7, <1>8, <1>9, <1>10, <1>11, <1>12,
     <1>13, <1>14, <1>15, <1>16, <1>17, <1>18, <1>19, <1>20, <1>21, <1>22, <1>23
  DEF Next, CycleStep, CycleFault

(* A success that is about to be recorded stays true: what it counted is   *)
(* gone from the pending rows, and what comes later has arrived since.     *)
LEMMA ToComeStep == TypeOK /\ SuccessToCome /\ SuccessCovers /\ [Next]_vars => SuccessToCome'
<1> SUFFICES ASSUME TypeOK, SuccessToCome, SuccessCovers, [Next]_vars PROVE SuccessToCome'
  OBVIOUS
<1> USE MigrationConstants DEF TypeOK, SuccessToCome
<1>1. ASSUME NEW p \in Procs, StartCycle(p) PROVE SuccessToCome'
  BY <1>1 DEF StartCycle, At, Stage, Same, runnerVars, cycleVars, workVars
<1>2. ASSUME NEW p \in Procs, LockCall(p) PROVE SuccessToCome'
  BY <1>2 DEF LockCall, At, Stage, Same, runnerVars, cycleVars, workVars
<1>3. ASSUME NEW p \in Procs, CallFails(p) /\ UNCHANGED runnerVars PROVE SuccessToCome'
  BY <1>3 DEF At, Stage, Same, runnerVars, cycleVars, workVars
<1>4. ASSUME NEW p \in Procs, BeginCycle(p) PROVE SuccessToCome'
  <2>1. \A q \in Procs \ {p} : stage'[q] = stage[q] /\ next'[q] = next[q] /\ arrived'[q] = arrived[q]
    BY <1>4 DEF BeginCycle, Record, Finish, Stage, Leave
  <2>2. pending' = pending
    BY <1>4 DEF BeginCycle, Same
  <2>3. \/ stage'[p] \in {"detect", "end"}
        \/ Recorded /\ arrived'[p] = late
    BY <1>4 DEF BeginCycle, Finish, Stage
  <2> QED
    BY <2>1, <2>2, <2>3 DEF SuccessCovers
<1>5. ASSUME NEW p \in Procs, Detect(p) PROVE SuccessToCome'
  BY <1>5 DEF Detect, Record, Finish, Leave, Succeeded, At, Stage, Same, runnerVars, cycleVars, workVars
<1>6. ASSUME NEW p \in Procs, SearchBatch(p) PROVE SuccessToCome'
  BY <1>6 DEF SearchBatch, At, Stage, Same, runnerVars, cycleVars, workVars
<1>7. ASSUME NEW p \in Procs, NEW r \in Rows, WriteRow(p, r) PROVE SuccessToCome'
  BY <1>7 DEF WriteRow, At, Stage, Same, runnerVars, cycleVars, workVars
<1>8. ASSUME NEW p \in Procs, EndBatch(p) PROVE SuccessToCome'
  BY <1>8 DEF EndBatch, At, Stage, Same, runnerVars, cycleVars, workVars
<1>9. ASSUME NEW p \in Procs, Gate(p) PROVE SuccessToCome'
  BY <1>9, EntryMade DEF Gate, Record, Leave, At, Stage, Same, runnerVars, cycleVars, workVars
<1>10. ASSUME NEW p \in Procs, ReadStateFile(p) PROVE SuccessToCome'
  BY <1>10 DEF ReadStateFile, At, Stage, Same, runnerVars, cycleVars, workVars
<1>11. ASSUME NEW p \in Procs, CheckLock(p) PROVE SuccessToCome'
  BY <1>11 DEF CheckLock, Finish, Leave, At, Stage, Same, runnerVars, cycleVars, workVars
<1>12. ASSUME NEW p \in Procs, RenameState(p) PROVE SuccessToCome'
  BY <1>12 DEF RenameState, Finish, Leave, At, Stage, Same, runnerVars, cycleVars, workVars
<1>13. ASSUME NEW p \in Procs, EndCycle(p) PROVE SuccessToCome'
  BY <1>13 DEF EndCycle, At, Stage, Same, runnerVars, cycleVars, workVars
<1>14. ASSUME NEW p \in Procs, CycleFails(p) PROVE SuccessToCome'
  BY <1>14 DEF CycleFails, Finish, Leave, At, Stage, Same, runnerVars, cycleVars, workVars
<1>15. ASSUME NEW p \in Procs, MigrationHalts(p) PROVE SuccessToCome'
  BY <1>15, EntryMade DEF MigrationHalts, Record, Leave, At, Stage, Same, runnerVars, cycleVars, workVars
<1>16. ASSUME NEW p \in Procs, StateWriteFails(p) PROVE SuccessToCome'
  BY <1>16 DEF StateWriteFails, Finish, Leave, At, Stage, Same, runnerVars, cycleVars, workVars
<1>17. ASSUME NEW p \in Procs, NEW r \in Rows, WriteRowFails(p, r) PROVE SuccessToCome'
  BY <1>17, EntryMade DEF WriteRowFails, Record, Leave, At, Stage, Same, runnerVars, cycleVars, workVars
<1>18. ASSUME NEW p \in Procs, Die(p) PROVE SuccessToCome'
  BY <1>18 DEF Die, Leave, At, Stage, Same, runnerVars, cycleVars, workVars
<1>19. ASSUME NEW p \in Procs, Restart(p) PROVE SuccessToCome'
  BY <1>19 DEF Restart, At, Stage, Same, runnerVars, cycleVars, workVars
<1>20. ASSUME NEW r \in Rows, OwnerPut(r) PROVE SuccessToCome'
  BY <1>20 DEF OwnerPut, At, Stage, Same, runnerVars, cycleVars, workVars
<1>21. ASSUME NEW r \in Rows, RowArrives(r) PROVE SuccessToCome'
  BY <1>21 DEF RowArrives, Recorded, At, Stage, Same, runnerVars, cycleVars, workVars
<1>22. CASE Ages /\ UNCHANGED runnerVars
  BY <1>22 DEF At, Stage, Same, runnerVars, cycleVars, workVars
<1>23. CASE UNCHANGED vars
  BY <1>23 DEF vars, At, Stage, Same, runnerVars, cycleVars, workVars
<1> QED
  BY <1>1, <1>2, <1>3, <1>4, <1>5, <1>6, <1>7, <1>8, <1>9, <1>10, <1>11, <1>12,
     <1>13, <1>14, <1>15, <1>16, <1>17, <1>18, <1>19, <1>20, <1>21, <1>22, <1>23
  DEF Next, CycleStep, CycleFault

(* A call of the lock is made outside a cycle, and moves its own process   *)
(* only.                                                                   *)
LEMMA CallFrame ==
  ASSUME LockTypeOK, NEW p \in Procs, CallStep(p) \/ CallFails(p)
  PROVE  pc[p] # "work" /\ \A q \in Procs \ {p} : pc'[q] = pc[q]
<1>1. pc[p] # "work"
  BY DEF CallStep, CallFails, PublishGuard, ListGuard, OpenGuard, UnlinkGuard, Look, DropAbandoned,
         PublishLock, ReplaceLock, ReleaseLook, RemoveLock, Unguard, GuardFails, TransitionFails, UnguardFails
<1>2. \E l : Goto(p, l)
  BY DEF CallStep, CallFails, PublishGuard, ListGuard, OpenGuard, UnlinkGuard, Look, DropAbandoned,
         PublishLock, ReplaceLock, ReleaseLook, RemoveLock, Unguard, GuardFails, TransitionFails, UnguardFails,
         NextTry, Refused
<1> QED
  BY <1>1, <1>2 DEF Goto, LockTypeOK

(* A cycle stays inside its lock.                                          *)
LEMMA WorkStep == TypeOK /\ StageAtWork /\ [Next]_vars => StageAtWork'
<1> SUFFICES ASSUME TypeOK, StageAtWork, [Next]_vars PROVE StageAtWork'
  OBVIOUS
<1> USE DEF TypeOK, LockTypeOK, StageAtWork, At, Stage, Same, Goto, runnerVars, cycleVars,
        workVars, SameLock, lockVars, callVars, bounds, Acquire, Release, Crash, Boot, Ages,
        LockAges, GuardAges
<1>1. ASSUME NEW p \in Procs, StartCycle(p) PROVE StageAtWork'
  BY <1>1 DEF StartCycle
<1>2. ASSUME NEW p \in Procs, LockCall(p) PROVE StageAtWork'
  BY <1>2, CallFrame DEF LockCall, runnerVars, cycleVars
<1>3. ASSUME NEW p \in Procs, CallFails(p) /\ UNCHANGED runnerVars PROVE StageAtWork'
  BY <1>3, CallFrame DEF runnerVars, cycleVars
<1>4. ASSUME NEW p \in Procs, BeginCycle(p) PROVE StageAtWork'
  BY <1>4 DEF BeginCycle, Record, Finish, Leave, Recorded
<1>5. ASSUME NEW p \in Procs, Detect(p) PROVE StageAtWork'
  BY <1>5 DEF Detect, Record, Finish, Leave, Succeeded
<1>6. ASSUME NEW p \in Procs, SearchBatch(p) PROVE StageAtWork'
  BY <1>6 DEF SearchBatch
<1>7. ASSUME NEW p \in Procs, NEW r \in Rows, WriteRow(p, r) PROVE StageAtWork'
  BY <1>7 DEF WriteRow
<1>8. ASSUME NEW p \in Procs, EndBatch(p) PROVE StageAtWork'
  BY <1>8 DEF EndBatch
<1>9. ASSUME NEW p \in Procs, Gate(p) PROVE StageAtWork'
  BY <1>9 DEF Gate, Record, Leave
<1>10. ASSUME NEW p \in Procs, ReadStateFile(p) PROVE StageAtWork'
  BY <1>10 DEF ReadStateFile
<1>11. ASSUME NEW p \in Procs, CheckLock(p) PROVE StageAtWork'
  BY <1>11 DEF CheckLock, Finish, Leave
<1>12. ASSUME NEW p \in Procs, RenameState(p) PROVE StageAtWork'
  BY <1>12 DEF RenameState, Finish, Leave
<1>13. ASSUME NEW p \in Procs, EndCycle(p) PROVE StageAtWork'
  BY <1>13 DEF EndCycle
<1>14. ASSUME NEW p \in Procs, CycleFails(p) PROVE StageAtWork'
  BY <1>14 DEF CycleFails, Finish, Leave
<1>15. ASSUME NEW p \in Procs, MigrationHalts(p) PROVE StageAtWork'
  BY <1>15 DEF MigrationHalts, Record, Leave
<1>16. ASSUME NEW p \in Procs, StateWriteFails(p) PROVE StageAtWork'
  BY <1>16 DEF StateWriteFails, Finish, Leave
<1>17. ASSUME NEW p \in Procs, NEW r \in Rows, WriteRowFails(p, r) PROVE StageAtWork'
  BY <1>17 DEF WriteRowFails, Record, Leave
<1>18. ASSUME NEW p \in Procs, Die(p) PROVE StageAtWork'
  BY <1>18 DEF Die, Leave
<1>19. ASSUME NEW p \in Procs, Restart(p) PROVE StageAtWork'
  BY <1>19 DEF Restart
<1>20. ASSUME NEW r \in Rows, OwnerPut(r) PROVE StageAtWork'
  BY <1>20 DEF OwnerPut
<1>21. ASSUME NEW r \in Rows, RowArrives(r) PROVE StageAtWork'
  BY <1>21 DEF RowArrives, Recorded
<1>22. CASE Ages /\ UNCHANGED runnerVars
  BY <1>22
<1>23. CASE UNCHANGED vars
  BY <1>23 DEF vars
<1> QED
  BY <1>1, <1>2, <1>3, <1>4, <1>5, <1>6, <1>7, <1>8, <1>9, <1>10, <1>11, <1>12,
     <1>13, <1>14, <1>15, <1>16, <1>17, <1>18, <1>19, <1>20, <1>21, <1>22, <1>23
  DEF Next, CycleStep, CycleFault

(* Without a theft one process at a time is in a cycle.                    *)
LEMMA AloneAtWork ==
  ASSUME PathInv, ~stolen, NEW p \in Procs, NEW q \in Procs, pc[p] = "work", pc[q] = "work"
  PROVE  p = q
BY DEF PathInv, GuardInv, CallInv, CallShape, OwnNames, HandleOwnsPath

(* A theft is not forgotten.                                               *)
LEMMA StolenStays == LockStep => (stolen => stolen')
<1> SUFFICES ASSUME LockStep, stolen PROVE stolen'
  OBVIOUS
<1>1. ASSUME NEW p \in Procs, Acquire(p) PROVE stolen'
  BY <1>1 DEF Acquire, Goto, callVars, fileVars, memVars, bounds
<1>2. ASSUME NEW p \in Procs, PublishGuard(p) PROVE stolen'
  BY <1>2 DEF PublishGuard, Goto, callVars, fileVars, memVars, bounds
<1>3. ASSUME NEW p \in Procs, ListGuard(p) PROVE stolen'
  BY <1>3 DEF ListGuard, NextTry, Refused, Goto, callVars, fileVars, memVars, bounds
<1>4. ASSUME NEW p \in Procs, OpenGuard(p) PROVE stolen'
  BY <1>4 DEF OpenGuard, Refused, Goto, callVars, fileVars, memVars, bounds
<1>5. ASSUME NEW p \in Procs, UnlinkGuard(p) PROVE stolen'
  BY <1>5 DEF UnlinkGuard, NextTry, Refused, Goto, callVars, fileVars, memVars, bounds
<1>6. ASSUME NEW p \in Procs, Look(p) PROVE stolen'
  BY <1>6 DEF Look, Goto, callVars, fileVars, memVars, bounds
<1>7. ASSUME NEW p \in Procs, DropAbandoned(p) PROVE stolen'
  BY <1>7 DEF DropAbandoned, Goto, callVars, fileVars, memVars, bounds
<1>8. ASSUME NEW p \in Procs, PublishLock(p) PROVE stolen'
  BY <1>8 DEF PublishLock, Goto, callVars, fileVars, memVars, bounds
<1>9. ASSUME NEW p \in Procs, ReplaceLock(p) PROVE stolen'
  BY <1>9 DEF ReplaceLock, Goto, callVars, fileVars, memVars, bounds
<1>10. ASSUME NEW p \in Procs, ReleaseLook(p) PROVE stolen'
  BY <1>10 DEF ReleaseLook, Goto, callVars, fileVars, memVars, bounds
<1>11. ASSUME NEW p \in Procs, RemoveLock(p) PROVE stolen'
  BY <1>11 DEF RemoveLock, Goto, callVars, fileVars, memVars, bounds
<1>12. ASSUME NEW p \in Procs, Unguard(p) PROVE stolen'
  BY <1>12 DEF Unguard, Goto, callVars, fileVars, memVars, bounds
<1>13. ASSUME NEW p \in Procs, GuardFails(p) PROVE stolen'
  BY <1>13 DEF GuardFails, Fault, Refused, Goto, callVars, fileVars, memVars, bounds
<1>14. ASSUME NEW p \in Procs, TransitionFails(p) PROVE stolen'
  BY <1>14 DEF TransitionFails, Fault, Goto, callVars, fileVars, memVars, bounds
<1>15. ASSUME NEW p \in Procs, UnguardFails(p) PROVE stolen'
  BY <1>15 DEF UnguardFails, Fault, Goto, callVars, fileVars, memVars, bounds
<1>16. ASSUME NEW p \in Procs, Release(p) PROVE stolen'
  BY <1>16 DEF Release, Goto, callVars, fileVars, memVars, bounds
<1>17. ASSUME NEW p \in Procs, Crash(p) PROVE stolen'
  BY <1>17 DEF Crash, Goto, callVars, fileVars, memVars, bounds
<1>18. ASSUME NEW p \in Procs, Boot(p) PROVE stolen'
  BY <1>18 DEF Boot, Goto, callVars, fileVars, memVars, bounds
<1>19. CASE LockAges
  BY <1>19 DEF LockAges, Goto, callVars, fileVars, memVars, bounds
<1>20. CASE GuardAges
  BY <1>20 DEF GuardAges, Goto, callVars, fileVars, memVars, bounds
<1>21. CASE Quiet
  BY <1>21 DEF Quiet, Goto, callVars, fileVars, memVars, bounds
<1> QED
  BY <1>1, <1>2, <1>3, <1>4, <1>5, <1>6, <1>7, <1>8, <1>9, <1>10, <1>11, <1>12,
     <1>13, <1>14, <1>15, <1>16, <1>17, <1>18, <1>19, <1>20, <1>21
  DEF LockStep, CallStep, CallFails, Ages

(* Nobody writes the state file between another's read and rename.         *)
LEMMA EntryStep == EntryInv /\ [Next]_vars => NoLostEntry'
<1> SUFFICES ASSUME TypeOK, PathInv, StageAtWork, NoLostEntry, [Next]_vars PROVE NoLostEntry'
  BY DEF EntryInv, CycleInv
<1>stolen. stolen => stolen'
  BY NextIsLockStep, StolenStays DEF TypeOK
<1> USE <1>stolen DEF TypeOK, NoLostEntry
<1>1. ASSUME NEW p \in Procs, StartCycle(p) PROVE NoLostEntry'
  BY <1>1 DEF StartCycle, At, Stage, Same, runnerVars, cycleVars, workVars
<1>2. ASSUME NEW p \in Procs, LockCall(p) PROVE NoLostEntry'
  BY <1>2 DEF LockCall, At, Stage, Same, runnerVars, cycleVars, workVars
<1>3. ASSUME NEW p \in Procs, CallFails(p) /\ UNCHANGED runnerVars PROVE NoLostEntry'
  BY <1>3 DEF At, Stage, Same, runnerVars, cycleVars, workVars
<1>4. ASSUME NEW p \in Procs, BeginCycle(p) PROVE NoLostEntry'
  BY <1>4 DEF BeginCycle, Record, Finish, Leave, Recorded, At, Stage, Same, runnerVars, cycleVars, workVars
<1>5. ASSUME NEW p \in Procs, Detect(p) PROVE NoLostEntry'
  BY <1>5 DEF Detect, Record, Finish, Leave, Succeeded, At, Stage, Same, runnerVars, cycleVars, workVars
<1>6. ASSUME NEW p \in Procs, SearchBatch(p) PROVE NoLostEntry'
  BY <1>6 DEF SearchBatch, At, Stage, Same, runnerVars, cycleVars, workVars
<1>7. ASSUME NEW p \in Procs, NEW r \in Rows, WriteRow(p, r) PROVE NoLostEntry'
  BY <1>7 DEF WriteRow, At, Stage, Same, runnerVars, cycleVars, workVars
<1>8. ASSUME NEW p \in Procs, EndBatch(p) PROVE NoLostEntry'
  BY <1>8 DEF EndBatch, At, Stage, Same, runnerVars, cycleVars, workVars
<1>9. ASSUME NEW p \in Procs, Gate(p) PROVE NoLostEntry'
  BY <1>9 DEF Gate, Record, Leave, At, Stage, Same, runnerVars, cycleVars, workVars
<1>10. ASSUME NEW p \in Procs, ReadStateFile(p) PROVE NoLostEntry'
  BY <1>10 DEF ReadStateFile, At, Stage, Same, runnerVars, cycleVars, workVars
<1>11. ASSUME NEW p \in Procs, CheckLock(p) PROVE NoLostEntry'
  BY <1>11 DEF CheckLock, Finish, Leave, At, Stage, Same, runnerVars, cycleVars, workVars
<1>12. ASSUME NEW p \in Procs, RenameState(p) PROVE NoLostEntry'
  <2>1. pc[p] = "work" /\ stage' = [stage EXCEPT ![p] = "end"] /\ base' = [base EXCEPT ![p] = None]
    BY <1>12 DEF RenameState, At, Finish, Stage
  <2>2. ASSUME ~stolen, NEW q \in Procs, q # p PROVE stage[q] = "begin"
    BY <2>1, <2>2, AloneAtWork DEF StageAtWork
  <2> QED
    BY <2>1, <2>2
<1>13. ASSUME NEW p \in Procs, EndCycle(p) PROVE NoLostEntry'
  BY <1>13 DEF EndCycle, At, Stage, Same, runnerVars, cycleVars, workVars
<1>14. ASSUME NEW p \in Procs, CycleFails(p) PROVE NoLostEntry'
  BY <1>14 DEF CycleFails, Finish, Leave, At, Stage, Same, runnerVars, cycleVars, workVars
<1>15. ASSUME NEW p \in Procs, MigrationHalts(p) PROVE NoLostEntry'
  BY <1>15 DEF MigrationHalts, Record, Leave, At, Stage, Same, runnerVars, cycleVars, workVars
<1>16. ASSUME NEW p \in Procs, StateWriteFails(p) PROVE NoLostEntry'
  BY <1>16 DEF StateWriteFails, Finish, Leave, At, Stage, Same, runnerVars, cycleVars, workVars
<1>17. ASSUME NEW p \in Procs, NEW r \in Rows, WriteRowFails(p, r) PROVE NoLostEntry'
  BY <1>17 DEF WriteRowFails, Record, Leave, At, Stage, Same, runnerVars, cycleVars, workVars
<1>18. ASSUME NEW p \in Procs, Die(p) PROVE NoLostEntry'
  BY <1>18 DEF Die, Leave, At, Stage, Same, runnerVars, cycleVars, workVars
<1>19. ASSUME NEW p \in Procs, Restart(p) PROVE NoLostEntry'
  BY <1>19 DEF Restart, At, Stage, Same, runnerVars, cycleVars, workVars
<1>20. ASSUME NEW r \in Rows, OwnerPut(r) PROVE NoLostEntry'
  BY <1>20 DEF OwnerPut, At, Stage, Same, runnerVars, cycleVars, workVars
<1>21. ASSUME NEW r \in Rows, RowArrives(r) PROVE NoLostEntry'
  BY <1>21 DEF RowArrives, Recorded, At, Stage, Same, runnerVars, cycleVars, workVars
<1>22. CASE Ages /\ UNCHANGED runnerVars
  BY <1>22 DEF At, Stage, Same, runnerVars, cycleVars, workVars
<1>23. CASE UNCHANGED vars
  BY <1>23 DEF vars, At, Stage, Same, runnerVars, cycleVars, workVars
<1> QED
  BY <1>1, <1>2, <1>3, <1>4, <1>5, <1>6, <1>7, <1>8, <1>9, <1>10, <1>11, <1>12,
     <1>13, <1>14, <1>15, <1>16, <1>17, <1>18, <1>19, <1>20, <1>21, <1>22, <1>23
  DEF Next, CycleStep, CycleFault

-----------------------------------------------------------------------------
(* The initial states satisfy the invariants of the cycles.                *)
LEMMA CycleInvInit == Init => TruthInv /\ EntryInv
<1> SUFFICES ASSUME Init PROVE TruthInv /\ EntryInv
  OBVIOUS
<1>1. PathInv
  BY LockInitInv DEF Init
<1>2. TypeOK
  BY <1>1, MigrationConstants DEF Init, TypeOK, PathInv, GuardInv, CallInv
<1>3. CountedRecord /\ SuccessToCome /\ SuccessCovers /\ StageAtWork /\ NoLostEntry
  BY DEF Init, CountedRecord, SuccessToCome, SuccessCovers, Recorded, StageAtWork, NoLostEntry
<1> QED
  BY <1>1, <1>2, <1>3 DEF TruthInv, EntryInv, CycleInv, PathInv, GuardInv

(* Every step keeps what the entries of a cycle are made from.             *)
LEMMA CycleInvStep == CycleInv /\ [Next]_vars => CycleInv'
BY CycleTypeStep, CountedStep, CallInvStep DEF CycleInv

(* Every step keeps what successes rest on; exclusion plays no part.       *)
LEMMA TruthInvStep == TruthInv /\ [Next]_vars => TruthInv'
BY CycleInvStep, CoversStep, ToComeStep DEF TruthInv, CycleInv

(* Every step keeps what the exclusion of the writers rests on.            *)
LEMMA EntryInvStep == EntryInv /\ [Next]_vars => EntryInv'
BY CycleInvStep, PathInvStep, WorkStep, EntryStep DEF EntryInv, CycleInv

(* The inductive invariant of the lock and its cycles holds throughout.    *)
LEMMA EntryInvariant == Spec => []EntryInv
BY CycleInvInit, EntryInvStep, PTL DEF Spec

(* Every variable of the lock and of the cycles has its type: no call      *)
(* makes more attempts or rounds than its bounds allow.                    *)
THEOREM MigrationTypeCorrect == Spec => []TypeOK
<1>1. EntryInv => TypeOK
  BY DEF EntryInv, CycleInv
<1> QED
  BY <1>1, EntryInvariant, PTL

(* acquireMigrationLock, its recoveries and release() never take the lock  *)
(* file from a process that works under it, whatever crashes, boots again  *)
(* under the same pid or fails, unless a file of a live process is judged  *)
(* stale from another host.                                                *)
THEOREM HandlesOwnThePath == Spec => []HandleOwnsPath
<1>1. EntryInv => HandleOwnsPath
  BY DEF EntryInv, PathInv
<1> QED
  BY <1>1, EntryInvariant, PTL

(* Two processes are in a migration cycle at once only after a file of a   *)
(* live process was judged stale from another host.                        *)
OneCycle ==
  ~stolen => \A p, q \in Procs : pc[p] = "work" /\ pc[q] = "work" => p = q

(* runMigrationCycle is exclusive between the processes of one host, and   *)
(* of several until a theft.                                               *)
THEOREM CyclesAreExclusive == Spec => []OneCycle
<1>1. EntryInv => OneCycle
  BY AloneAtWork DEF EntryInv, OneCycle
<1> QED
  BY <1>1, EntryInvariant, PTL

(* writeMigrationStateEntry never renames over an entry it has not read,   *)
(* until a theft.                                                          *)
THEOREM EntriesAreNotLost == Spec => []NoLostEntry
<1>1. EntryInv => NoLostEntry
  BY DEF EntryInv
<1> QED
  BY <1>1, EntryInvariant, PTL

(* A success in the state file means that every row without a visibility   *)
(* arrived after the count it rests on.  This needs no exclusion: it holds *)
(* of two cycles at once, too.                                             *)
THEOREM SuccessIsTrue == Spec => []SuccessCovers
<1>1. TruthInv => SuccessCovers
  BY DEF TruthInv
<1> QED
  BY <1>1, CycleInvInit, TruthInvStep, PTL DEF Spec
==============================================================================
