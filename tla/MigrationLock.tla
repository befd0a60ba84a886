---------------------------- MODULE MigrationLock ----------------------------
(***************************************************************************)
(* The single-flight lock of migration cycles, resources/migrations/lock.ts. *)
(*                                                                         *)
(* The lock is a file holding its holder's record.  Every change of the    *)
(* file is made inside a directory mutex, the guard: a process publishes   *)
(* it by renaming a populated directory over an absent or empty one, and   *)
(* gives it up by unlinking the one entry it published.  Both may be left  *)
(* behind by a process that dies, and both are taken over: a holder on the *)
(* same host when its pid is dead, a holder on another host when its file  *)
(* has not been touched for staleMs, a holder with the contender's own pid *)
(* when this process knows it has abandoned it or the file is stale.       *)
(*                                                                         *)
(* Every file-system call is a step of its own, so that other processes    *)
(* come in between.  A process may die at any step and boot again under    *)
(* the same pid.  Age is not a clock: a file is fresh when written or      *)
(* touched and may become stale at any later moment.                       *)
(***************************************************************************)
EXTENDS Integers

CONSTANTS
  Procs,          \* the processes, by pid
  Hosts,          \* the host names
  Hostings,       \* the ways the processes may be spread over the hosts
  None,           \* no entry, no record
  Ids,            \* guard generations and inode numbers, reused once forgotten
  GuardAttempts,  \* GUARD_ACQUISITION_ATTEMPTS
  LockRounds,     \* LOCK_ACQUISITION_ROUNDS
  MaxCrashes,     \* bound on the processes that die
  MaxFaults,      \* bound on the file-system calls that fail
  MaxAges         \* bound on the times a file grows stale

ASSUME LockAssumption ==
  /\ GuardAttempts \in Nat \ {0}
  /\ LockRounds \in Nat \ {0}
  /\ Hostings \subseteq [Procs -> Hosts]
  /\ Ids \subseteq Nat
  /\ MaxCrashes \in Nat /\ MaxFaults \in Nat /\ MaxAges \in Nat
  /\ None \notin [by : Procs, id : Ids]

VARIABLES
  host,        \* the host of each process
  alive,       \* the processes that run
  pc,          \* where each process is
  releasing,   \* the processes whose call is release(), not acquire
  tries,       \* attempts of the current acquireGuard
  round,       \* rounds of the current acquireMigrationLock
  guard,       \* the owner entry in the guard directory
  guardFresh,  \* that entry is younger than staleMs
  lock,        \* the holder record at the lock path
  lockFresh,   \* that file is younger than staleMs
  seen,        \* the guard entry a process has listed
  gen,         \* ownedGuardGenerations
  lostGen,     \* abandonedGuardGenerations
  rec,         \* the record a call has published, or is to remove
  retry,       \* the transition under the guard lost its link
  handle,      \* the live handle of each process
  lostRec,     \* abandonedOwnRecords
  crashes,     \* processes that died so far
  faults,      \* file-system calls that failed so far
  ages,        \* times a file grew stale so far
  stolen       \* history: a file of a live remote process was taken over by age

fileVars == <<guard, guardFresh, lock, lockFresh>>
memVars == <<seen, gen, lostGen, rec, retry, handle, lostRec>>
callVars == <<pc, releasing, tries, round>>
bounds == <<crashes, faults, ages>>
lockVars == <<host, alive, callVars, fileVars, memVars, bounds, stolen>>

Entry == [by : Procs, id : Ids]

(* What some file or some memory still names.  A new entry takes the least *)
(* number its process has free.                                            *)
Known == {guard, lock} \cup UNION {{seen[q], gen[q], lostGen[q], rec[q], handle[q], lostRec[q]} : q \in Procs}
Fresh(p) ==
  {e \in Entry : /\ e.by = p /\ e \notin Known
                 /\ \A i \in Ids : i < e.id => [by |-> p, id |-> i] \in Known}

-----------------------------------------------------------------------------
LockInit ==
  /\ host \in Hostings
  /\ alive = Procs
  /\ pc = [p \in Procs |-> "idle"]
  /\ releasing = {}
  /\ tries = [p \in Procs |-> 0]
  /\ round = [p \in Procs |-> 0]
  /\ guard = None /\ guardFresh = FALSE
  /\ lock = None /\ lockFresh = FALSE
  /\ seen = [p \in Procs |-> None]
  /\ gen = [p \in Procs |-> None]
  /\ lostGen = [p \in Procs |-> None]
  /\ rec = [p \in Procs |-> None]
  /\ retry = {}
  /\ handle = [p \in Procs |-> None]
  /\ lostRec = [p \in Procs |-> None]
  /\ crashes = 0 /\ faults = 0 /\ ages = 0
  /\ stolen = FALSE

Goto(p, l) == pc' = [pc EXCEPT ![p] = l]

(* guardHolderIsBreakable, for the entry e of a guard with the given age.  *)
GuardBreakable(p, e, fresh) ==
  IF host[e.by] # host[p] THEN ~fresh
  ELSE IF e.by # p THEN e.by \notin alive
  ELSE e = lostGen[p] \/ (e # gen[p] /\ ~fresh)

(* Mutant of LockBreakable: on one host the age decides, not the pid.      *)
LockBreakableByAge(p, e, fresh) == e # handle[p] /\ ~fresh

(* The same judgement for the record e at the lock path.                   *)
LockBreakable(p, e, fresh) ==
  IF host[e.by] # host[p] THEN ~fresh
  ELSE IF e.by # p THEN e.by \notin alive
  ELSE e # handle[p] /\ ~fresh

-----------------------------------------------------------------------------
(* acquireMigrationLock enters its first round.                            *)
Acquire(p) ==
  /\ p \in alive /\ pc[p] = "idle"
  /\ Goto(p, "publish")
  /\ tries' = [tries EXCEPT ![p] = 0]
  /\ round' = [round EXCEPT ![p] = 0]
  /\ UNCHANGED <<host, alive, releasing, fileVars, memVars, bounds, stolen>>

(* The guard is not to be had.  An acquisition is refused; a release leaves *)
(* its record in place and remembers it.                                   *)
Refused(p) ==
  /\ Goto(p, "idle")
  /\ releasing' = releasing \ {p}
  /\ lostRec' = IF p \in releasing THEN [lostRec EXCEPT ![p] = rec[p]] ELSE lostRec
  /\ rec' = [rec EXCEPT ![p] = None]
  /\ seen' = [seen EXCEPT ![p] = None]
  /\ tries' = [tries EXCEPT ![p] = 0]
  /\ round' = [round EXCEPT ![p] = 0]

(* Mutant of NextTry: one attempt more than GuardAttempts.                 *)
NextTryOneMore(p) ==
  \/ /\ tries[p] < GuardAttempts
     /\ tries' = [tries EXCEPT ![p] = @ + 1]
     /\ seen' = [seen EXCEPT ![p] = None]
     /\ Goto(p, "publish")
     /\ UNCHANGED <<releasing, lostRec, rec, round>>
  \/ /\ tries[p] >= GuardAttempts
     /\ Refused(p)

(* The next attempt of acquireGuard, if one is left.                       *)
NextTry(p) ==
  \/ /\ tries[p] + 1 < GuardAttempts
     /\ tries' = [tries EXCEPT ![p] = @ + 1]
     /\ seen' = [seen EXCEPT ![p] = None]
     /\ Goto(p, "publish")
     /\ UNCHANGED <<releasing, lostRec, rec, round>>
  \/ /\ tries[p] + 1 >= GuardAttempts
     /\ Refused(p)

(* publishGuard: the rename succeeds over an absent or an empty directory. *)
PublishGuard(p) ==
  /\ p \in alive /\ pc[p] = "publish"
  /\ \/ /\ guard = None
        /\ \E e \in Fresh(p) :
             /\ guard' = e
             /\ gen' = [gen EXCEPT ![p] = e]
        /\ guardFresh' = TRUE
        /\ Goto(p, "look")
     \/ /\ guard # None
        /\ Goto(p, "list")
        /\ UNCHANGED <<guard, guardFresh, gen>>
  /\ UNCHANGED <<host, alive, releasing, tries, round, lock, lockFresh,
                 seen, lostGen, rec, retry, handle, lostRec, bounds, stolen>>

(* inspectGuard lists the directory.                                       *)
ListGuard(p) ==
  /\ p \in alive /\ pc[p] = "list"
  /\ \/ /\ guard # None
        /\ seen' = [seen EXCEPT ![p] = guard]
        /\ Goto(p, "open")
        /\ UNCHANGED <<releasing, tries, round, rec, lostRec>>
     \/ /\ guard = None
        /\ NextTry(p)
  /\ UNCHANGED <<host, alive, fileVars, gen, lostGen, retry, handle, bounds, stolen>>

(* It opens the entry it listed.  An entry that has gone by now makes the  *)
(* guard unreadable; a holder that cannot be broken refuses the call.      *)
OpenGuard(p) ==
  /\ p \in alive /\ pc[p] = "open"
  /\ \/ /\ guard = seen[p] /\ GuardBreakable(p, seen[p], guardFresh)
        /\ Goto(p, "unlink")
        /\ UNCHANGED <<releasing, tries, round, seen, rec, lostRec>>
     \/ /\ ~(guard = seen[p] /\ GuardBreakable(p, seen[p], guardFresh))
        /\ Refused(p)
  /\ UNCHANGED <<host, alive, fileVars, gen, lostGen, retry, handle, bounds, stolen>>

(* The recovery of a guard: exactly the inspected entry is unlinked, and   *)
(* the process must still win the next publication.                        *)
UnlinkGuard(p) ==
  /\ p \in alive /\ pc[p] = "unlink"
  /\ \/ /\ guard = seen[p]
        /\ guard' = None /\ guardFresh' = FALSE
        /\ lostGen' = IF lostGen[p] = seen[p] THEN [lostGen EXCEPT ![p] = None] ELSE lostGen
        /\ stolen' = (stolen \/ (host[seen[p].by] # host[p] /\ gen[seen[p].by] = seen[p]))
     \/ /\ guard # seen[p]
        /\ UNCHANGED <<guard, guardFresh, lostGen, stolen>>
  /\ NextTry(p)
  /\ UNCHANGED <<host, alive, lock, lockFresh, gen, retry, handle, bounds>>

(* A file-system call fails.                                               *)
Fault == faults < MaxFaults /\ faults' = faults + 1 /\ UNCHANGED <<crashes, ages>>

(* The guard cannot be published, read or recovered: an I/O error.         *)
GuardFails(p) ==
  /\ p \in alive /\ pc[p] \in {"publish", "list", "open", "unlink"}
  /\ Fault
  /\ Refused(p)
  /\ UNCHANGED <<host, alive, fileVars, gen, lostGen, retry, handle, stolen>>

-----------------------------------------------------------------------------
(* transitionUnderGuard inspects the lock afresh and decides.              *)
Look(p) ==
  /\ p \in alive /\ pc[p] = "look" /\ p \notin releasing
  /\ Goto(p, CASE lock = None -> "link"
               [] lock # None /\ lock = lostRec[p] -> "drop"
               [] lock # None /\ lock # lostRec[p] /\ LockBreakable(p, lock, lockFresh) -> "replace"
               [] OTHER -> "unguard")
  /\ lostRec' = IF lock # None /\ lock = lostRec[p] THEN lostRec ELSE [lostRec EXCEPT ![p] = None]
  /\ UNCHANGED <<host, alive, releasing, tries, round, fileVars,
                 seen, gen, lostGen, rec, retry, handle, bounds, stolen>>

(* The record this process abandoned earlier is unlinked by its path.      *)
DropAbandoned(p) ==
  /\ p \in alive /\ pc[p] = "drop"
  /\ lock' = None /\ lockFresh' = FALSE
  /\ lostRec' = [lostRec EXCEPT ![p] = None]
  /\ Goto(p, "link")
  /\ UNCHANGED <<host, alive, releasing, tries, round, guard, guardFresh,
                 seen, gen, lostGen, rec, retry, handle, bounds, stolen>>

(* publishLock: link(2) fails when a lock file is there.                   *)
PublishLock(p) ==
  /\ p \in alive /\ pc[p] = "link"
  /\ \/ /\ lock = None
        /\ \E e \in Fresh(p) :
             /\ lock' = e
             /\ rec' = [rec EXCEPT ![p] = e]
        /\ lockFresh' = TRUE
        /\ UNCHANGED retry
     \/ /\ lock # None
        /\ retry' = retry \cup {p}
        /\ UNCHANGED <<lock, lockFresh, rec>>
  /\ Goto(p, "unguard")
  /\ UNCHANGED <<host, alive, releasing, tries, round, guard, guardFresh,
                 seen, gen, lostGen, handle, lostRec, bounds, stolen>>

(* The takeover of a breakable record: a new one is renamed over the path. *)
ReplaceLock(p) ==
  /\ p \in alive /\ pc[p] = "replace"
  /\ \E e \in Fresh(p) :
       /\ lock' = e
       /\ rec' = [rec EXCEPT ![p] = e]
  /\ lockFresh' = TRUE
  /\ stolen' = (stolen \/ \E q \in Procs : host[q] # host[p] /\ handle[q] # None /\ handle[q] = lock)
  /\ Goto(p, "unguard")
  /\ UNCHANGED <<host, alive, releasing, tries, round, guard, guardFresh,
                 seen, gen, lostGen, retry, handle, lostRec, bounds>>

(* The call under the guard could not finish: an unreadable lock file, a   *)
(* record that cannot be prepared, renamed or removed.                     *)
TransitionFails(p) ==
  /\ p \in alive /\ pc[p] \in {"look", "link", "drop", "replace", "remove"}
  /\ Fault
  /\ Goto(p, "unguard")
  /\ UNCHANGED <<host, alive, releasing, tries, round, fileVars, memVars, stolen>>

-----------------------------------------------------------------------------
(* Mutant of Unguard: a refused acquisition lets the cycle run all the same. *)
UnguardRunsRefused(p) ==
  /\ p \in alive /\ pc[p] = "unguard"
  /\ guard' = IF guard = gen[p] THEN None ELSE guard
  /\ guardFresh' = (guardFresh /\ guard # gen[p])
  /\ gen' = [gen EXCEPT ![p] = None]
  /\ Goto(p, IF p \notin releasing THEN "work" ELSE "idle")
  /\ round' = [round EXCEPT ![p] = 0]
  /\ handle' = IF p \notin releasing THEN [handle EXCEPT ![p] = rec[p]] ELSE handle
  /\ rec' = [rec EXCEPT ![p] = None]
  /\ retry' = retry \ {p}
  /\ releasing' = releasing \ {p}
  /\ tries' = [tries EXCEPT ![p] = 0]
  /\ UNCHANGED <<host, alive, lock, lockFresh, seen, lostGen, lostRec, bounds, stolen>>

(* releaseGuard succeeds, and the call returns: with a handle, with another *)
(* round, or refused.                                                      *)
Unguard(p) ==
  /\ p \in alive /\ pc[p] = "unguard"
  /\ guard' = IF guard = gen[p] THEN None ELSE guard
  /\ guardFresh' = (guardFresh /\ guard # gen[p])
  /\ gen' = [gen EXCEPT ![p] = None]
  /\ LET again == p \in retry /\ round[p] + 1 < LockRounds
         won == p \notin releasing /\ rec[p] # None
     IN  /\ Goto(p, IF again THEN "publish" ELSE IF won THEN "work" ELSE "idle")
         /\ round' = [round EXCEPT ![p] = IF again THEN @ + 1 ELSE 0]
         /\ handle' = IF won THEN [handle EXCEPT ![p] = rec[p]] ELSE handle
  /\ rec' = [rec EXCEPT ![p] = None]
  /\ retry' = retry \ {p}
  /\ releasing' = releasing \ {p}
  /\ tries' = [tries EXCEPT ![p] = 0]
  /\ UNCHANGED <<host, alive, lock, lockFresh, seen, lostGen, lostRec, bounds, stolen>>

(* It fails: the generation is remembered as abandoned, an acquired record *)
(* is not returned but remembered, and the call ends with an error.        *)
UnguardFails(p) ==
  /\ p \in alive /\ pc[p] = "unguard" /\ guard = gen[p]
  /\ Fault
  /\ lostGen' = [lostGen EXCEPT ![p] = gen[p]]
  /\ gen' = [gen EXCEPT ![p] = None]
  /\ lostRec' = IF p \notin releasing /\ rec[p] # None THEN [lostRec EXCEPT ![p] = rec[p]] ELSE lostRec
  /\ rec' = [rec EXCEPT ![p] = None]
  /\ retry' = retry \ {p}
  /\ releasing' = releasing \ {p}
  /\ tries' = [tries EXCEPT ![p] = 0]
  /\ round' = [round EXCEPT ![p] = 0]
  /\ Goto(p, "idle")
  /\ UNCHANGED <<host, alive, fileVars, seen, handle, stolen>>

(* release(): the handle is revoked before anything else.                  *)
Release(p) ==
  /\ p \in alive /\ pc[p] = "work"
  /\ releasing' = releasing \cup {p}
  /\ rec' = [rec EXCEPT ![p] = handle[p]]
  /\ handle' = [handle EXCEPT ![p] = None]
  /\ Goto(p, "publish")
  /\ UNCHANGED <<host, alive, tries, round, fileVars, seen, gen, lostGen, retry, lostRec, bounds, stolen>>

(* Under the guard it looks whether the file is still its own.             *)
ReleaseLook(p) ==
  /\ p \in alive /\ pc[p] = "look" /\ p \in releasing
  /\ Goto(p, IF lock = rec[p] THEN "remove" ELSE "unguard")
  /\ UNCHANGED <<host, alive, releasing, tries, round, fileVars, memVars, bounds, stolen>>

(* And unlinks it, by its path.                                            *)
RemoveLock(p) ==
  /\ p \in alive /\ pc[p] = "remove"
  /\ lock' = None /\ lockFresh' = FALSE
  /\ Goto(p, "unguard")
  /\ UNCHANGED <<host, alive, releasing, tries, round, guard, guardFresh, memVars, bounds, stolen>>

(* touch(): the heartbeat, on the verified descriptor of its own file.     *)
Touched(p) == lockFresh' = (lockFresh \/ (lock # None /\ lock = handle[p]))

(* migrationLockStillHeld.                                                 *)
StillHeld(p) == handle[p] # None /\ lock = handle[p]

-----------------------------------------------------------------------------
(* A process dies: its files stay, its memory is gone.                     *)
Crash(p) ==
  /\ p \in alive /\ crashes < MaxCrashes
  /\ crashes' = crashes + 1
  /\ alive' = alive \ {p}
  /\ Goto(p, "idle")
  /\ releasing' = releasing \ {p}
  /\ retry' = retry \ {p}
  /\ tries' = [tries EXCEPT ![p] = 0]
  /\ round' = [round EXCEPT ![p] = 0]
  /\ seen' = [seen EXCEPT ![p] = None]
  /\ gen' = [gen EXCEPT ![p] = None]
  /\ lostGen' = [lostGen EXCEPT ![p] = None]
  /\ rec' = [rec EXCEPT ![p] = None]
  /\ handle' = [handle EXCEPT ![p] = None]
  /\ lostRec' = [lostRec EXCEPT ![p] = None]
  /\ UNCHANGED <<host, fileVars, faults, ages, stolen>>

(* A process boots under the pid of one that died.                         *)
Boot(p) ==
  /\ p \notin alive
  /\ alive' = alive \cup {p}
  /\ UNCHANGED <<host, callVars, fileVars, memVars, bounds, stolen>>

(* staleMs passes without a touch.                                         *)
LockAges ==
  /\ lock # None /\ lockFresh /\ ages < MaxAges
  /\ lockFresh' = FALSE
  /\ ages' = ages + 1
  /\ UNCHANGED <<host, alive, callVars, guard, guardFresh, lock, memVars, crashes, faults, stolen>>

GuardAges ==
  /\ guard # None /\ guardFresh /\ ages < MaxAges
  /\ guardFresh' = FALSE
  /\ ages' = ages + 1
  /\ UNCHANGED <<host, alive, callVars, guard, lock, lockFresh, memVars, crashes, faults, stolen>>

(* A step of a call of p that is under way.                                *)
CallStep(p) ==
  \/ PublishGuard(p) \/ ListGuard(p) \/ OpenGuard(p) \/ UnlinkGuard(p)
  \/ Look(p) \/ DropAbandoned(p) \/ PublishLock(p) \/ ReplaceLock(p)
  \/ ReleaseLook(p) \/ RemoveLock(p) \/ Unguard(p)

(* The steps the environment of the calls takes.                           *)
CallFails(p) == GuardFails(p) \/ TransitionFails(p) \/ UnguardFails(p)
Ages == LockAges \/ GuardAges

-----------------------------------------------------------------------------
Labels == {"idle", "publish", "list", "open", "unlink", "look", "link", "drop",
           "replace", "remove", "unguard", "work"}

(* Every variable has its type.                                            *)
LockTypeOK ==
  /\ host \in [Procs -> Hosts] /\ alive \subseteq Procs
  /\ pc \in [Procs -> Labels] /\ releasing \subseteq Procs /\ retry \subseteq Procs
  /\ tries \in [Procs -> 0 .. GuardAttempts - 1] /\ round \in [Procs -> 0 .. LockRounds - 1]
  /\ {guard, lock} \subseteq Entry \cup {None}
  /\ crashes \in 0 .. MaxCrashes /\ faults \in 0 .. MaxFaults /\ ages \in 0 .. MaxAges
  /\ guardFresh \in BOOLEAN /\ lockFresh \in BOOLEAN /\ stolen \in BOOLEAN
  /\ {seen, gen, lostGen, rec, handle, lostRec} \subseteq [Procs -> Entry \cup {None}]

(* A live handle stands for the file at the lock path: as long as no file  *)
(* of a live process has been taken over from another host by its age, no  *)
(* acquisition, recovery, release or restart removes or replaces the       *)
(* record of a process that still works under it.  Two processes never     *)
(* work at once.                                                           *)
HandleOwnsPath == ~stolen => \A p \in Procs : handle[p] # None => lock = handle[p]
==============================================================================
