----------------------------- MODULE ReplayStore -----------------------------
(***************************************************************************)
(* The single-use record of signed requests, resources/replay-store.ts:    *)
(* the check-and-record recordOnce, the guard with its per-thread memory   *)
(* in front of it, and the request path that calls them (agent-auth.ts,    *)
(* federation-crypto.ts).                                                  *)
(*                                                                         *)
(* A PRESENTATION is one arrival of a signed request, on one thread.  Its  *)
(* key is the request's nonce; a request is presented again when a client  *)
(* or the network repeats it.  The timestamp window is checked on arrival, *)
(* the key is claimed only after the signature was verified, up to         *)
(* MaxDelay later; the claim takes the key's lock, reads the store and     *)
(* writes the row in a transaction of its own.  Rows are evicted once they *)
(* are Retention old.                                                      *)
(***************************************************************************)
EXTENDS Integers, FiniteSets

CONSTANTS
  Keys,           \* the nonces
  Presentations,  \* the arrivals of signed requests
  Threads,        \* the worker threads of the instance
  KeyOf,          \* the key a presentation carries
  ThreadOf,       \* the thread it arrives on
  SignedAt,       \* the timestamp signed with each key
  Window,         \* windowMs of the guard
  Retention,      \* REPLAY_RETENTION_MS
  MaxDelay,       \* longest time from the window check to the claim
  CacheLimit,     \* cacheLimit of the guard
  NoOne,          \* "the key's lock is free"
  MaxTime,        \* bound on the clock
  MaxRestarts     \* bound on process restarts

(* replayWindowGap and replayStoreContractGap make a guard with            *)
(* Retention <= 2 * Window unavailable; what is left of the retention must *)
(* cover the delay.                                                        *)
ASSUME ReplayAssumption ==
  /\ KeyOf \in [Presentations -> Keys]
  /\ ThreadOf \in [Presentations -> Threads]
  /\ SignedAt \in [Keys -> Nat]
  /\ Window \in Nat /\ Retention \in Nat /\ MaxDelay \in Nat
  /\ Retention > 2 * Window + MaxDelay
  /\ NoOne \notin Presentations
  /\ CacheLimit \in Nat /\ MaxTime \in Nat /\ MaxRestarts \in Nat

VARIABLES
  now,       \* the clock
  row,       \* when each key's row was written, or Absent
  recorded,  \* history: the keys whose row was ever written
  lock,      \* which presentation holds each key's lock
  seen,      \* each thread's memory: when a key was remembered, or Absent
  pc,        \* where each presentation is
  checked,   \* when it passed the window check, then when its claim began
  restarts

vars == <<now, row, recorded, lock, seen, pc, checked, restarts>>

Absent == -1

(* The presentations that are over, by how they were answered.             *)
Answered == {"accepted", "replay", "contended", "unavailable", "rejected", "lost"}

-----------------------------------------------------------------------------
Init ==
  /\ now = 0
  /\ row = [k \in Keys |-> Absent]
  /\ recorded = {}
  /\ lock = [k \in Keys |-> NoOne]
  /\ seen = [t \in Threads |-> [k \in Keys |-> Absent]]
  /\ pc = [p \in Presentations |-> "idle"]
  /\ checked = [p \in Presentations |-> 0]
  /\ restarts = 0

(* The time of the window check matters until the presentation claims, the *)
(* time the claim began until it resumes.                                  *)
Goto(p, where) ==
  /\ pc' = [pc EXCEPT ![p] = where]
  /\ checked' = [checked EXCEPT ![p] = CASE where \in {"checked", "writing"} -> now
                                        [] where = "stored" -> @
                                        [] OTHER -> 0]

(* Time passes, but not past the moment a checked presentation claims.     *)
Tick ==
  /\ now < MaxTime
  /\ \A p \in Presentations : pc[p] = "checked" => now < checked[p] + MaxDelay
  /\ now' = now + 1
  /\ UNCHANGED <<row, recorded, lock, seen, pc, checked, restarts>>

(* prune: a pass runs at most once a second, or when the memory is full;   *)
(* it drops what is older than twice the window, and everything if that    *)
(* left too much.                                                          *)
Fresh(m, at) == [k \in Keys |-> IF at - m[k] > 2 * Window THEN Absent ELSE m[k]]
Full(m) == Cardinality({k \in Keys : m[k] # Absent}) >= CacheLimit
Pruned(m, at) ==
  {IF Full(Fresh(m, at)) THEN [k \in Keys |-> Absent] ELSE Fresh(m, at)}
    \cup (IF Full(m) THEN {} ELSE {m})

(* The request arrives: outside the window it is rejected, and a key this  *)
(* thread remembers is refused at once.                                    *)
Arrive(p) ==
  LET k == KeyOf[p]
      t == ThreadOf[p] IN
  /\ pc[p] = "idle"
  /\ IF now - SignedAt[k] > Window \/ SignedAt[k] - now > Window
       THEN Goto(p, "rejected") /\ UNCHANGED seen
       ELSE \E m \in Pruned(seen[t], now) :
              /\ seen' = [seen EXCEPT ![t] = m]
              /\ Goto(p, IF m[k] # Absent THEN "replay" ELSE "checked")
  /\ UNCHANGED <<now, row, recorded, lock, restarts>>

(* The signature does not verify: nothing is claimed.                      *)
BadSignature(p) ==
  /\ pc[p] = "checked"
  /\ Goto(p, "rejected")
  /\ UNCHANGED <<now, row, recorded, lock, seen, restarts>>

(* Remembering a key the store has confirmed, as of when its claim began.  *)
Remember(p, at) ==
  \E m \in Pruned(seen[ThreadOf[p]], at) :
    seen' = [seen EXCEPT ![ThreadOf[p]] = [m EXCEPT ![KeyOf[p]] = at]]

(* Mutants of Claim: it takes no lock; it remembers a contended key.       *)
ClaimUnlocked(p) ==
  LET k == KeyOf[p] IN
  /\ pc[p] = "checked"
  /\ \/ row[k] # Absent /\ Goto(p, "replay") /\ Remember(p, now) /\ UNCHANGED lock
     \/ row[k] = Absent /\ Goto(p, "writing") /\ lock' = [lock EXCEPT ![k] = p] /\ UNCHANGED seen
  /\ UNCHANGED <<now, row, recorded, restarts>>
ClaimRemembersContended(p) ==
  LET k == KeyOf[p] IN
  /\ pc[p] = "checked"
  /\ \/ lock[k] # NoOne /\ Goto(p, "contended") /\ Remember(p, now) /\ UNCHANGED lock
     \/ lock[k] = NoOne /\ row[k] # Absent /\ Goto(p, "replay") /\ Remember(p, now) /\ UNCHANGED lock
     \/ /\ lock[k] = NoOne /\ row[k] = Absent
        /\ Goto(p, "writing") /\ lock' = [lock EXCEPT ![k] = p] /\ UNCHANGED seen
  /\ UNCHANGED <<now, row, recorded, restarts>>

(* claim, up to recordOnce's await: without the key's lock the request is  *)
(* refused and the key not remembered; a stored row refuses it and is      *)
(* remembered (the lock taken and given back); else the put begins.        *)
Claim(p) ==
  LET k == KeyOf[p] IN
  /\ pc[p] = "checked"
  /\ \/ lock[k] # NoOne /\ Goto(p, "contended") /\ UNCHANGED <<lock, seen>>
     \/ lock[k] = NoOne /\ row[k] # Absent /\ Goto(p, "replay") /\ Remember(p, now) /\ UNCHANGED lock
     \/ /\ lock[k] = NoOne /\ row[k] = Absent
        /\ Goto(p, "writing") /\ lock' = [lock EXCEPT ![k] = p] /\ UNCHANGED seen
  /\ UNCHANGED <<now, row, recorded, restarts>>

(* A gap in the store's contract, or a store that throws before the put.   *)
StoreUnavailable(p) ==
  /\ pc[p] = "checked"
  /\ Goto(p, "unavailable")
  /\ UNCHANGED <<now, row, recorded, lock, seen, restarts>>

(* Mutant of Commit: the row is dated from the other end of its retention. *)
CommitBackdated(p) ==
  /\ pc[p] = "writing"
  /\ Goto(p, "stored")
  /\ row' = [row EXCEPT ![KeyOf[p]] = now - Retention]
  /\ recorded' = recorded \cup {KeyOf[p]}
  /\ UNCHANGED <<now, lock, seen, restarts>>

(* The put commits.                                                        *)
Commit(p) ==
  /\ pc[p] = "writing"
  /\ Goto(p, "stored")
  /\ row' = [row EXCEPT ![KeyOf[p]] = now]
  /\ recorded' = recorded \cup {KeyOf[p]}
  /\ UNCHANGED <<now, lock, seen, restarts>>

(* Mutant of PutThrows: the lock is only given back after a put.           *)
PutThrowsLocked(p) ==
  /\ pc[p] = "writing"
  /\ Goto(p, "unavailable")
  /\ UNCHANGED <<now, row, recorded, lock, seen, restarts>>

(* The put throws, its row not stored or stored all the same.              *)
PutThrows(p) ==
  /\ pc[p] \in {"writing", "stored"}
  /\ Goto(p, "unavailable")
  /\ lock' = [lock EXCEPT ![KeyOf[p]] = NoOne]
  /\ UNCHANGED <<now, row, recorded, seen, restarts>>

(* The claim resumes: unlock, remember, accept.                            *)
Accept(p) ==
  /\ pc[p] = "stored"
  /\ Goto(p, "accepted")
  /\ lock' = [lock EXCEPT ![KeyOf[p]] = NoOne]
  /\ Remember(p, checked[p])
  /\ UNCHANGED <<now, row, recorded, restarts>>

(* Harper's expiration scan removes a row that is old enough.              *)
Expire(k) ==
  /\ row[k] # Absent /\ now - row[k] >= Retention
  /\ row' = [row EXCEPT ![k] = Absent]
  /\ UNCHANGED <<now, recorded, lock, seen, pc, checked, restarts>>

(* The process restarts: rows stay; locks, memory and requests are gone.   *)
Restart ==
  /\ restarts < MaxRestarts
  /\ restarts' = restarts + 1
  /\ lock' = [k \in Keys |-> NoOne]
  /\ seen' = [t \in Threads |-> [k \in Keys |-> Absent]]
  /\ pc' = [p \in Presentations |->
              IF pc[p] \in {"checked", "writing", "stored"} THEN "lost" ELSE pc[p]]
  /\ checked' = [p \in Presentations |-> 0]
  /\ UNCHANGED <<now, row, recorded>>

Request(p) ==
  BadSignature(p) \/ Claim(p) \/ StoreUnavailable(p) \/ Commit(p) \/ PutThrows(p) \/ Accept(p)

Next ==
  \/ Tick \/ Restart
  \/ \E p \in Presentations : Arrive(p) \/ Request(p)
  \/ \E k \in Keys : Expire(k)

Spec == Init /\ [][Next]_vars

(* A request that arrived runs on: its lookups and its put settle.         *)
FairSpec == Spec /\ \A p \in Presentations : WF_vars(Request(p))

-----------------------------------------------------------------------------
(* Properties.                                                             *)

(* Every variable of the store, the memory and the requests has its type.  *)
TypeOK ==
  /\ now \in Nat
  /\ row \in [Keys -> Nat \cup {Absent}]
  /\ recorded \subseteq Keys
  /\ lock \in [Keys -> Presentations \cup {NoOne}]
  /\ seen \in [Threads -> [Keys -> Nat \cup {Absent}]]
  /\ pc \in [Presentations -> {"idle", "checked", "writing", "stored"} \cup Answered]
  /\ checked \in [Presentations -> Nat]
  /\ restarts \in Nat

(* A signed request is accepted at most once, however its presentations    *)
(* interleave over the threads, whenever its row is evicted, and across    *)
(* restarts.                                                               *)
AcceptedOnce ==
  \A p, q \in Presentations :
    pc[p] = "accepted" /\ pc[q] = "accepted" /\ KeyOf[p] = KeyOf[q] => p = q

(* A request refused as a replay from a thread's memory or from the store  *)
(* carries a key whose row was written.  The code also answers `replay` to *)
(* a claim that loses the key's lock, while nothing may be recorded yet    *)
(* ("contended" here), but neither such a claim nor one that fails makes a *)
(* thread refuse the key later.                                            *)
ReplayWasRecorded ==
  \A p \in Presentations : pc[p] = "replay" => KeyOf[p] \in recorded

(* A key's lock is given back on every path out of a claim, so a key is    *)
(* contended only while another claim of it is in progress.                *)
KeyLockReleased ==
  \A p \in Presentations : lock[KeyOf[p]] = p ~> lock[KeyOf[p]] # p
=============================================================================
