-------------------------- MODULE InstanceCreateLock --------------------------
(***************************************************************************)
(* The creation of the instance identity on first boot: the ticket lock on *)
(* files of resources/instance-create-lock.ts and the critical section     *)
(* findOrCreateInstance runs under it.                                     *)
(*                                                                         *)
(* A GET is one GET /FederationInstance, on a worker thread of one of the  *)
(* processes that share the store.  It publishes a `choosing` claim, takes *)
(* a number one above every ticket it can list, renames its claim to a     *)
(* `ticket`, and polls the lock directory until its ticket is the smallest *)
(* live one.  A listing is atomic; the claims it named are read one by one *)
(* afterwards, when they may have been renamed, released or orphaned.      *)
(*                                                                         *)
(* A process may die at any step.  Its claims stay, and the next contender *)
(* that reads one finds the pid dead and unlinks it.                       *)
(***************************************************************************)
EXTENDS Integers

CONSTANTS
  Gets,            \* the contenders; their order is the order of claim names
  Procs,           \* the processes, each with its own pid
  ProcOf,          \* the process a contender runs in
  MaxListFailures  \* bound on failed directory listings of nextTicket

ASSUME GetsAssumption ==
  /\ Gets \subseteq Nat
  /\ ProcOf \in [Gets -> Procs]
  /\ MaxListFailures \in Nat

VARIABLES
  pc,            \* where each GET is
  claim,         \* its visible claim file
  ticket,        \* the number it took
  todo,          \* the listed claims it has not read yet: <<owner, kind>>
  blocked,       \* the GETs whose current listing found something in the way
  expired,       \* the GETs whose deadline has passed
  dead,          \* the processes that died
  listFailures,  \* failed listings of nextTicket so far
  rows,          \* the stored Instance rows, each named for the GET that minted it
  seeds,         \* the rows whose signing seed is in the keystore
  answer,        \* how each GET was answered
  got            \* the row an answer carries

lockVars == <<claim, ticket, todo, blocked, expired, dead, listFailures>>
storeVars == <<rows, seeds>>
vars == <<pc, lockVars, storeVars, answer, got>>

Alive(c) == ProcOf[c] \notin dead
Ticketed == {c \in Gets : claim[c] = "ticket"}
Visible == {<<c, claim[c]>> : c \in {d \in Gets : claim[d] # "none"}}

(* The order of ticket claims: by number, then by name.                    *)
Before(c, d) == ticket[c] < ticket[d] \/ (ticket[c] = ticket[d] /\ c < d)

-----------------------------------------------------------------------------
Init ==
  /\ pc = [c \in Gets |-> "idle"]
  /\ claim = [c \in Gets |-> "none"]
  /\ ticket = [c \in Gets |-> 0]
  /\ todo = [c \in Gets |-> {}]
  /\ blocked = {} /\ expired = {} /\ dead = {}
  /\ listFailures = 0
  /\ rows = {} /\ seeds = {}
  /\ answer = [c \in Gets |-> "none"]
  /\ got = [c \in Gets |-> c]

Goto(c, where) == pc' = [pc EXCEPT ![c] = where]

(* A GET ends with answer a.  release() unlinks its claim on every exit;   *)
(* an unlink that fails leaves the claim until the process is gone.        *)
End(c, a) ==
  /\ Goto(c, "ended")
  /\ answer' = [answer EXCEPT ![c] = a]
  /\ UNCHANGED claim \/ claim' = [claim EXCEPT ![c] = "none"]
  /\ blocked' = blocked \ {c} /\ expired' = expired \ {c}
  /\ UNCHANGED <<ticket, todo, dead, listFailures>>

(* decideInstanceAnswer on stored rows: one row is the answer, several are *)
(* refused.                                                                *)
AnswerRows(c) ==
  \/ \E r \in rows : rows = {r} /\ End(c, "row") /\ got' = [got EXCEPT ![c] = r]
  \/ \E r, s \in rows : r # s /\ End(c, "multiple") /\ UNCHANGED got

(* The GET's own read, outside the lock.                                   *)
Get(c) ==
  /\ pc[c] = "idle"
  /\ \/ AnswerRows(c)
     \/ rows = {} /\ Goto(c, "creating") /\ UNCHANGED <<lockVars, answer, got>>
  /\ UNCHANGED storeVars

(* CHOOSE: the complete claim becomes visible by one rename.               *)
Choose(c) ==
  /\ pc[c] = "creating"
  /\ Goto(c, "chosen")
  /\ claim' = [claim EXCEPT ![c] = "choosing"]
  /\ UNCHANGED <<ticket, todo, blocked, expired, dead, listFailures, storeVars, answer, got>>

(* nextTicket: one above every visible ticket, dead or alive.              *)
Number(c) ==
  /\ pc[c] = "chosen" /\ c \notin expired
  /\ Goto(c, "numbered")
  /\ \E t \in {0} \cup {ticket[d] : d \in Ticketed} :
       /\ \A d \in Ticketed : ticket[d] <= t
       /\ ticket' = [ticket EXCEPT ![c] = t + 1]
  /\ UNCHANGED <<claim, todo, blocked, expired, dead, listFailures, storeVars, answer, got>>

(* nextTicket when the directory cannot be listed: it answers 1.           *)
NumberUnlisted(c) ==
  /\ pc[c] = "chosen" /\ c \notin expired
  /\ listFailures < MaxListFailures
  /\ listFailures' = listFailures + 1
  /\ Goto(c, "numbered")
  /\ ticket' = [ticket EXCEPT ![c] = 1]
  /\ UNCHANGED <<claim, todo, blocked, expired, dead, storeVars, answer, got>>

(* Mutant of Publish: the ticket keeps the name that is never listed.      *)
PublishAsTmp(c) ==
  /\ pc[c] = "numbered"
  /\ Goto(c, "waiting")
  /\ claim' = [claim EXCEPT ![c] = "tmp"]
  /\ UNCHANGED <<ticket, todo, blocked, expired, dead, listFailures, storeVars, answer, got>>

(* TICKET: the choosing claim is renamed to the ticket claim.              *)
Publish(c) ==
  /\ pc[c] = "numbered"
  /\ Goto(c, "waiting")
  /\ claim' = [claim EXCEPT ![c] = "ticket"]
  /\ UNCHANGED <<ticket, todo, blocked, expired, dead, listFailures, storeVars, answer, got>>

(* The claim or the ticket cannot be created, or the deadline passed in    *)
(* the choosing state: creation is refused.                                *)
ClaimRefused(c) ==
  /\ \/ pc[c] \in {"creating", "numbered"}
     \/ pc[c] = "chosen" /\ c \in expired
  /\ End(c, "refused")
  /\ UNCHANGED <<storeVars, got>>

(* Mutant of List: only the ticket claims are considered.                  *)
ListTicketsOnly(c) ==
  /\ pc[c] = "waiting"
  /\ Goto(c, "listing")
  /\ \/ todo' = [todo EXCEPT ![c] = {f \in Visible : f[2] = "ticket"}] /\ blocked' = blocked \ {c}
     \/ todo' = [todo EXCEPT ![c] = {}] /\ blocked' = blocked \cup {c}
  /\ UNCHANGED <<claim, ticket, expired, dead, listFailures, storeVars, answer, got>>

(* WAIT, one poll: the directory is listed.  A listing that fails names no *)
(* claim, so not the GET's own either, and the poll finds it blocked.      *)
List(c) ==
  /\ pc[c] = "waiting"
  /\ Goto(c, "listing")
  /\ \/ todo' = [todo EXCEPT ![c] = Visible] /\ blocked' = blocked \ {c}
     \/ todo' = [todo EXCEPT ![c] = {}] /\ blocked' = blocked \cup {c}
  /\ UNCHANGED <<claim, ticket, expired, dead, listFailures, storeVars, answer, got>>

(* Mutant of ReadClaim: a claim that can no longer be read is skipped.     *)
ReadClaimSkipsGone(c, d, kind) ==
  /\ pc[c] = "listing" /\ <<d, kind>> \in todo[c]
  /\ todo' = [todo EXCEPT ![c] = @ \ {<<d, kind>>}]
  /\ \/ /\ claim[d] # kind /\ UNCHANGED <<claim, blocked>>
     \/ /\ claim[d] = kind /\ ~Alive(d)
        /\ claim' = [claim EXCEPT ![d] = "none"] /\ UNCHANGED blocked
     \/ /\ claim[d] = kind /\ Alive(d)
        /\ blocked' = IF kind = "choosing" \/ Before(d, c) THEN blocked \cup {c} ELSE blocked
        /\ UNCHANGED claim
  /\ UNCHANGED <<pc, ticket, expired, dead, listFailures, storeVars, answer, got>>

(* listClaims reads one listed claim: a claim that cannot be read blocks,  *)
(* one of a dead pid is unlinked, a live choosing claim blocks and so does *)
(* a live ticket that comes before the GET's own.                          *)
ReadClaim(c, d, kind) ==
  /\ pc[c] = "listing" /\ <<d, kind>> \in todo[c]
  /\ todo' = [todo EXCEPT ![c] = @ \ {<<d, kind>>}]
  /\ \/ /\ claim[d] # kind
        /\ blocked' = blocked \cup {c} /\ UNCHANGED claim
     \/ /\ claim[d] = kind /\ ~Alive(d)
        /\ claim' = [claim EXCEPT ![d] = "none"] /\ UNCHANGED blocked
     \/ /\ claim[d] = kind /\ Alive(d)
        /\ blocked' = IF kind = "choosing" \/ Before(d, c) THEN blocked \cup {c} ELSE blocked
        /\ UNCHANGED claim
  /\ UNCHANGED <<pc, ticket, expired, dead, listFailures, storeVars, answer, got>>

(* Nothing is in the way and the GET's own ticket is the smallest.         *)
Hold(c) ==
  /\ pc[c] = "listing" /\ todo[c] = {} /\ c \notin blocked
  /\ Goto(c, "holding")
  /\ UNCHANGED <<lockVars, storeVars, answer, got>>

(* Mutant of Wait: the deadline only ends the choosing state.              *)
WaitWithoutDeadline(c) ==
  /\ pc[c] = "listing" /\ todo[c] = {} /\ c \in blocked
  /\ Goto(c, "waiting") /\ UNCHANGED <<lockVars, answer>>
  /\ UNCHANGED <<storeVars, got>>

(* Something is in the way: refuse past the deadline, else poll again.     *)
Wait(c) ==
  /\ pc[c] = "listing" /\ todo[c] = {} /\ c \in blocked
  /\ IF c \in expired THEN End(c, "refused")
                      ELSE Goto(c, "waiting") /\ UNCHANGED <<lockVars, answer>>
  /\ UNCHANGED <<storeVars, got>>

(* The critical section.                                                   *)

(* Mutant of ReadRows: it trusts the read made before the lock.            *)
ReadRowsBeforeLock(c) ==
  /\ pc[c] = "holding"
  /\ Goto(c, "minting")
  /\ UNCHANGED <<lockVars, storeVars, answer, got>>

(* The read under the lock, in a transaction of its own.                   *)
ReadRows(c) ==
  /\ pc[c] = "holding"
  /\ \/ AnswerRows(c)
     \/ rows = {} /\ Goto(c, "minting") /\ UNCHANGED <<lockVars, answer, got>>
  /\ UNCHANGED storeVars

(* The minted row is committed, in a transaction of its own.               *)
Put(c) ==
  /\ pc[c] = "minting"
  /\ Goto(c, "put")
  /\ rows' = rows \cup {c}
  /\ UNCHANGED <<lockVars, seeds, answer, got>>

(* The seed goes to the keystore; a failure is logged and tolerated.       *)
SetSeed(c) ==
  /\ pc[c] = "put"
  /\ Goto(c, "seeded")
  /\ seeds' \in {seeds, seeds \cup {c}}
  /\ UNCHANGED <<lockVars, rows, answer, got>>

(* The confirming re-read decides the answer; no row at all is refused.    *)
Confirm(c) ==
  /\ pc[c] = "seeded"
  /\ \/ AnswerRows(c)
     \/ rows = {} /\ End(c, "unobservable") /\ UNCHANGED got
  /\ UNCHANGED storeVars

(* A read, or the put, throws: the lock is released and the GET rejects.   *)
CriticalThrows(c) ==
  /\ pc[c] \in {"holding", "minting", "seeded"}
  /\ End(c, "rejected")
  /\ rows' \in {rows, IF pc[c] = "minting" THEN rows \cup {c} ELSE rows}
  /\ UNCHANGED <<seeds, got>>

(* The deadline of a GET that is waiting for the lock passes.              *)
Deadline(c) ==
  /\ pc[c] \in {"creating", "chosen", "numbered", "waiting", "listing"} /\ c \notin expired
  /\ expired' = expired \cup {c}
  /\ UNCHANGED <<pc, claim, ticket, todo, blocked, dead, listFailures, storeVars, answer, got>>

(* A process dies, with every GET it was running.                          *)
Die(p) ==
  /\ p \notin dead
  /\ dead' = dead \cup {p}
  /\ pc' = [c \in Gets |-> IF ProcOf[c] = p /\ pc[c] # "ended" THEN "crashed" ELSE pc[c]]
  /\ todo' = [c \in Gets |-> IF ProcOf[c] = p THEN {} ELSE todo[c]]
  /\ blocked' = {c \in blocked : ProcOf[c] # p}
  /\ expired' = {c \in expired : ProcOf[c] # p}
  /\ UNCHANGED <<claim, ticket, listFailures, storeVars, answer, got>>

Acquire(c) ==
  \/ Choose(c) \/ Number(c) \/ NumberUnlisted(c) \/ Publish(c) \/ ClaimRefused(c)
  \/ List(c) \/ Hold(c) \/ Wait(c)
  \/ \E d \in Gets, kind \in {"choosing", "ticket"} : ReadClaim(c, d, kind)

Create(c) == ReadRows(c) \/ Put(c) \/ SetSeed(c) \/ Confirm(c) \/ CriticalThrows(c)

Next ==
  \/ \E c \in Gets : Get(c) \/ Acquire(c) \/ Create(c) \/ Deadline(c)
  \/ \E p \in Procs : Die(p)

Spec == Init /\ [][Next]_vars

(* A started GET runs on: its timers fire, its file and store calls        *)
(* return, and its deadline passes.  No GET has to arrive, no process to   *)
(* die.                                                                    *)
FairSpec ==
  Spec /\ \A c \in Gets : WF_vars(Acquire(c) \/ Create(c)) /\ WF_vars(Deadline(c))

-----------------------------------------------------------------------------
(* Properties.                                                             *)

PCs == {"idle", "creating", "chosen", "numbered", "waiting", "listing", "holding",
        "minting", "put", "seeded", "ended", "crashed"}
Critical == {c \in Gets : pc[c] \in {"holding", "minting", "put", "seeded"}}

(* Every variable of the lock, the store and the answers has its type.     *)
TypeOK ==
  /\ pc \in [Gets -> PCs]
  /\ claim \in [Gets -> {"none", "choosing", "ticket"}]
  /\ ticket \in [Gets -> Nat]
  /\ todo \in [Gets -> SUBSET (Gets \X {"choosing", "ticket"})]
  /\ blocked \subseteq Gets /\ expired \subseteq Gets
  /\ dead \subseteq Procs
  /\ listFailures \in 0 .. MaxListFailures
  /\ rows \subseteq Gets /\ seeds \subseteq Gets
  /\ answer \in [Gets -> {"none", "row", "multiple", "unobservable", "refused", "rejected"}]
  /\ got \in [Gets -> Gets]

(* As long as nextTicket could list the directory, two GETs are never in   *)
(* the critical section together, across threads, processes, deaths and    *)
(* claims reclaimed from dead pids.                                        *)
OneHolder ==
  listFailures = 0 => \A c, d \in Critical : c = d

(* The lock is handed on in ticket order: while a GET is in the critical   *)
(* section no live GET has a published ticket that comes before its own.   *)
TicketOrder ==
  listFailures = 0 =>
    \A c \in Critical, d \in Gets :
      claim[d] = "ticket" /\ Alive(d) /\ pc[d] # "ended" /\ c # d => Before(c, d)

(* As long as nextTicket could list the directory, one identity is minted, *)
(* also when its minter died before it could answer, and every GET that is *)
(* answered with a row is answered with that one; no GET is refused over   *)
(* several rows or over a row it cannot see.                               *)
OneIdentity ==
  listFailures = 0 =>
    /\ \A r, s \in rows : r = s
    /\ \A c \in Gets : /\ answer[c] = "row" => rows = {got[c]}
                       /\ answer[c] \notin {"multiple", "unobservable"}

(* Concurrent first-boot GETs mint one row (the comment on                 *)
(* findOrCreateInstance), whatever fails on the way.                       *)
OneRowMinted == \A r, s \in rows : r = s

(* Every GET that wants to create ends, in an answer or a refusal, or dies *)
(* with its process: a stuck or dead holder delays it to its deadline.     *)
EveryGetEnds == \A c \in Gets : pc[c] = "creating" ~> pc[c] \in {"ended", "crashed"}
=============================================================================
