---------------------------- MODULE FederationSync ----------------------------
(***************************************************************************)
(* The push of memories from a spoke to its hub: runFederationSyncOnce of  *)
(* src/commands/federation.ts with the retry rows of                       *)
(* src/lib/federation-retry-queue.ts, and the merge of                     *)
(* resources/Federation.ts at the hub.                                     *)
(*                                                                         *)
(* A run takes the time, queries the memories stamped after the last       *)
(* cursor, adds the refused ones whose backoff is over, sends them in      *)
(* batches and, once the hub has answered, makes the time it took first    *)
(* the new cursor.  Memories are written meanwhile: a write is stamped     *)
(* when it begins and stored when it commits.  A request may be lost while *)
(* the hub goes on with it, a record may be answered before its merge has  *)
(* ended, and a run may stop at any step.  The hub's own writers put and   *)
(* delete memories under their own clock and commit at any step of a       *)
(* merge: its lock does not keep out a put that joined another transaction.*)
(***************************************************************************)
EXTENDS Integers, FiniteSets

CONSTANTS
  Rows,       \* the ids of Memory rows
  None,       \* no row, no merge
  MaxTime,    \* bound on the clock
  MaxWrites,  \* bound on the writes at the spoke and at the hub
  MaxFaults   \* bound on the calls that fail, are lost or are refused

(* A version of a memory: its updatedAt, whether the hub may have it, and  *)
(* the instance that wrote it.  The hub refuses a barred one for good.     *)
Kinds == {"shared", "private", "barred"}
Version == [at : 0 .. MaxTime, kind : Kinds, by : {"spoke", "hub"}]

(* What is stored, written or offered under each id.                       *)
Store == [Rows -> Version \cup {None}]

(* A merge: the record it carries, how far it is, and the hub's row it was *)
(* decided on.                                                             *)
Merge == [row : Rows, ver : Version, step : {"new", "decided", "confirmed"},
          base : Version \cup {None}]

ASSUME SyncAssumption ==
  /\ MaxTime \in Nat \ {0} /\ MaxWrites \in Nat /\ MaxFaults \in Nat
  /\ IsFiniteSet(Rows)
  /\ None \notin Version /\ None \notin Merge /\ None \notin {"ended", "retry"}

VARIABLES
  now,        \* the spoke's clock, which stamps updatedAt and queriedAt
  src,        \* the memories stored at the spoke
  putting,    \* writes that have stamped updatedAt and not committed
  hub,        \* the memories stored at the hub
  merges,     \* merges the hub still works on and nobody waits for
  cursor,     \* hub.lastSyncAt at the spoke
  retry,      \* the FederationRetry row of each memory
  pc,         \* where the run is
  queriedAt,  \* the time the run took first
  offer,      \* the version of each selected memory that is still to be sent
  batch,      \* the memories of the batch
  chunks,     \* the parts of the batch that are not sent yet
  chunk,      \* the memories of the request under way
  asked,      \* those of them the hub has not begun
  cur,        \* the merge of the request the hub works on
  reply,      \* what the hub has answered for the memories of the batch
  fresh,      \* history: memories committed since the run's query
  late,       \* history: memories committed at or below the cursor
  had,        \* history: memories whose version, or a later one, the hub has stored
  crossed,    \* history: memories the hub's writers committed under a confirmed merge
  writes, faults

storeVars == <<src, putting, late, fresh>>
hubVars == <<hub, merges, had, crossed>>
runVars == <<pc, queriedAt, offer, batch, chunks, chunk, asked, cur, reply>>
vars == <<now, storeVars, hubVars, cursor, retry, runVars, writes, faults>>

NoOffer == [r \in Rows |-> None]
Offered == {r \in Rows : offer[r] # None}
Pending == {r \in Rows : retry[r] # "no"}

Init ==
  /\ now = 1
  /\ src = NoOffer /\ putting = NoOffer
  /\ hub = NoOffer /\ merges = {}
  /\ cursor = 0
  /\ retry = [r \in Rows |-> "no"]
  /\ pc = "idle" /\ queriedAt = 0
  /\ offer = NoOffer /\ batch = {} /\ chunks = {}
  /\ chunk = {} /\ asked = {} /\ cur = None
  /\ reply = [r \in Rows |-> None]
  /\ fresh = {} /\ late = {} /\ had = {} /\ crossed = {}
  /\ writes = 0 /\ faults = 0

Fault == faults < MaxFaults /\ faults' = faults + 1

-----------------------------------------------------------------------------
(* The memories of the spoke and of the hub.                               *)

Tick ==
  /\ now < MaxTime
  /\ now' = now + 1
  /\ UNCHANGED <<storeVars, hubVars, cursor, retry, runVars, writes, faults>>

(* What is stored at the hub is the spoke's version, or stamped no earlier *)
(* (on equal stamps the hub's row stays).                                  *)
Holds(stored, ver) == stored # None /\ ver # None /\ stored.at >= ver.at

(* Memory.post and Memory.put stamp updatedAt,                             *)
BeginPut(r, k) ==
  /\ putting[r] = None /\ writes < MaxWrites
  /\ putting' = [putting EXCEPT ![r] = [at |-> now, kind |-> k, by |-> "spoke"]]
  /\ writes' = writes + 1
  /\ UNCHANGED <<now, src, late, fresh, hubVars, cursor, retry, runVars, faults>>

(* and commit the row after the checks and the embedding.                  *)
CommitPut(r) ==
  /\ putting[r] # None
  /\ src' = [src EXCEPT ![r] = putting[r]]
  /\ putting' = [putting EXCEPT ![r] = None]
  /\ fresh' = fresh \cup {r}
  /\ late' = IF putting[r].at <= cursor THEN late \cup {r} ELSE late \ {r}
  /\ had' = IF Holds(hub[r], putting[r]) THEN had \cup {r} ELSE had \ {r}
  /\ UNCHANGED <<now, hub, merges, crossed, cursor, retry, runVars, writes, faults>>

DeleteRow(r) ==
  /\ src[r] # None /\ writes < MaxWrites
  /\ src' = [src EXCEPT ![r] = None]
  /\ had' = had \ {r}
  /\ writes' = writes + 1
  /\ UNCHANGED <<now, putting, late, fresh, hub, merges, crossed, cursor, retry, runVars, faults>>

(* The merges at the hub, and the memories they have locked and confirmed. *)
Working == merges \cup ({cur} \ {None})
Locked(r) == \E m \in Working : m.row = r /\ m.step = "confirmed"

StoreAtHub(r, v) ==
  /\ hub' = [hub EXCEPT ![r] = v]
  /\ had' = IF Holds(v, src[r]) THEN had \cup {r} ELSE had

(* A writer of the hub commits: a put, a delete or another spoke's merge.  *)
(* It was stamped before it commits, by another clock, so its stamp may be *)
(* any.  Most of them hold the memory's lock until they commit; a put that *)
(* joined another transaction and a raw operations write do not, so one    *)
(* may commit between any two steps of a merge.                            *)
HubWrite(r, v) ==
  /\ writes < MaxWrites
  /\ StoreAtHub(r, v)
  /\ crossed' = IF Locked(r) THEN crossed \cup {r} ELSE crossed
  /\ writes' = writes + 1
  /\ UNCHANGED <<now, storeVars, merges, cursor, retry, runVars, faults>>

HubPut(r) == \E t \in 1 .. MaxTime : HubWrite(r, [at |-> t, kind |-> "shared", by |-> "hub"])
HubDelete(r) == hub[r] # None /\ HubWrite(r, None)

-----------------------------------------------------------------------------
(* The run of the sender.                                                  *)

(* Everything the run kept in memory is gone.                              *)
EndRun ==
  /\ pc' = "idle" /\ queriedAt' = 0
  /\ offer' = NoOffer /\ batch' = {} /\ chunks' = {}
  /\ chunk' = {} /\ asked' = {} /\ cur' = None
  /\ reply' = [r \in Rows |-> None]

(* The cursor and the retry rows are read, and the time is taken before    *)
(* the queries.                                                            *)
StartRun ==
  /\ pc = "idle"
  /\ pc' = "query"
  /\ queriedAt' = now
  /\ UNCHANGED <<now, storeVars, hubVars, cursor, retry, writes, faults,
                 offer, batch, chunks, chunk, asked, cur, reply>>

(* The memories stamped after the cursor; private ones stay.               *)
QueryRows ==
  /\ pc = "query"
  /\ offer' = [r \in Rows |->
       IF src[r] # None /\ src[r].at > cursor /\ src[r].kind # "private" THEN src[r] ELSE None]
  /\ fresh' = {}
  /\ pc' = "reoffer"
  /\ UNCHANGED <<now, src, putting, late, hubVars, cursor, retry, writes, faults,
                 queriedAt, batch, chunks, chunk, asked, cur, reply>>

(* Mutant of ReofferRows: the memory is not looked at again.               *)
ReofferRowsPrivate ==
  /\ pc = "reoffer"
  /\ LET due == {r \in Rows : retry[r] = "due"} \ Offered
     IN  /\ offer' = [r \in Rows |-> IF r \in due THEN src[r] ELSE offer[r]]
         /\ retry' = [r \in Rows |-> IF r \in due /\ src[r] = None THEN "no" ELSE retry[r]]
  /\ pc' = "batch"
  /\ UNCHANGED <<now, storeVars, hubVars, cursor, writes, faults,
                 queriedAt, batch, chunks, chunk, asked, cur, reply>>

(* Mutant of ReofferRows: only what the cursor selects is offered.         *)
ReofferRowsNever ==
  /\ pc = "reoffer"
  /\ UNCHANGED <<offer, retry>>
  /\ pc' = "batch"
  /\ UNCHANGED <<now, storeVars, hubVars, cursor, writes, faults,
                 queriedAt, batch, chunks, chunk, asked, cur, reply>>

(* The refused memories whose backoff is over are read again and offered,  *)
(* or their retry row ends when the memory is gone or private.             *)
ReofferRows ==
  /\ pc = "reoffer"
  /\ LET due == {r \in Rows : retry[r] = "due"} \ Offered
         over == {r \in due : src[r] = None \/ src[r].kind = "private"}
     IN  /\ offer' = [r \in Rows |-> IF r \in due \ over THEN src[r] ELSE offer[r]]
         /\ retry' = [r \in Rows |-> IF r \in over THEN "no" ELSE retry[r]]
  /\ pc' = "batch"
  /\ UNCHANGED <<now, storeVars, hubVars, cursor, writes, faults,
                 queriedAt, batch, chunks, chunk, asked, cur, reply>>

(* The next batch: an attempt is reserved for each memory with a retry row *)
(* just before the send, so its backoff begins again.                      *)
NextBatch ==
  /\ pc = "batch"
  /\ \E B \in SUBSET Offered \ {{}} :
       /\ batch' = B
       /\ chunks' = {B}
       /\ retry' = [r \in Rows |-> IF r \in B \cap Pending THEN "waiting" ELSE retry[r]]
  /\ pc' = "send"
  /\ UNCHANGED <<now, storeVars, hubVars, cursor, writes, faults,
                 queriedAt, offer, chunk, asked, cur, reply>>

(* sendBatch posts one part of the batch.                                  *)
SendChunk ==
  /\ pc = "send"
  /\ \E C \in chunks :
       /\ chunks' = chunks \ {C}
       /\ chunk' = C /\ asked' = C
  /\ pc' = "wait"
  /\ UNCHANGED <<now, storeVars, hubVars, cursor, retry, writes, faults,
                 queriedAt, offer, batch, cur, reply>>

(* The answer has arrived: on to the next part, or to the outcomes.        *)
ChunkAnswered ==
  /\ pc = "wait" /\ asked = {} /\ cur = None
  /\ pc' = IF chunks = {} THEN "apply" ELSE "send"
  /\ chunk' = {}
  /\ UNCHANGED <<now, storeVars, hubVars, cursor, retry, writes, faults,
                 queriedAt, offer, batch, chunks, asked, cur, reply>>

(* What the request has put under way at the hub.                          *)
LeftAtHub ==
  {[row |-> r, ver |-> offer[r], step |-> "new", base |-> None] : r \in asked}
  \cup ({cur} \ {None})

(* The merges at the hub after a step; one that has ended gives back its   *)
(* lock.                                                                   *)
MergesLeft(M) == merges' = M /\ crossed' = {r \in crossed : Locked(r)'}

(* Mutant of ChunkLost: the lost request is still waited for.              *)
ChunkLostKeepsAsked ==
  /\ pc = "wait" /\ Cardinality(chunk) > 1
  /\ Fault
  /\ \E A \in SUBSET chunk \ {{}, chunk} : chunks' = chunks \cup {A, chunk \ A}
  /\ chunk' = {} /\ cur' = None
  /\ pc' = "send"
  /\ UNCHANGED <<now, storeVars, hubVars, cursor, retry, writes,
                 queriedAt, offer, batch, asked, reply>>

(* A timeout, a lost connection or a 5xx: the part is halved and sent      *)
(* again, while the hub may go on with the request.  A part of one memory  *)
(* ends the run.                                                           *)
ChunkLost ==
  /\ pc = "wait"
  /\ Fault
  /\ \/ /\ Cardinality(chunk) > 1
        /\ \E A \in SUBSET chunk \ {{}, chunk} : chunks' = chunks \cup {A, chunk \ A}
        /\ chunk' = {} /\ asked' = {} /\ cur' = None
        /\ reply' = [r \in Rows |-> IF r \in chunk THEN None ELSE reply[r]]
        /\ pc' = "send"
        /\ UNCHANGED <<queriedAt, offer, batch>>
     \/ /\ Cardinality(chunk) = 1
        /\ EndRun
  /\ \E L \in SUBSET LeftAtHub : MergesLeft(merges \cup L)
  /\ UNCHANGED <<now, storeVars, hub, had, cursor, retry, writes>>

(* applyMemoryOutcomes, one memory: an outcome that a later offer may      *)
(* change becomes a retry row, due at once the first time and after its    *)
(* backoff otherwise; any other outcome ends the retry row.                *)
ApplyOutcome(r) ==
  /\ pc = "apply" /\ r \in batch
  /\ retry' = [retry EXCEPT ![r] = IF reply[r] = "ended" THEN "no"
                                   ELSE IF @ = "no" THEN "due" ELSE "waiting"]
  /\ batch' = batch \ {r}
  /\ offer' = [offer EXCEPT ![r] = None]
  /\ reply' = [reply EXCEPT ![r] = None]
  /\ pc' = IF batch = {r} THEN "batch" ELSE "apply"
  /\ UNCHANGED <<now, storeVars, hubVars, cursor, writes, faults,
                 queriedAt, chunks, chunk, asked, cur>>

(* Mutant of AdvanceCursor: the time at the end of the run is the cursor.  *)
AdvanceCursorToEnd ==
  /\ pc = "batch" /\ Offered = {}
  /\ cursor' = now
  /\ late' = late \cup {r \in fresh : src[r] # None /\ src[r].at <= queriedAt}
  /\ EndRun
  /\ UNCHANGED <<now, src, putting, fresh, hubVars, retry, writes, faults>>

(* Nothing is left to send.  A run that sent nothing pings the hub; either *)
(* way the time the run took first becomes the cursor.                     *)
AdvanceCursor ==
  /\ pc = "batch" /\ Offered = {}
  /\ cursor' = queriedAt
  /\ late' = late \cup {r \in fresh : src[r] # None /\ src[r].at <= queriedAt}
  /\ EndRun
  /\ UNCHANGED <<now, src, putting, fresh, hubVars, retry, writes, faults>>

(* A read, a write of a retry row, the ping or the write of the cursor     *)
(* fails, an answer is refused, or the process is stopped: the run ends    *)
(* where it is.                                                            *)
RunStops ==
  /\ pc # "idle"
  /\ Fault
  /\ EndRun
  /\ \E L \in SUBSET LeftAtHub : MergesLeft(merges \cup L)
  /\ UNCHANGED <<now, storeVars, hub, had, cursor, retry, writes>>

(* A retry row's backoff has passed.                                       *)
BackoffEnds(r) ==
  /\ retry[r] = "waiting"
  /\ retry' = [retry EXCEPT ![r] = "due"]
  /\ UNCHANGED <<now, storeVars, hubVars, cursor, runVars, writes, faults>>

-----------------------------------------------------------------------------
(* The merge at the hub.                                                   *)

(* mergeRecord: the later updatedAt wins.                                  *)
Newer(local, ver) == IF local = None \/ ver.at > local.at THEN ver ELSE local

(* What the hub refuses for good: a record it never takes, and one whose   *)
(* content it has under the same or a later updatedAt.                     *)
Refused(local, ver) == ver.kind = "barred" \/ (local # None /\ ver.at <= local.at)

(* mergeOne reads the local row and decides.  Whether the contents are the *)
(* same is left open.                                                      *)
BeginMerge(r) ==
  /\ pc = "wait" /\ r \in asked /\ cur = None
  /\ asked' = asked \ {r}
  /\ \/ /\ Refused(hub[r], offer[r])
        /\ reply' = [reply EXCEPT ![r] = "ended"]
        /\ UNCHANGED cur
     \/ /\ offer[r].kind # "barred"
        /\ cur' = [row |-> r, ver |-> offer[r], step |-> "decided", base |-> hub[r]]
        /\ UNCHANGED reply
  /\ UNCHANGED <<now, storeVars, hubVars, cursor, retry, writes, faults,
                 pc, queriedAt, offer, batch, chunks, chunk>>

(* Mutant of Confirmable: the row is not compared with the one decided on. *)
ConfirmableUnchecked(m) == ~Locked(m.row)

(* The write-back holds the memory's lock, which is taken at once or not   *)
(* at all, and the whole row is the one the merge was decided on, in the   *)
(* transaction and once more before its commit.                            *)
Confirmable(m) == ~Locked(m.row) /\ hub[m.row] = m.base

(* merge_target_busy and merge_target_changed are refusals that may be     *)
(* offered again.                                                          *)
ConfirmMerge ==
  /\ pc = "wait" /\ cur # None /\ cur.step = "decided"
  /\ IF Confirmable(cur)
       THEN cur' = [cur EXCEPT !.step = "confirmed"] /\ UNCHANGED reply
       ELSE cur' = None /\ reply' = [reply EXCEPT ![cur.row] = "retry"]
  /\ UNCHANGED <<now, storeVars, hubVars, cursor, retry, writes, faults,
                 pc, queriedAt, offer, batch, chunks, chunk, asked>>

Outcome(m) == Newer(m.base, m.ver)

(* The row after the commit: Harper keeps either where a writer of the hub *)
(* committed after the confirmation.                                       *)
Kept(m) == {Outcome(m)} \cup ({hub[m.row]} \ {m.base})

(* The commit, and the read of the committed row that decides the answer:  *)
(* another row there makes the outcome indeterminate.                      *)
CommitMerge ==
  /\ pc = "wait" /\ cur # None /\ cur.step = "confirmed"
  /\ \E v \in Kept(cur) :
       /\ StoreAtHub(cur.row, v)
       /\ reply' = [reply EXCEPT ![cur.row] = IF v = Outcome(cur) THEN "ended" ELSE "retry"]
  /\ cur' = None
  /\ MergesLeft(merges)
  /\ UNCHANGED <<now, storeVars, cursor, retry, writes, faults,
                 pc, queriedAt, offer, batch, chunks, chunk, asked>>

(* Another writer has the lock, a field outside the version has changed,   *)
(* the stamp is too far in the future, a store fails or the record's time  *)
(* is over: the record may be offered again.  The merge has ended without  *)
(* a commit, or goes on and may still commit.                              *)
MergeUndecided ==
  /\ pc = "wait" /\ cur # None
  /\ Fault
  /\ reply' = [reply EXCEPT ![cur.row] = "retry"]
  /\ cur' = None
  /\ MergesLeft(merges) \/ MergesLeft(merges \cup {cur})
  /\ UNCHANGED <<now, storeVars, hub, had, cursor, retry, writes,
                 pc, queriedAt, offer, batch, chunks, chunk, asked>>

(* A merge nobody waits for goes on: it reads and decides,                 *)
LateRead(m) ==
  /\ m.step = "new"
  /\ \/ Refused(hub[m.row], m.ver) /\ merges' = merges \ {m}
     \/ /\ m.ver.kind # "barred"
        /\ merges' = (merges \ {m}) \cup {[m EXCEPT !.step = "decided", !.base = hub[m.row]]}
  /\ UNCHANGED <<now, storeVars, hub, had, crossed, cursor, retry, runVars, writes, faults>>

(* confirms, or ends,                                                      *)
LateConfirm(m) ==
  /\ m.step = "decided"
  /\ merges' = (merges \ {m}) \cup
       (IF Confirmable(m) THEN {[m EXCEPT !.step = "confirmed"]} ELSE {})
  /\ UNCHANGED <<now, storeVars, hub, had, crossed, cursor, retry, runVars, writes, faults>>

(* and commits.                                                            *)
LateCommit(m) ==
  /\ m.step = "confirmed"
  /\ \E v \in Kept(m) : StoreAtHub(m.row, v)
  /\ UNCHANGED runVars
  /\ MergesLeft(merges \ {m})
  /\ UNCHANGED <<now, storeVars, cursor, retry, writes, faults>>

-----------------------------------------------------------------------------
SenderStep ==
  \/ StartRun \/ QueryRows \/ ReofferRows \/ NextBatch \/ SendChunk \/ ChunkAnswered
  \/ \E r \in Rows : ApplyOutcome(r)
  \/ AdvanceCursor

HubStep ==
  \/ \E r \in Rows : BeginMerge(r)
  \/ ConfirmMerge \/ CommitMerge

LateStep == \E m \in merges : LateRead(m) \/ LateConfirm(m) \/ LateCommit(m)

Writes ==
  \E r \in Rows :
    \/ \E k \in Kinds : BeginPut(r, k)
    \/ CommitPut(r) \/ DeleteRow(r) \/ HubPut(r) \/ HubDelete(r)

Next ==
  \/ SenderStep \/ HubStep \/ LateStep \/ Writes \/ Tick
  \/ ChunkLost \/ RunStops \/ MergeUndecided
  \/ \E r \in Rows : BackoffEnds(r)

(* runFederationWatch runs again and again, the hub works on what it is    *)
(* asked and ends what it has begun, and time passes.                      *)
Fairness ==
  /\ WF_vars(SenderStep) /\ WF_vars(HubStep) /\ WF_vars(LateStep)
  /\ \A r \in Rows : WF_vars(BackoffEnds(r))

Spec == Init /\ [][Next]_vars /\ Fairness

-----------------------------------------------------------------------------
(* The hub has stored the version the spoke has, or one stamped no         *)
(* earlier; its own writers may have replaced or deleted it since.         *)
Delivered(r) == r \in had

(* A memory the hub ought to have.                                         *)
Owed(r) == src[r] # None /\ src[r].kind = "shared"

(* Every variable has its type.                                            *)
TypeOK ==
  /\ now \in 1 .. MaxTime /\ cursor \in 0 .. MaxTime /\ queriedAt \in 0 .. MaxTime
  /\ src \in Store /\ putting \in Store /\ hub \in Store /\ offer \in Store
  /\ merges \subseteq Merge /\ cur \in Merge \cup {None}
  /\ retry \in [Rows -> {"no", "due", "waiting"}]
  /\ pc \in {"idle", "query", "reoffer", "batch", "send", "wait", "apply"}
  /\ batch \subseteq Rows /\ chunks \subseteq SUBSET Rows
  /\ chunk \subseteq Rows /\ asked \subseteq chunk
  /\ reply \in [Rows -> {None, "ended", "retry"}]
  /\ fresh \subseteq Rows /\ late \subseteq Rows /\ had \subseteq Rows /\ crossed \subseteq Rows
  /\ writes \in 0 .. MaxWrites /\ faults \in 0 .. MaxFaults

(* The cursor loses nothing: a memory stamped at or below it is at the hub *)
(* or has a retry row, unless it was committed after the query of a run    *)
(* that had taken its time after the stamp.                                *)
CursorCovers ==
  \A r \in Rows :
    Owed(r) /\ src[r].at <= cursor => Delivered(r) \/ r \in Pending \/ r \in late

(* The comment on queriedAt: it is taken before the queries so that no     *)
(* memory is missed, since those written during the run are stamped later  *)
(* and sent in the next cycle.  A memory stamped before the cursor would   *)
(* then be at the hub or have a retry row.                                 *)
NoMiss ==
  \A r \in Rows :
    Owed(r) /\ src[r].at < cursor => Delivered(r) \/ r \in Pending

(* A private memory never reaches the hub, also not when it became private *)
(* while a retry row asked for it.                                         *)
PrivateStays == \A r \in Rows : hub[r] # None => hub[r].kind # "private"

(* No merge replaces the hub's memory by an older version or removes it,   *)
(* whatever repeated, late or reordered records the hub merges and         *)
(* whatever its own writers commit before the merge is confirmed: only a   *)
(* put or a delete between the confirmation and the commit of one merge,   *)
(* which its lock does not keep out, can be overwritten.                   *)
HubNeverGoesBack ==
  [][\A r \in Rows :
       hub[r] # None /\ writes' = writes /\ r \notin crossed =>
         hub'[r] # None /\ hub'[r].at >= hub[r].at]_vars

(* Every memory the hub ought to have gets there.                          *)
EventuallyDelivered ==
  \A r \in Rows : []<>(Owed(r) => Delivered(r) \/ r \in late)
==============================================================================
