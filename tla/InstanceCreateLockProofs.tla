----------------------- MODULE InstanceCreateLockProofs -----------------------
(***************************************************************************)
(* The ticket lock on files excludes, and one identity is minted, for any  *)
(* number of GETs, processes and deaths, as long as nextTicket could list  *)
(* the lock directory.                                                     *)
(***************************************************************************)
EXTENDS InstanceCreateLock, TLAPS

(* A GET that has taken a number and has not ended.                        *)
Numbered(d) == pc[d] \in {"numbered", "waiting", "listing", "holding", "minting", "put", "seeded"}

(* The claim a GET has, by where it is; only a GET that has ended or died  *)
(* may belong to a dead process.                                           *)
ClaimOK ==
  \A c \in Gets :
    /\ pc[c] \in {"idle", "creating"} => claim[c] = "none"
    /\ pc[c] \in {"chosen", "numbered"} => claim[c] = "choosing"
    /\ pc[c] \in {"waiting", "listing", "holding", "minting", "put", "seeded"} => claim[c] = "ticket"
    /\ pc[c] = "crashed" => ~Alive(c)
    /\ pc[c] \notin {"crashed", "ended"} => Alive(c)

(* c has looked at d in its current listing and found nothing in the way.  *)
Passed(c, d) ==
  \/ /\ pc[c] = "listing" /\ c \notin blocked
     /\ <<d, "choosing">> \notin todo[c] /\ <<d, "ticket">> \notin todo[c]
  \/ pc[c] \in {"holding", "minting", "put", "seeded"}

(* What looking at d is for: from then on d's number comes after c's, or d *)
(* takes its number later and will see c's ticket.                         *)
OrderOK ==
  listFailures = 0 =>
    \A c, d \in Gets : c # d /\ Passed(c, d) /\ Numbered(d) => Before(c, d)

(* The rows as the critical section leaves them, step by step.             *)
StoreOK ==
  listFailures = 0 =>
    \A c \in Gets : /\ pc[c] = "minting" => rows = {}
                    /\ pc[c] \in {"put", "seeded"} => rows = {c}

LockInv == TypeOK /\ ClaimOK /\ OrderOK
IdentityInv == LockInv /\ StoreOK /\ OneIdentity

-----------------------------------------------------------------------------
(* Two GETs that have each passed the other would each come first.         *)
LEMMA PassingExcludes ==
  LockInv => OneHolder
<1> SUFFICES ASSUME LockInv, listFailures = 0,
                    NEW c \in Critical, NEW d \in Critical, c # d
             PROVE  FALSE
  BY DEF OneHolder
<1>1. c \in Gets /\ d \in Gets /\ Passed(c, d) /\ Passed(d, c) /\ Numbered(c) /\ Numbered(d)
  BY DEF Critical, Passed, Numbered
<1>2. Before(c, d) /\ Before(d, c)
  BY <1>1 DEF LockInv, OrderOK
<1> QED
  BY <1>1, <1>2, GetsAssumption DEF LockInv, TypeOK, Before

(* Every GET with a published ticket is numbered, so the holder passed it. *)
LEMMA PassingOrders ==
  LockInv => TicketOrder
<1> SUFFICES ASSUME LockInv, listFailures = 0, NEW c \in Critical, NEW d \in Gets,
                    claim[d] = "ticket", Alive(d), pc[d] # "ended", c # d
             PROVE  Before(c, d)
  BY DEF TicketOrder
<1>1. Numbered(d)
  BY DEF LockInv, TypeOK, ClaimOK, PCs, Numbered
<1>2. c \in Gets /\ Passed(c, d)
  BY DEF Critical, Passed
<1> QED
  BY <1>1, <1>2 DEF LockInv, OrderOK

-----------------------------------------------------------------------------
(* The initial state satisfies every conjunct.                             *)
LEMMA InitInv == Init => IdentityInv
BY GetsAssumption
  DEF Init, IdentityInv, LockInv, TypeOK, PCs, ClaimOK, Alive, OrderOK, Passed, Numbered,
      StoreOK, OneIdentity

(* Ending a GET, with or without its claim unlinked, keeps the types.      *)
LEMMA EndTypes ==
  ASSUME TypeOK, NEW c \in Gets,
         NEW a \in {"row", "multiple", "unobservable", "refused", "rejected"},
         End(c, a), rows' \subseteq Gets, seeds' \subseteq Gets, got' \in [Gets -> Gets]
  PROVE  TypeOK'
BY DEF TypeOK, PCs, End, Goto

(* Answering a GET from the stored rows keeps the types.                   *)
LEMMA AnswerRowsTypes ==
  ASSUME TypeOK, NEW c \in Gets, AnswerRows(c), UNCHANGED storeVars
  PROVE  TypeOK'
<1>1. rows' = rows /\ seeds' = seeds
  BY DEF storeVars
<1>2. ASSUME NEW r \in rows, End(c, "row"), got' = [got EXCEPT ![c] = r] PROVE TypeOK'
  <2>1. got' \in [Gets -> Gets]
    BY <1>2 DEF TypeOK
  <2> QED
    BY <1>1, <1>2, <2>1, EndTypes DEF TypeOK
<1>3. ASSUME End(c, "multiple"), UNCHANGED got PROVE TypeOK'
  BY <1>1, <1>3, EndTypes DEF TypeOK
<1> QED
  BY <1>2, <1>3 DEF AnswerRows

(* Every step keeps the types.                                             *)
LEMMA TypeStep == TypeOK /\ [Next]_vars => TypeOK'
<1> SUFFICES ASSUME TypeOK, [Next]_vars PROVE TypeOK'
  OBVIOUS
<1> USE GetsAssumption DEF lockVars, storeVars
<1>1. ASSUME NEW c \in Gets, Get(c) PROVE TypeOK'
  <2>1. CASE AnswerRows(c)
    BY <1>1, <2>1, AnswerRowsTypes DEF Get
  <2>2. CASE Goto(c, "creating") /\ UNCHANGED <<lockVars, answer, got>>
    BY <1>1, <2>2 DEF Get, Goto, TypeOK, PCs
  <2> QED
    BY <1>1, <2>1, <2>2 DEF Get
<1>2. ASSUME NEW c \in Gets, Choose(c) \/ Publish(c) PROVE TypeOK'
  BY <1>2 DEF Choose, Publish, Goto, TypeOK, PCs
<1>3. ASSUME NEW c \in Gets, Number(c) PROVE TypeOK'
  <2>1. \A t \in {0} \cup {ticket[d] : d \in Ticketed} : t + 1 \in Nat
    BY DEF Ticketed, TypeOK
  <2>2. ticket' \in [Gets -> Nat]
    BY <1>3, <2>1 DEF Number, TypeOK
  <2> QED
    BY <1>3, <2>2 DEF Number, Goto, TypeOK, PCs
<1>4. ASSUME NEW c \in Gets, NumberUnlisted(c) PROVE TypeOK'
  <2>1. listFailures' \in 0 .. MaxListFailures
    BY <1>4 DEF NumberUnlisted, TypeOK
  <2> QED
    BY <1>4, <2>1 DEF NumberUnlisted, Goto, TypeOK, PCs
<1>5. ASSUME NEW c \in Gets, ClaimRefused(c) PROVE TypeOK'
  BY <1>5, EndTypes DEF ClaimRefused, TypeOK
<1>6. ASSUME NEW c \in Gets, Wait(c) PROVE TypeOK'
  <2>1. CASE End(c, "refused")
    BY <1>6, <2>1, EndTypes DEF Wait, TypeOK
  <2>2. CASE Goto(c, "waiting") /\ UNCHANGED <<lockVars, answer>>
    BY <1>6, <2>2 DEF Wait, Goto, TypeOK, PCs
  <2> QED
    BY <1>6, <2>1, <2>2 DEF Wait
<1>7. ASSUME NEW c \in Gets, Hold(c) PROVE TypeOK'
  BY <1>7 DEF Hold, Goto, TypeOK, PCs
<1>8. ASSUME NEW c \in Gets, List(c) PROVE TypeOK'
  <2>1. Visible \subseteq Gets \X {"choosing", "ticket"}
    BY DEF Visible, TypeOK
  <2>2. todo' \in [Gets -> SUBSET (Gets \X {"choosing", "ticket"})] /\ blocked' \subseteq Gets
    BY <1>8, <2>1 DEF List, TypeOK
  <2> QED
    BY <1>8, <2>2 DEF List, Goto, TypeOK, PCs
<1>9. ASSUME NEW c \in Gets, NEW d \in Gets, NEW kind \in {"choosing", "ticket"}, ReadClaim(c, d, kind)
      PROVE TypeOK'
  <2>1. todo' \in [Gets -> SUBSET (Gets \X {"choosing", "ticket"})]
    BY <1>9 DEF ReadClaim, TypeOK
  <2>2. blocked' \subseteq Gets /\ claim' \in [Gets -> {"none", "choosing", "ticket"}]
    BY <1>9 DEF ReadClaim, TypeOK
  <2> QED
    BY <1>9, <2>1, <2>2 DEF ReadClaim, TypeOK
<1>10. ASSUME NEW c \in Gets, Create(c) PROVE TypeOK'
  <2>1. CASE AnswerRows(c) /\ UNCHANGED storeVars
    BY <2>1, AnswerRowsTypes
  <2>2. CASE rows = {} /\ End(c, "unobservable") /\ UNCHANGED got /\ UNCHANGED storeVars
    BY <2>2, EndTypes DEF TypeOK
  <2>3. CASE Goto(c, "minting") /\ UNCHANGED <<lockVars, storeVars, answer, got>>
    BY <2>3 DEF Goto, TypeOK, PCs
  <2>4. CASE Put(c)
    BY <2>4 DEF Put, Goto, TypeOK, PCs
  <2>5. CASE SetSeed(c)
    BY <2>5 DEF SetSeed, Goto, TypeOK, PCs
  <2>6. CASE CriticalThrows(c)
    <3>1. rows' \subseteq Gets /\ seeds' \subseteq Gets /\ got' \in [Gets -> Gets] /\ End(c, "rejected")
      BY <2>6 DEF CriticalThrows, TypeOK
    <3> QED
      BY <3>1, EndTypes
  <2> QED
    BY <1>10, <2>1, <2>2, <2>3, <2>4, <2>5, <2>6 DEF Create, ReadRows, Confirm
<1>11. ASSUME NEW c \in Gets, Deadline(c) PROVE TypeOK'
  BY <1>11 DEF Deadline, TypeOK
<1>12. ASSUME NEW p \in Procs, Die(p) PROVE TypeOK'
  <2>1. todo' \in [Gets -> SUBSET (Gets \X {"choosing", "ticket"})]
    BY <1>12 DEF Die, TypeOK
  <2> QED
    BY <1>12, <2>1 DEF Die, TypeOK, PCs
<1>13. CASE UNCHANGED vars
  BY <1>13 DEF vars, TypeOK
<1> QED
  BY <1>1, <1>2, <1>3, <1>4, <1>5, <1>6, <1>7, <1>8, <1>9, <1>10, <1>11, <1>12, <1>13 DEF Next, Acquire

(* Every step leaves each GET with the claim of its place.                 *)
LEMMA ClaimStep == TypeOK /\ ClaimOK /\ [Next]_vars => ClaimOK'
<1> SUFFICES ASSUME TypeOK, ClaimOK, [Next]_vars PROVE ClaimOK'
  OBVIOUS
<1> USE GetsAssumption DEF TypeOK, PCs, ClaimOK, Alive, lockVars, storeVars
<1>1. ASSUME NEW c \in Gets, Get(c) PROVE ClaimOK'
  BY <1>1 DEF Get, AnswerRows, End, Goto
<1>2. ASSUME NEW c \in Gets, Choose(c) \/ Number(c) \/ NumberUnlisted(c) \/ Publish(c) PROVE ClaimOK'
  BY <1>2 DEF Choose, Number, NumberUnlisted, Publish, Goto
<1>3. ASSUME NEW c \in Gets, ClaimRefused(c) \/ Hold(c) \/ Wait(c) \/ List(c) PROVE ClaimOK'
  BY <1>3 DEF ClaimRefused, Hold, Wait, List, End, Goto
<1>4. ASSUME NEW c \in Gets, NEW d \in Gets, NEW kind \in {"choosing", "ticket"}, ReadClaim(c, d, kind)
      PROVE ClaimOK'
  BY <1>4 DEF ReadClaim
<1>5. ASSUME NEW c \in Gets, Create(c) PROVE ClaimOK'
  BY <1>5 DEF Create, ReadRows, Put, SetSeed, Confirm, CriticalThrows, AnswerRows, End, Goto
<1>6. ASSUME NEW c \in Gets, Deadline(c) PROVE ClaimOK'
  BY <1>6 DEF Deadline
<1>7. ASSUME NEW p \in Procs, Die(p) PROVE ClaimOK'
  BY <1>7 DEF Die
<1>8. CASE UNCHANGED vars
  BY <1>8 DEF vars
<1> QED
  BY <1>1, <1>2, <1>3, <1>4, <1>5, <1>6, <1>7, <1>8 DEF Next, Acquire

(* Two distinct GETs are ordered one way or the other.                     *)
LEMMA BeforeIsTotal ==
  ASSUME TypeOK, NEW c \in Gets, NEW d \in Gets, c # d, ~Before(d, c)
  PROVE  Before(c, d)
BY GetsAssumption DEF TypeOK, Before

(* The order survives a step that leaves numbers alone, adds nobody to the *)
(* numbered and lets nobody pass that had not.                             *)
LEMMA OrderKept ==
  ASSUME OrderOK, ticket' = ticket, listFailures' = listFailures,
         \A c, d \in Gets : c # d /\ Passed(c, d)' /\ Numbered(d)' => Passed(c, d) /\ Numbered(d)
  PROVE  OrderOK'
BY DEF OrderOK, Before

(* Every step keeps what a GET's passing of another is for.                *)
LEMMA OrderStep == LockInv /\ [Next]_vars => OrderOK'
<1> SUFFICES ASSUME LockInv, [Next]_vars PROVE OrderOK'
  OBVIOUS
<1> USE GetsAssumption DEF LockInv, lockVars, storeVars
<1>1. ASSUME NEW c \in Gets, End(c, "row") \/ End(c, "multiple") \/ End(c, "unobservable")
                              \/ End(c, "refused") \/ End(c, "rejected")
      PROVE OrderOK'
  BY <1>1, OrderKept DEF End, Goto, Passed, Numbered, TypeOK
<1>2. ASSUME NEW c \in Gets, UNCHANGED lockVars,
             \/ pc[c] = "idle" /\ Goto(c, "creating")
             \/ pc[c] = "listing" /\ Goto(c, "waiting")
      PROVE OrderOK'
  BY <1>2, OrderKept DEF Goto, Passed, Numbered, TypeOK
<1>3. ASSUME NEW c \in Gets, Choose(c) \/ Publish(c) PROVE OrderOK'
  BY <1>3, OrderKept DEF Choose, Publish, Goto, Passed, Numbered, TypeOK
<1>4. ASSUME NEW c \in Gets, Number(c) PROVE OrderOK'
  <2> SUFFICES ASSUME listFailures = 0, NEW x \in Gets, NEW y \in Gets, x # y,
                      Passed(x, y)', Numbered(y)'
               PROVE  Before(x, y)'
    BY <1>4 DEF OrderOK, Number
  <2>1. x # c /\ pc[x] = pc'[x] /\ ticket'[x] = ticket[x] /\ Passed(x, y)
    BY <1>4 DEF Number, Goto, Passed, TypeOK
  <2>2. x \in Ticketed
    BY <2>1 DEF Passed, ClaimOK, Ticketed
  <2>3. CASE y = c
    <3>1. ticket[x] < ticket'[c]
      BY <1>4, <2>2 DEF Number, TypeOK, Ticketed
    <3> QED
      BY <2>1, <2>3, <3>1 DEF Before
  <2>4. CASE y # c
    <3>1. Numbered(y) /\ ticket'[y] = ticket[y]
      BY <1>4, <2>4 DEF Number, Goto, Numbered, TypeOK
    <3> QED
      BY <1>4, <2>1, <3>1 DEF Number, OrderOK, Before
  <2> QED
    BY <2>3, <2>4
<1>5. ASSUME NEW c \in Gets, NumberUnlisted(c) PROVE OrderOK'
  BY <1>5 DEF NumberUnlisted, OrderOK, TypeOK
<1>6. ASSUME NEW c \in Gets, List(c) PROVE OrderOK'
  <2>1. \A y \in Gets : Numbered(y) => <<y, "choosing">> \in Visible \/ <<y, "ticket">> \in Visible
    BY DEF Numbered, ClaimOK, Visible, TypeOK
  <2>2. \A x, y \in Gets : Passed(x, y)' /\ Numbered(y)' => x # c /\ Passed(x, y) /\ Numbered(y)
    BY <1>6, <2>1 DEF List, Goto, Passed, Numbered, TypeOK
  <2> QED
    BY <1>6, <2>2, OrderKept DEF List
<1>7. ASSUME NEW c \in Gets, NEW d \in Gets, NEW kind \in {"choosing", "ticket"}, ReadClaim(c, d, kind)
      PROVE OrderOK'
  <2> SUFFICES ASSUME listFailures = 0, NEW x \in Gets, NEW y \in Gets, x # y,
                      Passed(x, y)', Numbered(y)'
               PROVE  Before(x, y)
    BY <1>7 DEF OrderOK, ReadClaim, Before
  <2>1. Numbered(y) /\ Alive(y)
    BY <1>7 DEF ReadClaim, Numbered, ClaimOK
  <2>2. CASE Passed(x, y)
    BY <2>1, <2>2 DEF OrderOK
  <2>3. CASE ~Passed(x, y)
    <3>1. x = c /\ y = d /\ c \notin blocked'
      BY <1>7, <2>3 DEF ReadClaim, Passed, TypeOK
    <3>2. ~Before(d, c)
      BY <1>7, <2>1, <3>1 DEF ReadClaim, TypeOK
    <3> QED
      BY <3>1, <3>2, BeforeIsTotal
  <2> QED
    BY <2>2, <2>3
<1>8. ASSUME NEW c \in Gets, Hold(c) PROVE OrderOK'
  BY <1>8, OrderKept DEF Hold, Goto, Passed, Numbered, TypeOK
<1>9. ASSUME NEW c \in Gets, pc[c] \in {"holding", "minting", "put"}, UNCHANGED lockVars,
             Goto(c, "minting") \/ Goto(c, "put") \/ Goto(c, "seeded")
      PROVE OrderOK'
  BY <1>9, OrderKept DEF Goto, Passed, Numbered, TypeOK
<1>10. ASSUME NEW c \in Gets, Deadline(c) PROVE OrderOK'
  BY <1>10, OrderKept DEF Deadline, Passed, Numbered
<1>11. ASSUME NEW p \in Procs, Die(p) PROVE OrderOK'
  <2>1. \A x, y \in Gets : Passed(x, y)' /\ Numbered(y)' => Passed(x, y) /\ Numbered(y)
    BY <1>11 DEF Die, Passed, Numbered, TypeOK
  <2> QED
    BY <1>11, <2>1, OrderKept DEF Die
<1>12. CASE UNCHANGED vars
  BY <1>12, OrderKept DEF vars, Passed, Numbered
<1>13. ASSUME NEW c \in Gets, Get(c) PROVE OrderOK'
  BY <1>13, <1>1, <1>2 DEF Get, AnswerRows
<1>14. ASSUME NEW c \in Gets, ClaimRefused(c) \/ Wait(c) PROVE OrderOK'
  BY <1>14, <1>1, <1>2 DEF ClaimRefused, Wait
<1>15. ASSUME NEW c \in Gets, Create(c) PROVE OrderOK'
  BY <1>15, <1>1, <1>9 DEF Create, ReadRows, Put, SetSeed, Confirm, CriticalThrows, AnswerRows
<1> QED
  BY <1>3, <1>4, <1>5, <1>6, <1>7, <1>8, <1>10, <1>11, <1>12, <1>13, <1>14, <1>15 DEF Next, Acquire

-----------------------------------------------------------------------------
(* A GET that answers from the rows answers the one row there is.          *)
LEMMA AnswerRowsStore ==
  ASSUME IdentityInv, NEW c \in Gets, AnswerRows(c), UNCHANGED storeVars, pc[c] # "ended"
  PROVE  StoreOK' /\ OneIdentity'
<1> SUFFICES ASSUME listFailures = 0 PROVE StoreOK' /\ OneIdentity'
  BY DEF AnswerRows, End, StoreOK, OneIdentity
<1>1. \A r, s \in rows : r = s
  BY DEF IdentityInv, OneIdentity
<1>2. PICK r \in rows : rows = {r} /\ End(c, "row") /\ got' = [got EXCEPT ![c] = r]
  BY <1>1 DEF AnswerRows
<1>3. rows' = rows /\ pc' = [pc EXCEPT ![c] = "ended"] /\ answer' = [answer EXCEPT ![c] = "row"]
  BY <1>2 DEF End, Goto, storeVars
<1>4. StoreOK'
  BY <1>3 DEF IdentityInv, LockInv, TypeOK, StoreOK
<1>5. \A d \in Gets : /\ answer'[d] = "row" => rows' = {got'[d]}
                      /\ answer'[d] \notin {"multiple", "unobservable"}
  BY <1>2, <1>3 DEF IdentityInv, LockInv, TypeOK, OneIdentity
<1> QED
  BY <1>1, <1>3, <1>4, <1>5 DEF OneIdentity

(* A GET that ends without a row leaves the rest as it was.                *)
LEMMA EndStore ==
  ASSUME IdentityInv, NEW c \in Gets, End(c, "refused") \/ End(c, "rejected"),
         rows' = rows, got' = got
  PROVE  StoreOK' /\ OneIdentity'
BY DEF IdentityInv, LockInv, TypeOK, End, Goto, StoreOK, OneIdentity

(* A step that moves a GET outside the critical section, or changes the    *)
(* lock only, does not concern the store.                                  *)
LEMMA StoreKept ==
  ASSUME IdentityInv, rows' = rows, answer' = answer, got' = got,
         listFailures' = 0 => listFailures = 0,
         \A c \in Gets : pc'[c] \in {"minting", "put", "seeded"} => pc'[c] = pc[c]
  PROVE  StoreOK' /\ OneIdentity'
BY DEF IdentityInv, StoreOK, OneIdentity

(* Every step keeps the rows as the critical section needs them.           *)
LEMMA StoreStep == IdentityInv /\ [Next]_vars => StoreOK' /\ OneIdentity'
<1> SUFFICES ASSUME IdentityInv, [Next]_vars PROVE StoreOK' /\ OneIdentity'
  OBVIOUS
<1>0. OneHolder
  BY PassingExcludes DEF IdentityInv
<1> USE GetsAssumption DEF lockVars, storeVars
<1>1. ASSUME NEW c \in Gets, Get(c) PROVE StoreOK' /\ OneIdentity'
  <2>1. CASE AnswerRows(c)
    BY <1>1, <2>1, AnswerRowsStore DEF Get
  <2>2. CASE Goto(c, "creating") /\ UNCHANGED <<lockVars, answer, got>>
    BY <1>1, <2>2, StoreKept DEF Get, Goto, IdentityInv, LockInv, TypeOK
  <2> QED
    BY <1>1, <2>1, <2>2 DEF Get
<1>2. ASSUME NEW c \in Gets, Choose(c) \/ Number(c) \/ Publish(c) \/ List(c) \/ Hold(c)
      PROVE StoreOK' /\ OneIdentity'
  BY <1>2, StoreKept DEF Choose, Number, Publish, List, Hold, Goto, IdentityInv, LockInv, TypeOK
<1>3. ASSUME NEW c \in Gets, NumberUnlisted(c) PROVE StoreOK' /\ OneIdentity'
  BY <1>3 DEF NumberUnlisted, StoreOK, OneIdentity, IdentityInv, LockInv, TypeOK
<1>4. ASSUME NEW c \in Gets, ClaimRefused(c) PROVE StoreOK' /\ OneIdentity'
  BY <1>4, EndStore DEF ClaimRefused
<1>5. ASSUME NEW c \in Gets, Wait(c) PROVE StoreOK' /\ OneIdentity'
  <2>1. CASE End(c, "refused")
    BY <1>5, <2>1, EndStore DEF Wait
  <2>2. CASE Goto(c, "waiting") /\ UNCHANGED <<lockVars, answer>>
    BY <1>5, <2>2, StoreKept DEF Wait, Goto, IdentityInv, LockInv, TypeOK
  <2> QED
    BY <1>5, <2>1, <2>2 DEF Wait
<1>6. ASSUME NEW c \in Gets, NEW d \in Gets, NEW kind \in {"choosing", "ticket"}, ReadClaim(c, d, kind)
      PROVE StoreOK' /\ OneIdentity'
  BY <1>6, StoreKept DEF ReadClaim
<1>7. ASSUME NEW c \in Gets, ReadRows(c) PROVE StoreOK' /\ OneIdentity'
  <2>1. CASE AnswerRows(c)
    BY <1>7, <2>1, AnswerRowsStore DEF ReadRows
  <2>2. CASE rows = {} /\ Goto(c, "minting") /\ UNCHANGED <<lockVars, answer, got>>
    BY <1>7, <2>2 DEF ReadRows, Goto, StoreOK, OneIdentity, IdentityInv, LockInv, TypeOK
  <2> QED
    BY <1>7, <2>1, <2>2 DEF ReadRows
<1>8. ASSUME NEW c \in Gets, Put(c) PROVE StoreOK' /\ OneIdentity'
  <2> SUFFICES ASSUME listFailures = 0 PROVE StoreOK' /\ OneIdentity'
    BY <1>8 DEF Put, StoreOK, OneIdentity
  <2>1. \A d \in Gets : pc[d] \in {"minting", "put", "seeded"} => d = c
    BY <1>0, <1>8 DEF OneHolder, Critical, Put
  <2>2. rows = {} /\ rows' = {c}
    BY <1>8 DEF Put, IdentityInv, StoreOK
  <2>3. StoreOK'
    BY <1>8, <2>1, <2>2 DEF Put, Goto, StoreOK, IdentityInv, LockInv, TypeOK
  <2> QED
    BY <1>8, <2>2, <2>3 DEF Put, OneIdentity, IdentityInv
<1>9. ASSUME NEW c \in Gets, SetSeed(c) PROVE StoreOK' /\ OneIdentity'
  BY <1>9 DEF SetSeed, Goto, StoreOK, OneIdentity, IdentityInv, LockInv, TypeOK
<1>10. ASSUME NEW c \in Gets, Confirm(c) PROVE StoreOK' /\ OneIdentity'
  <2>1. CASE AnswerRows(c)
    BY <1>10, <2>1, AnswerRowsStore DEF Confirm
  <2>2. CASE rows = {} /\ End(c, "unobservable") /\ UNCHANGED got
    <3>1. listFailures # 0
      BY <1>10, <2>2 DEF Confirm, IdentityInv, StoreOK
    <3> QED
      BY <2>2, <3>1 DEF End, StoreOK, OneIdentity
  <2> QED
    BY <1>10, <2>1, <2>2 DEF Confirm
<1>11. ASSUME NEW c \in Gets, CriticalThrows(c) PROVE StoreOK' /\ OneIdentity'
  <2>1. CASE rows' = rows
    BY <1>11, <2>1, EndStore DEF CriticalThrows
  <2>2. CASE pc[c] = "minting" /\ rows' = rows \cup {c}
    <3> SUFFICES ASSUME listFailures = 0 PROVE StoreOK' /\ OneIdentity'
      BY <1>11 DEF CriticalThrows, End, StoreOK, OneIdentity
    <3>1. \A d \in Gets : pc[d] \in {"minting", "put", "seeded"} => d = c
      BY <1>0, <2>2 DEF OneHolder, Critical
    <3>2. rows = {} /\ rows' = {c}
      BY <2>2 DEF IdentityInv, StoreOK
    <3>3. StoreOK'
      BY <1>11, <3>1, <3>2 DEF CriticalThrows, End, Goto, StoreOK, IdentityInv, LockInv, TypeOK
    <3>4. \A d \in Gets : answer'[d] # "row" /\ answer'[d] \notin {"multiple", "unobservable"}
      BY <1>11, <3>2 DEF CriticalThrows, End, OneIdentity, IdentityInv, LockInv, TypeOK
    <3> QED
      BY <3>2, <3>3, <3>4 DEF OneIdentity
  <2> QED
    BY <1>11, <2>1, <2>2 DEF CriticalThrows
<1>12. ASSUME NEW c \in Gets, Deadline(c) PROVE StoreOK' /\ OneIdentity'
  BY <1>12, StoreKept DEF Deadline
<1>13. ASSUME NEW p \in Procs, Die(p) PROVE StoreOK' /\ OneIdentity'
  BY <1>13, StoreKept DEF Die
<1>14. CASE UNCHANGED vars
  BY <1>14, StoreKept DEF vars
<1> QED
  BY <1>1, <1>2, <1>3, <1>4, <1>5, <1>6, <1>7, <1>8, <1>9, <1>10, <1>11, <1>12, <1>13, <1>14
  DEF Next, Acquire, Create

-----------------------------------------------------------------------------
(* The inductive invariant of the lock and its critical section.           *)
THEOREM IdentityInvariant == Spec => []IdentityInv
<1>1. IdentityInv /\ [Next]_vars => IdentityInv'
  BY TypeStep, ClaimStep, OrderStep, StoreStep DEF IdentityInv, LockInv
<1> QED
  BY InitInv, <1>1, PTL DEF Spec

(* Type correctness, for any number of GETs and processes.                 *)
THEOREM IdentityTypeCorrect == Spec => []TypeOK
<1>1. IdentityInv => TypeOK
  BY DEF IdentityInv, LockInv
<1> QED
  BY IdentityInvariant, <1>1, PTL

(* Mutual exclusion of the ticket lock.                                    *)
THEOREM TicketLockExcludes == Spec => []OneHolder
<1>1. IdentityInv => OneHolder
  BY PassingExcludes DEF IdentityInv
<1> QED
  BY IdentityInvariant, <1>1, PTL

(* The ticket lock serves in ticket order.                                 *)
THEOREM TicketLockIsOrdered == Spec => []TicketOrder
<1>1. IdentityInv => TicketOrder
  BY PassingOrders DEF IdentityInv
<1> QED
  BY IdentityInvariant, <1>1, PTL

(* Concurrent first-boot GETs mint one identity and agree on it.           *)
THEOREM IdentityIsUnique == Spec => []OneIdentity
<1>1. IdentityInv => OneIdentity
  BY DEF IdentityInv
<1> QED
  BY IdentityInvariant, <1>1, PTL
=============================================================================
