----------------------------- MODULE AtomicMemory -----------------------------
(***************************************************************************)
(* What the locked write path of the Memory table promises: a group of     *)
(* checked writes is applied to the stored rows in one indivisible step,   *)
(* each write of the group was decided on a row that no other group has    *)
(* replaced since (or on a row written earlier by its own group), and no   *)
(* write is applied twice.                                                 *)
(*                                                                         *)
(* Single puts from outside the locked path land at any moment.  Against   *)
(* those nothing is promised but this: a row is only kept from a group     *)
(* that writes it by a put its writes were not decided on.                 *)
(***************************************************************************)
CONSTANTS Ids, Writes, WriteId, Puts, PutId, Fresh

VARIABLES
  row,      \* the write or put each stored row holds, or Fresh
  applied,  \* the writes applied so far
  basis,    \* for an applied write, the row it was decided on
  put,      \* the puts stored so far
  since     \* what each row has held since a group last wrote it

Init ==
  /\ row = [i \in Ids |-> Fresh]
  /\ applied = {}
  /\ basis = [w \in Writes |-> Fresh]
  /\ put = {}
  /\ since = [i \in Ids |-> {Fresh}]

Values == Writes \cup Puts \cup {Fresh}

(* The group W writes row i: the row becomes one of its writes, or stays   *)
(* the put that came after their decision.                                 *)
Replace(W, i) ==
  /\ \/ \E w \in W : WriteId[w] = i /\ row'[i] = w
     \/ /\ row'[i] = row[i] /\ row[i] \in put
        /\ \A w \in W : WriteId[w] = i => basis'[w] # row[i]
  /\ since'[i] = {row'[i]}

(* Apply the group W.                                                      *)
Apply(W) ==
  /\ W \cap applied = {}
  /\ applied' = applied \cup W
  /\ \A i \in Ids : IF \E w \in W : WriteId[w] = i
                      THEN Replace(W, i)
                      ELSE row'[i] = row[i] /\ since'[i] = since[i]
  /\ row' \in [Ids -> Values] /\ since' \in [Ids -> SUBSET Values]
  /\ \A w \in W : basis'[w] \in since[WriteId[w]] \cup W
  /\ \A w \in Writes \ W : basis'[w] = basis[w]
  /\ basis' \in [Writes -> Values]
  /\ put' = put

(* A put from outside is stored.                                           *)
Put(p) ==
  /\ p \notin put
  /\ put' = put \cup {p}
  /\ row' = [row EXCEPT ![PutId[p]] = p]
  /\ since' = [since EXCEPT ![PutId[p]] = @ \cup {p}]
  /\ UNCHANGED <<applied, basis>>

Next == (\E W \in SUBSET Writes : Apply(W)) \/ (\E p \in Puts : Put(p))

Spec == Init /\ [][Next]_<<row, applied, basis, put, since>>
=============================================================================
