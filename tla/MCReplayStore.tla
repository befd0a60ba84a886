---------------------------- MODULE MCReplayStore ----------------------------
(* One request presented three times, on two threads, and a second request *)
(* that fills a thread's memory.                                           *)
EXTENDS ReplayStore, TLC
CONSTANTS p1, p2, p3, q1, nonce, other, t1, t2
MCKeyOf == p1 :> nonce @@ p2 :> nonce @@ p3 :> nonce @@ q1 :> other
MCThreadOf == p1 :> t1 @@ p2 :> t2 @@ p3 :> t1 @@ q1 :> t1
MCSignedAt == nonce :> 1 @@ other :> 3
=============================================================================
