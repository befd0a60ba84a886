----------------------------- MODULE MCWriteBack -----------------------------
(* A counting call and a stamping call on a row that other writers rewrite *)
(* from an older read, delete and replace.                                 *)
EXTENDS WriteBack
CONSTANTS cite, backfill
=============================================================================
