--------------------------- MODULE MCAccountSync ---------------------------
(* One board, one request at a time, one round of the timer at a time.     *)
EXTENDS AccountSync
=============================================================================
