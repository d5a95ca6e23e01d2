----------------------------- MODULE MCLogStore -----------------------------
(* Model values for LogStore: ids that exist, that may have gone, that never *)
(* exist, and those below 1.                                                 *)
EXTENDS LogStore

MCIds == -1..3
=============================================================================
