---------------------------- MODULE MCCommandLink ----------------------------
(* Model values for CommandLink: a command without parameter, and read_pid   *)
(* with parameters that look like the bytes of the framing (17 and 34) and   *)
(* with one that is not a byte.                                              *)
EXTENDS CommandLink, Bitwise

MCXor(a, b) == a ^^ b

MCRequests == {<<1, -1>>, <<4, 17>>, <<4, 34>>, <<4, 300>>}
=============================================================================
