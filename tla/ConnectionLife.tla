---------------------------- MODULE ConnectionLife ----------------------------
(***************************************************************************)
(* The life of one client connection, as LibreSocketFactory sees it: it is *)
(* accepted once, at most, and becomes a member then; it may be dropped,   *)
(* already in the step that accepts it, and in the end it is lost, which   *)
(* is when it stops being a member.                                        *)
(*                                                                         *)
(* Connection implements this specification, and module Websocket keeps    *)
(* to it for each of its clients.                                          *)
(***************************************************************************)
VARIABLES
  conn,  (* "new", "open", "dropped", "denied" or "lost" *)
  member (* is the connection one of the subscribers?    *)

vars == <<conn, member>>

Init == conn = "new" /\ ~member

Accept == conn = "new" /\ conn' = "open" /\ member' = TRUE
Refuse == conn = "new" /\ conn' = "denied" /\ UNCHANGED member

(* A member that is never served: closed as soon as it has been accepted.  *)
AcceptInVain == conn = "new" /\ conn' = "dropped" /\ member' = TRUE

Drop   == conn = "open" /\ conn' = "dropped" /\ UNCHANGED member
Lose   == conn # "lost" /\ conn' = "lost" /\ member' = FALSE

Next == Accept \/ AcceptInVain \/ Refuse \/ Drop \/ Lose

Spec == Init /\ [][Next]_vars
=============================================================================
