--------------------------- MODULE CommandChannel ---------------------------
(***************************************************************************)
(* What the link between the daemon and the Arduino promises: commands are *)
(* executed in the order in which they were requested and each at most     *)
(* once; nothing is executed that was not requested; and as long as no     *)
(* byte is lost no command is skipped.  Module CommandLink implements it.  *)
(***************************************************************************)
EXTENDS Naturals, Sequences

CONSTANT Order (* the commands with their parameters *)

VARIABLES
  requested, (* the commands requested                                       *)
  executed,  (* the commands executed                                        *)
  turn,      (* how many of requested have had their turn                    *)
  damaged    (* whether bytes have been lost                                 *)

vars == <<requested, executed, turn, damaged>>

Init ==
  /\ requested = <<>>
  /\ executed = <<>>
  /\ turn = 0
  /\ damaged = FALSE

Request ==
  /\ \E o \in Order : requested' = Append(requested, o)
  /\ UNCHANGED <<executed, turn, damaged>>

Execute ==
  /\ turn < Len(requested)
  /\ turn' = turn + 1
  /\ executed' = Append(executed, requested[turn + 1])
  /\ UNCHANGED <<requested, damaged>>

Damage ==
  /\ damaged' = TRUE
  /\ UNCHANGED <<requested, executed, turn>>

(* After damage a command may be executed that is not the next one. *)
ExecuteLater ==
  /\ damaged
  /\ \E k \in turn + 1 .. Len(requested) :
       /\ turn' = k
       /\ executed' = Append(executed, requested[k])
  /\ UNCHANGED <<requested, damaged>>

Next == Request \/ Execute \/ Damage \/ ExecuteLater

Spec == Init /\ [][Next]_vars
=============================================================================
