------------------------------ MODULE ThreadCalls ------------------------------
(***************************************************************************)
(* What callFromThread promises: the calls handed to the reactor run once  *)
(* each, in order, in the reactor's thread, and every one of them does run.*)
(* A phase of the reactor runs the calls that are there when it begins.    *)
(*                                                                         *)
(* Reactor implements this specification, and module Websocket uses it:    *)
(* its fairness is the fairness stated here.                               *)
(***************************************************************************)
EXTENDS Naturals, Sequences

CONSTANT Call (* the calls there are *)

VARIABLES
  handed, (* the calls handed over, in order      *)
  ran,    (* how many of them have been run       *)
  batch   (* how many the phase has still to run  *)

vars == <<handed, ran, batch>>

Init == handed = <<>> /\ ran = 0 /\ batch = 0

Hand ==
  /\ \E call \in Call : handed' = Append(handed, call)
  /\ UNCHANGED <<ran, batch>>

RunCalls ==
  /\ batch = 0
  /\ ran < Len(handed)
  /\ batch' = Len(handed) - ran
  /\ UNCHANGED <<handed, ran>>

RunCall ==
  /\ batch > 0
  /\ batch' = batch - 1
  /\ ran' = ran + 1
  /\ UNCHANGED handed

Next == Hand \/ RunCalls \/ RunCall

Spec == Init /\ [][Next]_vars

(* Weak fairness of RunCalls and RunCall, written out with their guards, so  *)
(* that TLC need not compute ENABLED under a refinement mapping.             *)
Fairness ==
  /\ []<>~(batch = 0 /\ ran < Len(handed)) \/ []<><<RunCalls>>_vars
  /\ []<>~(batch > 0) \/ []<><<RunCall>>_vars

FairSpec == Spec /\ Fairness
=============================================================================
