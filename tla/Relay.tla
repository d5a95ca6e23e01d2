-------------------------------- MODULE Relay --------------------------------
(***************************************************************************)
(* What the daemon promises about the data of the Arduino, without         *)
(* threads, queues and callbacks: there is one log; the lines of the log   *)
(* are published one after the other, in the order of the log and each at  *)
(* most once; what is published goes to everybody connected at that        *)
(* moment.  Module Linuino implements this.                                *)
(***************************************************************************)
EXTENDS Naturals, Sequences

CONSTANTS Client, MaxLines, NonAscii

VARIABLES
  log,       (* the lines recorded                                           *)
  published, (* the first so many lines of the log have had their turn       *)
  live,      (* clients are served: from then on no turn is passed over      *)
  member,    (* the clients connected                                        *)
  view       (* per client: what it received                                 *)

vars == <<log, published, live, member, view>>

Reply == 0
Message == 0..MaxLines

TypeOK ==
  /\ log \in Seq(1..MaxLines)
  /\ published \in 0..Len(log)
  /\ live \in BOOLEAN
  /\ member \in SUBSET Client
  /\ view \in [Client -> Seq(Message)]

Init ==
  /\ log = <<>>
  /\ published = 0
  /\ live = FALSE
  /\ member = {}
  /\ view = [c \in Client |-> <<>>]

LastRecorded == IF log = <<>> THEN 0 ELSE log[Len(log)]

Record ==
  /\ \E n \in LastRecorded + 1 .. MaxLines : log' = Append(log, n)
  /\ UNCHANGED <<published, live, member, view>>

SendToMembers(m) ==
  view' = [c \in Client |-> IF c \in member THEN Append(view[c], m)
                                            ELSE view[c]]

(* The next line of the log has its turn.  Text that is not ASCII cannot be  *)
(* sent: its turn passes.                                                    *)
Publish ==
  /\ live
  /\ published < Len(log)
  /\ published' = published + 1
  /\ LET n == log[published + 1]
     IN  IF n \in NonAscii THEN UNCHANGED view ELSE SendToMembers(n)
  /\ UNCHANGED <<log, live, member>>

(* While the daemon starts, lines are recorded that are never published. *)
PassOver ==
  /\ ~live
  /\ published < Len(log)
  /\ published' = published + 1
  /\ UNCHANGED <<log, live, member, view>>

GoLive ==
  /\ live' = TRUE
  /\ UNCHANGED <<log, published, member, view>>

Answer ==
  /\ SendToMembers(Reply)
  /\ UNCHANGED <<log, published, live, member>>

Join(c) ==
  /\ c \notin member
  /\ view[c] = <<>>
  /\ member' = member \union {c}
  /\ UNCHANGED <<log, published, live, view>>

Leave(c) ==
  /\ member' = member \ {c}
  /\ UNCHANGED <<log, published, live, view>>

Next ==
  \/ Record \/ Publish \/ PassOver \/ GoLive \/ Answer
  \/ \E c \in Client : Join(c) \/ Leave(c)

Spec == Init /\ [][Next]_vars
=============================================================================
