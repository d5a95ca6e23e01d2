------------------------------- MODULE Commands -------------------------------
(***************************************************************************)
(* What the daemon does with the messages of its clients: onMessage        *)
(* (linuino/websocket.py) and Commands.validate_cmd, execute_cmd and       *)
(* request_cmd (linuino/commands.py).  All of it runs in the reactor       *)
(* thread, one message at a time.                                          *)
(*                                                                         *)
(* A message is the sequence of its words, split at single spaces.  What   *)
(* the commands on logs do to the files is in module LogStore, what the    *)
(* bytes of a packet go through in module CommandLink; here it matters     *)
(* which of them are called, and who hears of it.                          *)
(***************************************************************************)
EXTENDS Integers, Sequences

CONSTANTS
  Client,     (* the connections                                             *)
  Word,       (* the words clients use                                       *)
  Number,     (* the words int() accepts, and the integers they mean         *)
  NonAscii,   (* words that are not ASCII                                    *)
  MaxMessages (* bound: number of messages                                   *)

ASSUME CommandsAssumption ==
  /\ NonAscii \subseteq Word /\ DOMAIN Number \subseteq Word
  /\ \A w \in DOMAIN Number : Number[w] \in Int
  /\ MaxMessages \in Nat

VARIABLES
  connected, (* the clients that are connected, who all hear a broadcast     *)
  feed,      (* what was broadcast: error texts, results                     *)
  packets,   (* the command and parameter bytes written to the tty           *)
  removed,   (* the ids remove_log was called with                           *)
  requests,  (* history: the calls of request_cmd                            *)
  last       (* history: the last message                                    *)

vars == <<connected, feed, packets, removed, requests, last>>

NoParameter == -1
Byte == 0..255

Arduino(id, takes) == [byteId |-> id, parameter |-> takes]
Internal(takes)    == [byteId |-> -1, parameter |-> takes]

valid_cmds ==
  [reset          |-> Arduino(1, FALSE), available_pids |-> Arduino(2, FALSE),
   read_all       |-> Arduino(3, FALSE), read_pid       |-> Arduino(4, TRUE),
   read_car       |-> Arduino(5, FALSE), read_dtc       |-> Arduino(6, FALSE),
   delete_dtc     |-> Arduino(7, FALSE), available_logs |-> Internal(FALSE),
   read_log       |-> Internal(TRUE),    delete_log     |-> Internal(TRUE),
   help           |-> Internal(FALSE)]

(* "command" and "parameter" are the two error texts of validate_cmd;        *)
(* "index" and "codec" stand for what Python says when building one of them  *)
(* raises: the text quotes a word that is missing or is not ASCII.           *)
Error == {"command", "parameter", "index", "codec"}

Message == UNION {[1..n -> Word] : n \in 1..2}
Sent    == [number : 1..MaxMessages, sender : Client, words : Message]
NoMessage == [number |-> 0]

TypeOK ==
  /\ connected \subseteq Client
  /\ feed \in Seq(Error \union {"result"})
  /\ packets \in Seq(Byte \X Byte)
  /\ removed \in Seq(Int)
  /\ requests \in Seq((1..7) \X Int)
  /\ last = NoMessage \/ last \in Sent

Init ==
  /\ connected = Client
  /\ feed = <<>> /\ packets = <<>> /\ removed = <<>> /\ requests = <<>>
  /\ last = NoMessage

-----------------------------------------------------------------------------
Raise(error) == [error |-> error]

Quoting(word, error) == IF word \in NonAscii THEN "codec" ELSE error

(* The words after the first two are not looked at. *)
parameterError(cmd) ==
  IF Len(cmd) < 2 THEN "index"
  ELSE IF cmd[2] \in DOMAIN Number THEN "none"
  ELSE Quoting(cmd[2], "parameter")

Valid(name, value) ==
  [error |-> "none", name |-> name, byteId |-> valid_cmds[name].byteId,
   value |-> value]

(* Mutant: a bad parameter is not raised, cmdValue stays -1. *)
validate_cmd_lenient(cmd) ==
  IF cmd[1] \notin DOMAIN valid_cmds THEN Raise(Quoting(cmd[1], "command"))
  ELSE IF valid_cmds[cmd[1]].parameter /\ parameterError(cmd) = "none"
  THEN Valid(cmd[1], Number[cmd[2]])
  ELSE Valid(cmd[1], NoParameter)

(* Mutant: a parameter is taken whether the command has one or not. *)
validate_cmd_any(cmd) ==
  IF cmd[1] \notin DOMAIN valid_cmds THEN Raise(Quoting(cmd[1], "command"))
  ELSE IF parameterError(cmd) = "none" THEN Valid(cmd[1], Number[cmd[2]])
  ELSE IF valid_cmds[cmd[1]].parameter THEN Raise(parameterError(cmd))
  ELSE Valid(cmd[1], NoParameter)

validate_cmd(cmd) ==
  IF cmd[1] \notin DOMAIN valid_cmds THEN Raise(Quoting(cmd[1], "command"))
  ELSE IF ~valid_cmds[cmd[1]].parameter THEN Valid(cmd[1], NoParameter)
  ELSE IF parameterError(cmd) # "none" THEN Raise(parameterError(cmd))
  ELSE Valid(cmd[1], Number[cmd[2]])

broadcast(text) == feed' = Append(feed, text)

(* The port may not open, and a value that is no byte raises in write: that  *)
(* is printed, and nobody is told.                                           *)
request_cmd(byteId, value) ==
  LET parameter_byte == IF value = NoParameter THEN 255 ELSE value
  IN  /\ \/ UNCHANGED packets
         \/ /\ parameter_byte \in Byte
            /\ packets' = Append(packets, <<byteId, parameter_byte>>)
      /\ requests' = Append(requests, <<byteId, value>>)

(* Mutant: help, too, forgets to return its result. *)
Encodable_nothing(name) ==
  CASE name \in {"help", "delete_log"} -> {FALSE}
    [] OTHER                           -> BOOLEAN

(* Can broadcast encode what execute_cmd returns?  Not the None of           *)
(* delete_log; the other commands on logs may have raised (no directory), or *)
(* return text that is not ASCII.                                            *)
Encodable(name) ==
  CASE name = "help"       -> {TRUE}
    [] name = "delete_log" -> {FALSE}
    [] OTHER               -> BOOLEAN

(* An exception leaves onMessage and the sender is disconnected. *)
execute_cmd(c, name, value) ==
  /\ removed' = IF name = "delete_log" THEN Append(removed, value) ELSE removed
  /\ \E encodable \in Encodable(name) :
       IF encodable THEN broadcast("result") /\ UNCHANGED connected
                    ELSE connected' = connected \ {c} /\ UNCHANGED feed

(* A binary message is only printed, and changes nothing. *)
onMessage(c, words) ==
  LET cmd == validate_cmd(words)
  IN  /\ c \in connected
      /\ last.number < MaxMessages
      /\ last' = [number |-> last.number + 1, sender |-> c, words |-> words]
      /\ CASE cmd.error # "none" ->
                /\ broadcast(cmd.error)
                /\ UNCHANGED <<connected, packets, removed, requests>>
           [] cmd.error = "none" /\ cmd.byteId # -1 ->
                /\ request_cmd(cmd.byteId, cmd.value)
                /\ UNCHANGED <<connected, feed, removed>>
           [] cmd.error = "none" /\ cmd.byteId = -1 ->
                /\ execute_cmd(c, cmd.name, cmd.value)
                /\ UNCHANGED <<packets, requests>>

Next == \E c \in Client, words \in Message : onMessage(c, words)

Spec == Init /\ [][Next]_vars

-----------------------------------------------------------------------------
(* What the list of commands asks of a message. *)
IsCommand(words) ==
  /\ words[1] \in DOMAIN valid_cmds
  /\ valid_cmds[words[1]].parameter =>
       Len(words) >= 2 /\ words[2] \in DOMAIN Number

(* A message that is no command, or lacks its parameter, is answered once,   *)
(* to everybody, and does nothing else: in particular it costs nobody the    *)
(* connection, even when building the error text fails (commands.py 76-118,  *)
(* websocket.py 49-55).  It does fail for a missing parameter: the clients   *)
(* are told "index", not "parameter".                                        *)
RejectedIsHarmless ==
  [][ ~IsCommand(last'.words) =>
        /\ Len(feed') = Len(feed) + 1
        /\ UNCHANGED <<connected, packets, removed>> ]_vars

(* request_cmd is called with what module CommandLink assumes of it: no      *)
(* parameter, except for read_pid; and what reaches the tty are bytes (see   *)
(* TypeOK), whatever number the client gave (commands.py 95-118, 162-181,    *)
(* websocket.py 57-59).  A read_pid of -1 goes out as if it had no parameter.*)
RequestsFitTheLink ==
  /\ TypeOK
  /\ \A i \in 1..Len(requests) :
       \/ requests[i][1] = valid_cmds.read_pid.byteId
       \/ requests[i][1] \in 1..7 /\ requests[i][2] = NoParameter

(* Nobody but the sender of a command on logs can be disconnected by it, and *)
(* whoever is, no command has been sent on and nothing broadcast             *)
(* (commands.py 120-149, websocket.py 57-63).                                *)
OnlyItsSenderLeaves ==
  [][ connected' # connected =>
        /\ connected \ connected' = {last'.sender}
        /\ last'.words[1] \in {"available_logs", "read_log", "delete_log"}
        /\ UNCHANGED <<feed, packets>> ]_vars

=============================================================================
