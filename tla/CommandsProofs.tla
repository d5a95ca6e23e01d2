---------------------------- MODULE CommandsProofs ----------------------------
(***************************************************************************)
(* Theorems about module Commands, for any clients, words and numbers: what *)
(* validate_cmd lets through, and from that what a message can do.         *)
(***************************************************************************)
EXTENDS Commands, TLAPS

Byteids == 1..7

(* A message is a sequence, so its length is a number.                       *)
LEMMA MessageLength == ASSUME NEW words \in Message PROVE Len(words) \in Nat
<1>1. PICK n \in 1..2 : words \in [1..n -> Word]
  BY DEF Message
<1>2. words \in Seq(Word)
  BY <1>1
<1> QED BY <1>2

(* The list of commands: only read_pid takes a parameter to the sketch, and  *)
(* the internal commands are the three on logs and help.                     *)
LEMMA ValidCmds ==
  ASSUME NEW name \in DOMAIN valid_cmds
  PROVE  /\ valid_cmds[name].byteId \in Byteids \union {-1}
         /\ \/ valid_cmds[name].byteId \in {-1, valid_cmds.read_pid.byteId}
            \/ ~valid_cmds[name].parameter
         /\ valid_cmds[name].byteId = -1 =>
              name \in {"available_logs", "read_log", "delete_log", "help"}
<1>0. valid_cmds.read_pid.byteId = 4 /\ valid_cmds.read_pid.parameter = TRUE
  BY DEF valid_cmds, Arduino
<1>1. CASE name = "reset"
  <2>1. valid_cmds[name].byteId = 1 /\ valid_cmds[name].parameter = FALSE
    BY <1>1 DEF valid_cmds, Arduino
  <2> QED BY <1>0, <2>1 DEF Byteids
<1>2. CASE name = "available_pids"
  <2>1. valid_cmds[name].byteId = 2 /\ valid_cmds[name].parameter = FALSE
    BY <1>2 DEF valid_cmds, Arduino
  <2> QED BY <1>0, <2>1 DEF Byteids
<1>3. CASE name = "read_all"
  <2>1. valid_cmds[name].byteId = 3 /\ valid_cmds[name].parameter = FALSE
    BY <1>3 DEF valid_cmds, Arduino
  <2> QED BY <1>0, <2>1 DEF Byteids
<1>4. CASE name = "read_pid"
  <2>1. valid_cmds[name].byteId = 4 /\ valid_cmds[name].parameter = TRUE
    BY <1>4 DEF valid_cmds, Arduino
  <2> QED BY <1>0, <2>1 DEF Byteids
<1>5. CASE name = "read_car"
  <2>1. valid_cmds[name].byteId = 5 /\ valid_cmds[name].parameter = FALSE
    BY <1>5 DEF valid_cmds, Arduino
  <2> QED BY <1>0, <2>1 DEF Byteids
<1>6. CASE name = "read_dtc"
  <2>1. valid_cmds[name].byteId = 6 /\ valid_cmds[name].parameter = FALSE
    BY <1>6 DEF valid_cmds, Arduino
  <2> QED BY <1>0, <2>1 DEF Byteids
<1>7. CASE name = "delete_dtc"
  <2>1. valid_cmds[name].byteId = 7 /\ valid_cmds[name].parameter = FALSE
    BY <1>7 DEF valid_cmds, Arduino
  <2> QED BY <1>0, <2>1 DEF Byteids
<1>8. CASE name \in {"available_logs", "read_log", "delete_log", "help"}
  <2>1. valid_cmds[name].byteId = -1
    BY <1>8 DEF valid_cmds, Internal
  <2> QED BY <1>8, <2>1
<1> QED BY <1>1, <1>2, <1>3, <1>4, <1>5, <1>6, <1>7, <1>8 DEF valid_cmds

(* validate_cmd raises one of its errors exactly when the message is no      *)
(* command; otherwise the value is none, or a number for who takes one.      *)
LEMMA Validated ==
  ASSUME NEW words \in Message
  PROVE  \/ /\ ~IsCommand(words)
            /\ validate_cmd(words).error \in Error
         \/ /\ IsCommand(words)
            /\ validate_cmd(words).error = "none"
            /\ validate_cmd(words).name = words[1]
            /\ validate_cmd(words).byteId = valid_cmds[words[1]].byteId
            /\ validate_cmd(words).value \in Int
            /\ \/ validate_cmd(words).value = NoParameter
               \/ valid_cmds[words[1]].parameter
<1>0. Len(words) \in Nat
  BY MessageLength
<1>1. CASE words[1] \notin DOMAIN valid_cmds
  <2>1. validate_cmd(words) = Raise(Quoting(words[1], "command"))
    BY <1>1 DEF validate_cmd
  <2> QED BY <1>1, <2>1 DEF IsCommand, Raise, Quoting, Error
<1>2. CASE words[1] \in DOMAIN valid_cmds /\ ~valid_cmds[words[1]].parameter
  <2>1. validate_cmd(words) = Valid(words[1], NoParameter)
    BY <1>2 DEF validate_cmd
  <2> QED BY <1>2, <2>1 DEF IsCommand, Valid, NoParameter
<1>3. CASE /\ words[1] \in DOMAIN valid_cmds /\ valid_cmds[words[1]].parameter
           /\ Len(words) < 2
  <2>0. ~(Len(words) >= 2)
    BY <1>0, <1>3
  <2>1. parameterError(words) = "index" /\ ~IsCommand(words)
    <3>1. ~IsCommand(words)
      BY <2>0, <1>3, Zenon DEF IsCommand
    <3>2. parameterError(words) = "index"
      BY <1>3 DEF parameterError
    <3> QED BY <3>1, <3>2
  <2>2. validate_cmd(words) = Raise("index")
    BY <1>3, <2>1 DEF validate_cmd
  <2> QED BY <2>1, <2>2 DEF Raise, Error
<1>4. CASE /\ words[1] \in DOMAIN valid_cmds /\ valid_cmds[words[1]].parameter
           /\ ~(Len(words) < 2) /\ words[2] \notin DOMAIN Number
  <2>1. /\ parameterError(words) = Quoting(words[2], "parameter")
        /\ ~IsCommand(words)
    BY <1>0, <1>4 DEF parameterError, IsCommand
  <2>2. parameterError(words) \in {"codec", "parameter"}
    BY <2>1 DEF Quoting
  <2>3. validate_cmd(words) = Raise(parameterError(words))
    BY <1>4, <2>2 DEF validate_cmd
  <2> QED BY <2>1, <2>2, <2>3 DEF Raise, Error
<1>5. CASE /\ words[1] \in DOMAIN valid_cmds /\ valid_cmds[words[1]].parameter
           /\ ~(Len(words) < 2) /\ words[2] \in DOMAIN Number
  <2>1. parameterError(words) = "none" /\ IsCommand(words)
    BY <1>0, <1>5 DEF parameterError, IsCommand
  <2>2. validate_cmd(words) = Valid(words[1], Number[words[2]])
    BY <1>5, <2>1 DEF validate_cmd
  <2>3. Number[words[2]] \in Int
    BY <1>5, CommandsAssumption
  <2> QED BY <1>5, <2>1, <2>2, <2>3 DEF Valid
<1> QED BY <1>1, <1>2, <1>3, <1>4, <1>5

(* validate_cmd's error decides what onMessage does with a message.          *)
LEMMA Acts ==
  ASSUME NEW c \in Client, NEW words \in Message, onMessage(c, words)
  PROVE  /\ c \in connected
         /\ last' = [number |-> last.number + 1, sender |-> c, words |-> words]
         /\ \/ /\ ~IsCommand(words)
               /\ validate_cmd(words).error \in Error
               /\ broadcast(validate_cmd(words).error)
               /\ UNCHANGED <<connected, packets, removed, requests>>
            \/ /\ IsCommand(words)
               /\ valid_cmds[words[1]].byteId # -1
               /\ request_cmd(valid_cmds[words[1]].byteId,
                              validate_cmd(words).value)
               /\ UNCHANGED <<connected, feed, removed>>
            \/ /\ IsCommand(words)
               /\ valid_cmds[words[1]].byteId = -1
               /\ execute_cmd(c, words[1], validate_cmd(words).value)
               /\ UNCHANGED <<packets, requests>>
<1> DEFINE cmd == validate_cmd(words)
<1>1. /\ c \in connected
      /\ last' = [number |-> last.number + 1, sender |-> c, words |-> words]
      /\ CASE cmd.error # "none" ->
                /\ broadcast(cmd.error)
                /\ UNCHANGED <<connected, packets, removed, requests>>
           [] cmd.error = "none" /\ cmd.byteId # -1 ->
                /\ request_cmd(cmd.byteId, cmd.value)
                /\ UNCHANGED <<connected, feed, removed>>
           [] cmd.error = "none" /\ cmd.byteId = -1 ->
                /\ execute_cmd(c, cmd.name, cmd.value)
                /\ UNCHANGED <<packets, requests>>
  BY DEF onMessage
<1> HIDE DEF cmd
<1>2. \/ ~IsCommand(words) /\ cmd.error \in Error
      \/ /\ IsCommand(words) /\ cmd.error = "none"
         /\ cmd.name = words[1] /\ cmd.byteId = valid_cmds[words[1]].byteId
  BY Validated DEF cmd
<1>3. CASE ~IsCommand(words) /\ cmd.error \in Error
  <2>1. cmd.error # "none"
    BY <1>3 DEF Error
  <2> QED BY <1>1, <1>3, <2>1 DEF cmd
<1>4. CASE /\ IsCommand(words) /\ cmd.error = "none" /\ cmd.name = words[1]
           /\ cmd.byteId = valid_cmds[words[1]].byteId /\ cmd.byteId # -1
  BY <1>1, <1>4, Zenon DEF cmd
<1>5. CASE /\ IsCommand(words) /\ cmd.error = "none" /\ cmd.name = words[1]
           /\ cmd.byteId = valid_cmds[words[1]].byteId /\ cmd.byteId = -1
  BY <1>1, <1>5, Zenon DEF cmd
<1> QED BY <1>2, <1>3, <1>4, <1>5

-----------------------------------------------------------------------------
(* The request is of one of the seven commands, and has a parameter only if  *)
(* it is read_pid.                                                           *)
Fitting(request) ==
  \/ request[1] = valid_cmds.read_pid.byteId
  \/ request[1] \in 1..7 /\ request[2] = NoParameter

(* So does every request onMessage makes.                                    *)
LEMMA RequestFits ==
  ASSUME NEW words \in Message, IsCommand(words),
         valid_cmds[words[1]].byteId # -1
  PROVE  LET request == <<valid_cmds[words[1]].byteId,
                          validate_cmd(words).value>>
         IN  request \in (1..7) \X Int /\ Fitting(request)
<1>1. words[1] \in DOMAIN valid_cmds
  BY DEF IsCommand
<1>2. /\ valid_cmds[words[1]].byteId \in 1..7
      /\ \/ valid_cmds[words[1]].byteId = valid_cmds.read_pid.byteId
         \/ ~valid_cmds[words[1]].parameter
  BY <1>1, ValidCmds DEF Byteids
<1>3. /\ validate_cmd(words).value \in Int
      /\ \/ validate_cmd(words).value = NoParameter
         \/ valid_cmds[words[1]].parameter
  BY Validated
<1> QED BY <1>2, <1>3 DEF Fitting

(* Append stays in the set of sequences.                                     *)
LEMMA AppendTo == ASSUME NEW S, NEW s \in Seq(S), NEW x \in S
                  PROVE  Append(s, x) \in Seq(S)
OBVIOUS

(* What Append adds to a sequence of fitting requests. *)
LEMMA AppendFits ==
  ASSUME NEW s \in Seq((1..7) \X Int), NEW r \in (1..7) \X Int,
         \A i \in 1..Len(s) : Fitting(s[i]), Fitting(r)
  PROVE  \A i \in 1..Len(Append(s, r)) : Fitting(Append(s, r)[i])
<1>1. /\ Len(Append(s, r)) = Len(s) + 1 /\ Len(s) \in Nat
      /\ Append(s, r)[Len(s) + 1] = r
      /\ \A i \in 1..Len(s) : Append(s, r)[i] = s[i]
  OBVIOUS
<1>2. SUFFICES ASSUME NEW i \in 1..Len(Append(s, r))
               PROVE  Fitting(Append(s, r)[i])
  OBVIOUS
<1>3. i \in 1..Len(s) \/ i = Len(s) + 1
  BY <1>1
<1> QED BY <1>1, <1>3

(* The counter of messages stays within its bound. *)
LEMMA LastStep ==
  ASSUME TypeOK, NEW c \in Client, NEW words \in Message, onMessage(c, words)
  PROVE  last' \in Sent
<1>1. last.number \in 0..MaxMessages
  <2>1. CASE last = NoMessage
    BY <2>1, CommandsAssumption DEF NoMessage
  <2>2. CASE last \in Sent
    BY <2>2, CommandsAssumption DEF Sent
  <2> QED BY <2>1, <2>2 DEF TypeOK
<1>2. last.number + 1 \in 1..MaxMessages
  BY <1>1, CommandsAssumption DEF onMessage
<1>3. last' = [number |-> last.number + 1, sender |-> c, words |-> words]
  BY DEF onMessage
<1> QED BY <1>2, <1>3 DEF Sent

(* A message keeps the types.                                                *)
LEMMA TypeStep ==
  ASSUME TypeOK, NEW c \in Client, NEW words \in Message, onMessage(c, words)
  PROVE  TypeOK'
<1>0. /\ last' \in Sent
      /\ validate_cmd(words).value \in Int \/ ~IsCommand(words)
  BY LastStep, Validated
<1>1. CASE /\ validate_cmd(words).error \in Error
           /\ broadcast(validate_cmd(words).error)
           /\ UNCHANGED <<connected, packets, removed, requests>>
  BY <1>0, <1>1 DEF TypeOK, broadcast
<1>2. CASE /\ IsCommand(words) /\ valid_cmds[words[1]].byteId # -1
           /\ request_cmd(valid_cmds[words[1]].byteId,
                          validate_cmd(words).value)
           /\ UNCHANGED <<connected, feed, removed>>
  <2> DEFINE id == valid_cmds[words[1]].byteId
             value == validate_cmd(words).value
             byte == IF value = NoParameter THEN 255 ELSE value
  <2>1. id \in 1..7 /\ value \in Int
    BY <1>2, RequestFits
  <2>2. /\ \/ UNCHANGED packets
           \/ byte \in Byte /\ packets' = Append(packets, <<id, byte>>)
        /\ requests' = Append(requests, <<id, value>>)
    BY <1>2 DEF request_cmd
  <2> HIDE DEF id, value, byte
  <2>3. requests' \in Seq((1..7) \X Int)
    BY <2>1, <2>2 DEF TypeOK
  <2>4. packets' \in Seq(Byte \X Byte)
    <3>1. id \in Byte /\ packets \in Seq(Byte \X Byte)
      BY <2>1 DEF TypeOK, Byte
    <3>2. CASE byte \in Byte /\ packets' = Append(packets, <<id, byte>>)
      <4>1. <<id, byte>> \in Byte \X Byte
        BY <3>1, <3>2
      <4> QED BY <3>1, <3>2, <4>1, AppendTo
    <3> QED BY <2>2, <3>1, <3>2
  <2> QED BY <1>0, <1>2, <2>3, <2>4 DEF TypeOK
<1>3. CASE /\ IsCommand(words)
           /\ execute_cmd(c, words[1], validate_cmd(words).value)
           /\ UNCHANGED <<packets, requests>>
  <2>1. removed' \in Seq(Int)
    BY <1>0, <1>3 DEF TypeOK, execute_cmd
  <2>2. /\ connected' \subseteq Client
        /\ feed' \in Seq(Error \union {"result"})
    <3>1. \/ broadcast("result") /\ UNCHANGED connected
          \/ connected' = connected \ {c} /\ UNCHANGED feed
      BY <1>3, Zenon DEF execute_cmd
    <3>2. connected \subseteq Client /\ feed \in Seq(Error \union {"result"})
      BY DEF TypeOK
    <3>3. CASE broadcast("result") /\ UNCHANGED connected
      BY <3>2, <3>3, AppendTo DEF broadcast
    <3>4. CASE connected' = connected \ {c} /\ UNCHANGED feed
      BY <3>2, <3>4
    <3> QED BY <3>1, <3>3, <3>4
  <2> QED BY <1>0, <1>3, <2>1, <2>2 DEF TypeOK
<1> QED BY <1>1, <1>2, <1>3, Acts

(* What request_cmd is called with fits what module CommandLink assumes of   *)
(* it, whatever words and numbers the clients use.                           *)
THEOREM RequestsFitTheLinkHolds == Spec => []RequestsFitTheLink
<1>1. Init => RequestsFitTheLink
  BY DEF Init, RequestsFitTheLink, TypeOK
<1>2. RequestsFitTheLink /\ [Next]_vars => RequestsFitTheLink'
  <2>1. SUFFICES ASSUME RequestsFitTheLink, [Next]_vars
                 PROVE  RequestsFitTheLink'
    OBVIOUS
  <2>2. CASE UNCHANGED vars
    BY <2>1, <2>2 DEF RequestsFitTheLink, TypeOK, vars
  <2>3. ASSUME NEW c \in Client, NEW words \in Message, onMessage(c, words)
        PROVE  RequestsFitTheLink'
    <3>1. TypeOK'
      BY <2>1, <2>3, TypeStep DEF RequestsFitTheLink
    <3>2. \A i \in 1..Len(requests) : Fitting(requests[i])
      BY <2>1 DEF RequestsFitTheLink, Fitting
    <3>3. \A i \in 1..Len(requests') : Fitting(requests'[i])
      <4>1. CASE UNCHANGED requests
        BY <3>2, <4>1
      <4>2. CASE /\ IsCommand(words) /\ valid_cmds[words[1]].byteId # -1
                 /\ request_cmd(valid_cmds[words[1]].byteId,
                                validate_cmd(words).value)
        <5>1. requests' = Append(requests, <<valid_cmds[words[1]].byteId,
                                             validate_cmd(words).value>>)
          BY <4>2 DEF request_cmd
        <5>2. requests \in Seq((1..7) \X Int)
          BY <2>1 DEF RequestsFitTheLink, TypeOK
        <5> QED BY <3>2, <4>2, <5>1, <5>2, RequestFits, AppendFits
      <4> QED BY <2>3, <4>1, <4>2, Acts
    <3> QED BY <3>1, <3>3 DEF RequestsFitTheLink, Fitting
  <2> QED BY <2>1, <2>2, <2>3 DEF Next
<1> QED BY <1>1, <1>2, PTL DEF Spec

(* A message that is no command is answered once and does nothing else; it   *)
(* costs nobody the connection.                                              *)
THEOREM RejectedIsHarmlessHolds == Spec => RejectedIsHarmless
<1>1. TypeOK /\ [Next]_vars =>
        [ ~IsCommand(last'.words) =>
            /\ Len(feed') = Len(feed) + 1
            /\ UNCHANGED <<connected, packets, removed>> ]_vars
  <2>1. SUFFICES ASSUME TypeOK, NEW c \in Client, NEW words \in Message,
                        onMessage(c, words), ~IsCommand(last'.words)
                 PROVE  /\ Len(feed') = Len(feed) + 1
                        /\ UNCHANGED <<connected, packets, removed>>
    BY DEF Next, vars
  <2>2. last'.words = words
    BY <2>1, Acts
  <2>3. /\ broadcast(validate_cmd(words).error)
        /\ UNCHANGED <<connected, packets, removed, requests>>
        /\ validate_cmd(words).error \in Error
    BY <2>1, <2>2, Acts
  <2>4. feed \in Seq(Error \union {"result"})
    BY <2>1 DEF TypeOK
  <2> QED BY <2>3, <2>4 DEF broadcast
<1>2. Spec => []TypeOK
  BY RequestsFitTheLinkHolds, PTL DEF RequestsFitTheLink
<1> QED BY <1>1, <1>2, PTL DEF Spec, RejectedIsHarmless

(* Only the sender of a command on logs can lose the connection by it, and   *)
(* then nothing was sent on and nothing broadcast.                           *)
THEOREM OnlyItsSenderLeavesHolds == Spec => OnlyItsSenderLeaves
<1>1. [Next]_vars =>
        [ connected' # connected =>
            /\ connected \ connected' = {last'.sender}
            /\ last'.words[1] \in {"available_logs", "read_log", "delete_log"}
            /\ UNCHANGED <<feed, packets>> ]_vars
  <2>1. SUFFICES ASSUME NEW c \in Client, NEW words \in Message,
                        onMessage(c, words), connected' # connected
                 PROVE  /\ connected \ connected' = {last'.sender}
                        /\ last'.words[1] \in
                             {"available_logs", "read_log", "delete_log"}
                        /\ UNCHANGED <<feed, packets>>
    BY DEF Next, vars
  <2>2. /\ IsCommand(words) /\ valid_cmds[words[1]].byteId = -1
        /\ execute_cmd(c, words[1], validate_cmd(words).value)
        /\ UNCHANGED packets
        /\ c \in connected /\ last'.sender = c /\ last'.words = words
    BY <2>1, Acts
  <2>3. PICK encodable \in Encodable(words[1]) :
          IF encodable THEN broadcast("result") /\ UNCHANGED connected
                       ELSE connected' = connected \ {c} /\ UNCHANGED feed
    BY <2>2 DEF execute_cmd
  <2>4. ~encodable /\ connected' = connected \ {c} /\ UNCHANGED feed
    BY <2>1, <2>3
  <2>5. words[1] # "help"
    BY <2>3, <2>4, Zenon DEF Encodable
  <2>6. words[1] \in {"available_logs", "read_log", "delete_log", "help"}
    BY <2>2, ValidCmds DEF IsCommand
  <2> QED BY <2>2, <2>4, <2>5, <2>6
<1> QED BY <1>1, PTL DEF Spec, OnlyItsSenderLeaves
=============================================================================
