----------------------------- MODULE CommandLink -----------------------------
(***************************************************************************)
(* The link that carries commands from the daemon to the Arduino: the      *)
(* framing of Commands.request_cmd (linuino/commands.py), the serial line, *)
(* and the packet parser of the sketch (arduino/librexc/librexc.ino).      *)
(*                                                                         *)
(* A command is a pair <<byteId, value>> as validate_cmd returns it.  The  *)
(* reactor thread is the only one that writes.  The Arduino reads one byte *)
(* at a time; its handler runs between two bytes.                          *)
(*                                                                         *)
(* The serial line is external: it may lose a run of bytes of any length   *)
(* (an overrun receive buffer, a write that fails half way), and the       *)
(* Arduino may restart at any time, with what it had received and what was *)
(* written while it started gone.                                          *)
(***************************************************************************)
EXTENDS Integers, Sequences

CONSTANTS
  Requests,    (* the commands clients ask for                               *)
  XorByte(_,_), (* exclusive or of two bytes                                 *)
  MaxRequests, (* bound: number of requests                                  *)
  MaxDamage    (* bound: number of losses and restarts                       *)

Byte == 0..255

(* valid_cmds: read_pid alone takes a parameter, any integer. *)
ReadPid == 4
NoParameter == -1

ASSUME CommandLinkAssumption ==
  /\ Requests \subseteq ((1..7 \ {ReadPid}) \X {NoParameter})
                          \union ({ReadPid} \X Int)
  /\ MaxRequests \in Nat /\ MaxDamage \in Nat

ASSUME XorAssumption == \A a, b \in Byte : XorByte(a, b) \in Byte

SYNC_BYTE == 17       (* 0x11 *)
END_BYTE  == 34       (* 0x22 *)
PACK_START_LEN == 3
BUFF_LEN == 6
PacketLen == PACK_START_LEN + BUFF_LEN

VARIABLES
  sent,     (* history: commands whose packet was written, as the two bytes  *)
  asked,    (* number of requests so far; only bounds the model              *)
  wire,     (* bytes written and not yet read by the sketch                  *)
  synced,   (* the sync bytes seen: i in sync()                              *)
  buff,     (* the bytes of the packet received so far                       *)
  executed, (* commands handed to a handler, as the two bytes of data        *)
  damage,   (* number of losses and restarts so far                          *)
  toll      (* history: one for each of them, and one for each packet's      *)
            (* worth of bytes, complete or begun, that it took off the wire  *)

vars == <<sent, asked, wire, synced, buff, executed, damage, toll>>

(* What a packet may hold: a command and its parameter as a byte. *)
Order == Byte \X Byte

TypeOK ==
  /\ sent \in Seq(Order)
  /\ asked \in 0..MaxRequests
  /\ wire \in Seq(Byte)
  /\ synced \in 0..PACK_START_LEN
  /\ buff \in Seq(Byte)
  /\ Len(buff) < BUFF_LEN
  /\ buff # <<>> => synced = PACK_START_LEN
  /\ executed \in Seq(Order)
  /\ damage \in 0..MaxDamage
  /\ toll \in Nat

Init ==
  /\ sent = <<>>
  /\ asked = 0
  /\ wire = <<>>
  /\ synced = 0
  /\ buff = <<>>
  /\ executed = <<>>
  /\ damage = 0
  /\ toll = 0

-----------------------------------------------------------------------------
(* The daemon. *)

message(cmd_byte, parameter_byte) ==
  <<SYNC_BYTE, SYNC_BYTE, SYNC_BYTE,
    cmd_byte, parameter_byte, XorByte(cmd_byte, parameter_byte),
    END_BYTE, END_BYTE, END_BYTE>>

ParameterByte(value) == IF value = NoParameter THEN 255 ELSE value

(* Mutant: the packet is written twice, to be on the safe side. *)
request_cmd_twice(byteId, value) ==
  LET parameter_byte == ParameterByte(value)
  IN  \/ /\ parameter_byte \in Byte
         /\ wire' = wire \o message(byteId, parameter_byte)
                         \o message(byteId, parameter_byte)
         /\ sent' = Append(sent, <<byteId, parameter_byte>>)
      \/ UNCHANGED <<wire, sent>>

(* A value that is not a byte raises in tty.write before anything is        *)
(* written, and so does a port that cannot be opened: the exception is      *)
(* printed and the command forgotten.                                       *)
request_cmd(byteId, value) ==
  LET parameter_byte == ParameterByte(value)
  IN  \/ /\ parameter_byte \in Byte
         /\ wire' = wire \o message(byteId, parameter_byte)
         /\ sent' = Append(sent, <<byteId, parameter_byte>>)
      \/ UNCHANGED <<wire, sent>>

Request ==
  /\ asked < MaxRequests
  /\ asked' = asked + 1
  /\ \E r \in Requests : request_cmd(r[1], r[2])
  /\ UNCHANGED <<synced, buff, executed, damage, toll>>

-----------------------------------------------------------------------------
(* The sketch.  nextByte waits for a byte. *)

nextByte == Head(wire)

sync(b) ==
  /\ synced < PACK_START_LEN
  /\ synced' = IF b = SYNC_BYTE THEN synced + 1 ELSE 0
  /\ UNCHANGED <<buff, executed>>

(* Mutant: i <= BUFF_LEN. *)
receiveDataOffByOne(b) ==
  /\ synced = PACK_START_LEN
  /\ Len(buff) + 1 <= BUFF_LEN
  /\ buff' = Append(buff, b)
  /\ UNCHANGED <<synced, executed>>

receiveData(b) ==
  /\ synced = PACK_START_LEN
  /\ Len(buff) + 1 < BUFF_LEN
  /\ buff' = Append(buff, b)
  /\ UNCHANGED <<synced, executed>>

(* Mutant: the checksum is not looked at. *)
checkEndBytes(packet) == \A i \in 4..BUFF_LEN : packet[i] = END_BYTE

(* Mutant: one end byte too many. *)
checkFourEndBytes(packet) ==
  /\ \A i \in 3..BUFF_LEN : packet[i] = END_BYTE
  /\ packet[3] = XorByte(packet[1], packet[2])

checkPacket(packet) ==
  /\ \A i \in 4..BUFF_LEN : packet[i] = END_BYTE
  /\ packet[3] = XorByte(packet[1], packet[2])

(* An unknown command is ignored. *)
handleData(data) ==
  executed' = IF data[1] \in 1..7 THEN Append(executed, data) ELSE executed

(* Mutant: after a bad packet the next one is read without sync(). *)
loopWithoutSync(b) ==
  LET packet == Append(buff, b)
  IN  /\ synced = PACK_START_LEN
      /\ Len(packet) = BUFF_LEN
      /\ IF checkPacket(packet)
         THEN handleData(<<packet[1], packet[2]>>) /\ synced' = 0
         ELSE UNCHANGED <<executed, synced>>
      /\ buff' = <<>>

(* The sixth byte completes the packet; loop() starts over. *)
loop(b) ==
  LET packet == Append(buff, b)
  IN  /\ synced = PACK_START_LEN
      /\ Len(packet) = BUFF_LEN
      /\ IF checkPacket(packet)
         THEN handleData(<<packet[1], packet[2]>>)
         ELSE UNCHANGED executed
      /\ synced' = 0
      /\ buff' = <<>>

Receive ==
  /\ wire # <<>>
  /\ wire' = Tail(wire)
  /\ sync(nextByte) \/ receiveData(nextByte) \/ loop(nextByte)
  /\ UNCHANGED <<sent, asked, damage, toll>>

-----------------------------------------------------------------------------
(* External: the line and the power supply. *)

Without(s, i, n) == SubSeq(s, 1, i - 1) \o SubSeq(s, i + n, Len(s))

(* The packets that n bytes make, the last one complete or begun. *)
Packets(n) == (n + PacketLen - 1) \div PacketLen

(* Once more the line is damaged, and n bytes are gone. *)
Damage(n) ==
  /\ damage < MaxDamage
  /\ damage' = damage + 1
  /\ toll' = toll + 1 + Packets(n)

LoseBytes ==
  /\ \E n \in 1..Len(wire) : \E i \in 1..(Len(wire) - n + 1) :
       /\ wire' = Without(wire, i, n)
       /\ Damage(n)
  /\ UNCHANGED <<sent, asked, synced, buff, executed>>

(* The Arduino has restarted: setup() has returned.  What had arrived by     *)
(* then is gone, the packet in buff, what stood in the receive buffer and    *)
(* what was written while it started: any first part of the bytes not read.  *)
Restart ==
  /\ \E n \in 0..Len(wire) :
       /\ wire' = SubSeq(wire, n + 1, Len(wire))
       /\ Damage(n)
  /\ synced' = 0
  /\ buff' = <<>>
  /\ UNCHANGED <<sent, asked, executed>>

Next == Request \/ Receive \/ LoseBytes \/ Restart

Spec == Init /\ [][Next]_vars

(* The sketch never stops reading. *)
FairSpec == Spec /\ WF_vars(Receive)

-----------------------------------------------------------------------------
(* As long as the line is intact, the parser stays aligned with the packets  *)
(* whatever bytes they hold, 0x11 and 0x22 included: commands are executed   *)
(* in order and none is skipped (librexc.ino 64-106, commands.py 159-181).   *)
InOrderWhenIntact ==
  damage = 0 =>
    /\ Len(executed) <= Len(sent)
    /\ \A i \in 1..Len(executed) : executed[i] = sent[i]

(* Where executed[i] stands in sent, at the earliest; 0 if it does not. *)
Position[i \in 0..Len(executed)] ==
  IF i = 0 THEN 0
  ELSE LET P == {k \in 1..Len(sent) : k > Position[i-1] /\ sent[k] = executed[i]}
       IN  IF P = {} \/ (i > 1 /\ Position[i-1] = 0) THEN 0
           ELSE CHOOSE k \in P : \A l \in P : k <= l

(* One run of lost bytes or one restart makes the Arduino do nothing that    *)
(* was not asked for (the checksum and the end bytes see to that), and       *)
(* nothing twice or out of order (librexc.ino 92-106).  MaxDamage = 1 is     *)
(* part of the promise: two runs lost in the right places can join the       *)
(* halves of two packets into a command nobody asked for.                    *)
Channel == INSTANCE CommandChannel WITH
             Order     <- {o \in {<<r[1], ParameterByte(r[2])>> : r \in Requests} :
                             o \in Order},
             requested <- sent,
             turn      <- Position[Len(executed)],
             damaged   <- damage > 0
ChannelSpec == Channel!Spec

(* After the damage the parser finds its way back: when all bytes are read,  *)
(* no more commands have been lost than the bytes that vanished make         *)
(* packets, complete or begun, and one more for each run of them and for     *)
(* each restart: the packet the parser was in or took for another.  A        *)
(* restart in which no byte was lost costs one command, one in which the     *)
(* receive buffer went costs the commands in it and one more (librexc.ino    *)
(* 28-32, 64-82).                                                            *)
Resynchronises ==
  wire = <<>> => Len(sent) - Len(executed) <= toll

(* A packet written over an intact line is executed (commands.py 179-181,    *)
(* librexc.ino 34-42).                                                       *)
SentIsExecuted ==
  \A n \in 1..MaxRequests :
    Len(sent) >= n ~> Len(executed) >= n \/ damage > 0
=============================================================================
