-------------------------- MODULE CommandLinkProofs --------------------------
(***************************************************************************)
(* Theorems about module CommandLink, for every set of requests, every     *)
(* exclusive or that maps bytes to bytes, every number of requests, and    *)
(* every number of losses and restarts.                                    *)
(*                                                                         *)
(* InOrderWhenIntact is not inductive: the next packet is accepted because *)
(* the parser stands at its first byte when the last one ends.  Aligned    *)
(* says how many bytes lie between the two ends of the line and which ones *)
(* they are: the bytes written, packet after packet, less those read.      *)
(*                                                                         *)
(* Once the line has lost bytes, Recovering takes its place.  It gives     *)
(* every byte on the line its place among the bytes written, and says what *)
(* the parser may still get wrong: nothing, the packet it is in, or that   *)
(* one and the next.                                                       *)
(***************************************************************************)
EXTENDS CommandLink, SequenceTheorems, TLAPS

(* The k-th packet written. *)
Packet(k) == message(sent[k][1], sent[k][2])

(* How many bytes of the current packet the sketch has read. *)
Offset == synced + Len(buff)

(* How many bytes it has read in all. *)
BytesRead == PacketLen * Len(executed) + Offset

WireIsRest ==
  /\ BytesRead + Len(wire) = PacketLen * Len(sent)
  /\ \A i \in 1..Len(wire), k \in 1..Len(sent), j \in 1..PacketLen :
       BytesRead + i = PacketLen * (k - 1) + j => wire[i] = Packet(k)[j]

BuffIsPacket ==
  \A j \in 1..Len(buff) : buff[j] = Packet(Len(executed) + 1)[PACK_START_LEN + j]

ExecutedIsPrefix ==
  /\ Len(executed) <= Len(sent)
  /\ \A i \in 1..Len(executed) : executed[i] = sent[i]

OnlyCommands == \A i \in 1..Len(sent) : sent[i][1] \in 1..7

Aligned == WireIsRest /\ BuffIsPacket /\ ExecutedIsPrefix

LinkInv == TypeOK /\ OnlyCommands /\ (damage = 0 => Aligned)

-----------------------------------------------------------------------------
LEMMA RequestIsCommand ==
  ASSUME NEW r \in Requests
  PROVE  r[1] \in 1..7 /\ r[2] \in Int
BY CommandLinkAssumption DEF ReadPid, NoParameter

LEMMA MessageType ==
  ASSUME NEW c \in Byte, NEW p \in Byte
  PROVE  message(c, p) \in Seq(Byte) /\ Len(message(c, p)) = PacketLen
<1>1. XorByte(c, p) \in Byte
  BY XorAssumption
<1>2. SYNC_BYTE \in Byte /\ END_BYTE \in Byte
  BY DEF Byte, SYNC_BYTE, END_BYTE
<1>3. PacketLen = 9
  BY DEF PacketLen, PACK_START_LEN, BUFF_LEN
<1> QED BY <1>1, <1>2, <1>3 DEF message

LEMMA WithoutType ==
  ASSUME NEW s \in Seq(Byte), NEW i \in Nat, NEW n \in Nat,
         1 <= i, i + n <= Len(s) + 1
  PROVE  Without(s, i, n) \in Seq(Byte)
<1>1. SubSeq(s, 1, i - 1) \in Seq(Byte)
  BY SubSeqProperties
<1>2. SubSeq(s, i + n, Len(s)) \in Seq(Byte)
  BY SubSeqProperties
<1> QED BY <1>1, <1>2, ConcatProperties DEF Without

(* What a loss of n bytes adds to the toll. *)
LEMMA PacketsType ==
  ASSUME NEW n \in Nat
  PROVE  /\ Packets(n) \in Nat /\ n <= 9 * Packets(n)
         /\ toll \in Nat => toll + 1 + Packets(n) \in Nat
<1>1. PacketLen = 9
  BY DEF PacketLen, PACK_START_LEN, BUFF_LEN
<1>2. Packets(n) = (n + 8) \div 9
  BY <1>1 DEF Packets
<1>3. (n + 8) \div 9 \in Nat /\ n <= 9 * ((n + 8) \div 9)
  OBVIOUS
<1> QED BY <1>2, <1>3

-----------------------------------------------------------------------------
(* The three ways in which Receive goes on. *)
LEMMA ReceiveCases ==
  ASSUME Receive
  PROVE  /\ wire # <<>> /\ wire' = Tail(wire)
         /\ UNCHANGED <<sent, asked, damage, toll>>
         /\ sync(Head(wire)) \/ receiveData(Head(wire)) \/ loop(Head(wire))
BY DEF Receive, nextByte

LEMMA StepTypes == TypeOK /\ [Next]_vars => TypeOK'
<1> SUFFICES ASSUME TypeOK, [Next]_vars PROVE TypeOK'
  OBVIOUS
<1> USE CommandLinkAssumption DEF TypeOK
<1>1. ASSUME Request PROVE TypeOK'
  <2>1. PICK r \in Requests : request_cmd(r[1], r[2])
    BY <1>1 DEF Request
  <2> DEFINE p == ParameterByte(r[2])
  <2>2. CASE UNCHANGED <<wire, sent>>
    BY <1>1, <2>2 DEF Request
  <2>3. CASE /\ p \in Byte
             /\ wire' = wire \o message(r[1], p)
             /\ sent' = Append(sent, <<r[1], p>>)
    <3>1. r[1] \in Byte
      BY RequestIsCommand DEF Byte
    <3>2. wire' \in Seq(Byte)
      BY <2>3, <3>1, MessageType, ConcatProperties
    <3>3. sent' \in Seq(Order)
      BY <2>3, <3>1, AppendProperties DEF Order
    <3> QED BY <1>1, <3>2, <3>3 DEF Request
  <2> QED BY <2>1, <2>2, <2>3 DEF request_cmd
<1>2. ASSUME Receive PROVE TypeOK'
  <2> USE <1>2, ReceiveCases
  <2>1. Head(wire) \in Byte /\ wire' \in Seq(Byte)
    BY HeadTailProperties
  <2>2. CASE sync(Head(wire))
    BY <2>1, <2>2 DEF sync, PACK_START_LEN
  <2>3. CASE receiveData(Head(wire))
    BY <2>1, <2>3, AppendProperties DEF receiveData, PACK_START_LEN, BUFF_LEN
  <2>4. CASE loop(Head(wire))
    <3> DEFINE packet == Append(buff, Head(wire))
    <3>1. packet \in Seq(Byte) /\ Len(packet) = 6
      BY <2>1, <2>4, AppendProperties DEF loop, BUFF_LEN
    <3>2. <<packet[1], packet[2]>> \in Order
      BY <3>1 DEF Order
    <3>3. executed' \in Seq(Order)
      <4>1. \/ executed' = executed
            \/ executed' = Append(executed, <<packet[1], packet[2]>>)
        BY <2>4 DEF loop, handleData
      <4>2. ASSUME NEW o \in Order PROVE Append(executed, o) \in Seq(Order)
        BY AppendProperties
      <4> HIDE DEF packet
      <4> QED BY <3>2, <4>1, <4>2
    <3> QED BY <2>1, <2>4, <3>3 DEF loop, BUFF_LEN, PACK_START_LEN
  <2> QED BY <2>2, <2>3, <2>4
<1>3. ASSUME LoseBytes PROVE TypeOK'
  <2> PICK n \in 1..Len(wire) :
        \E i \in 1..(Len(wire) - n + 1) : wire' = Without(wire, i, n) /\ Damage(n)
    BY <1>3 DEF LoseBytes
  <2>1. PICK i \in 1..(Len(wire) - n + 1) :
          wire' = Without(wire, i, n) /\ Damage(n)
    OBVIOUS
  <2>2. wire' \in Seq(Byte)
    BY <2>1, WithoutType
  <2>3. damage' \in 0..MaxDamage /\ toll' \in Nat
    BY <2>1, PacketsType DEF Damage
  <2> QED BY <1>3, <2>2, <2>3 DEF LoseBytes
<1>4. ASSUME Restart PROVE TypeOK'
  <2>1. PICK n \in 0..Len(wire) :
          wire' = SubSeq(wire, n + 1, Len(wire)) /\ Damage(n)
    BY <1>4 DEF Restart
  <2>2. wire' \in Seq(Byte)
    BY <2>1, SubSeqProperties
  <2>3. damage' \in 0..MaxDamage /\ toll' \in Nat
    BY <2>1, PacketsType DEF Damage
  <2> QED BY <1>4, <2>2, <2>3 DEF Restart, PACK_START_LEN, BUFF_LEN
<1>5. CASE UNCHANGED vars
  BY <1>5 DEF vars
<1> QED
  BY <1>1, <1>2, <1>3, <1>4, <1>5 DEF Next

(* The bytes on the line, the parser's position and its buffer have their    *)
(* types whatever is lost: it never reads past the sixth byte of a packet.   *)
THEOREM CommandLinkTypeOK == Spec => []TypeOK
<1>1. Init => TypeOK
  BY CommandLinkAssumption
  DEF Init, TypeOK, Order, Byte, PACK_START_LEN, BUFF_LEN
<1> QED BY <1>1, StepTypes, PTL DEF Spec

-----------------------------------------------------------------------------
LEMMA MessageBytes ==
  ASSUME NEW c, NEW p
  PROVE  /\ \A j \in 1..3 : message(c, p)[j] = SYNC_BYTE
         /\ message(c, p)[4] = c
         /\ message(c, p)[5] = p
         /\ message(c, p)[6] = XorByte(c, p)
         /\ \A j \in 7..9 : message(c, p)[j] = END_BYTE
BY DEF message

LEMMA Lengths ==
  ASSUME TypeOK
  PROVE  /\ PacketLen = 9 /\ Offset \in 0..8
         /\ Len(executed) \in Nat /\ Len(sent) \in Nat /\ Len(wire) \in Nat
         /\ BytesRead = 9 * Len(executed) + Offset
<1>1. PacketLen = 9
  BY DEF PacketLen, PACK_START_LEN, BUFF_LEN
<1>2. Len(executed) \in Nat /\ Len(sent) \in Nat /\ Len(wire) \in Nat
  BY LenProperties DEF TypeOK
<1>3. Len(buff) \in 0..5
  <2>1. Len(buff) \in Nat
    BY LenProperties DEF TypeOK
  <2>2. Len(buff) < 6
    BY DEF TypeOK, BUFF_LEN
  <2>3. \A m \in Nat : m < 6 => m \in 0..5
    OBVIOUS
  <2> QED BY <2>1, <2>2, <2>3
<1>4. synced \in 0..3 /\ (buff # <<>> => synced = 3)
  BY DEF TypeOK, PACK_START_LEN
<1>5. Offset \in 0..8
  <2>1. CASE buff = <<>>
    <3>1. Offset = synced + 0
      BY <2>1, EmptySeq DEF Offset
    <3>2. \A m \in 0..3 : m + 0 \in 0..8
      OBVIOUS
    <3> QED BY <1>4, <3>1, <3>2
  <2>2. CASE buff # <<>>
    <3>1. synced = 3
      BY <1>4, <2>2
    <3>2. \A m \in 0..5 : 3 + m \in 0..8
      OBVIOUS
    <3> QED BY <1>3, <3>1, <3>2 DEF Offset
  <2> QED BY <2>1, <2>2
<1> QED BY <1>1, <1>2, <1>5 DEF BytesRead

LEMMA ParserTypes ==
  ASSUME TypeOK
  PROVE  /\ synced \in 0..3 /\ Len(buff) \in 0..5 /\ Len(executed) \in Nat
         /\ synced < 3 \/ synced = 3
         /\ synced < 3 => buff = <<>> /\ Len(buff) = 0
         /\ Len(buff) < 5 \/ Len(buff) = 5
<1>1. Len(buff) \in Nat /\ Len(executed) \in Nat
  BY LenProperties DEF TypeOK
<1>2. /\ synced \in 0..3 /\ Len(buff) < 6
      /\ buff # <<>> => synced = 3
  BY DEF TypeOK, PACK_START_LEN, BUFF_LEN
<1>3. Len(buff) \in 0..5
  <2>1. \A m \in Nat : m < 6 => m \in 0..5
    OBVIOUS
  <2> QED BY <1>1, <1>2, <2>1
<1>4. synced < 3 => buff = <<>> /\ Len(buff) = 0
  BY <1>2, EmptySeq
<1>5. \A m \in 0..5 : m < 5 \/ m = 5
  OBVIOUS
<1>6. \A m \in 0..3 : m < 3 \/ m = 3
  OBVIOUS
<1> QED BY <1>1, <1>2, <1>3, <1>4, <1>5, <1>6

(* What a byte does to the parser, whatever it is. *)
LEMMA ParserStep ==
  ASSUME TypeOK, Receive
  PROVE  /\ synced < 3 => /\ buff' = <<>> /\ executed' = executed
                          /\ synced' = IF Head(wire) = SYNC_BYTE
                                       THEN synced + 1 ELSE 0
                          /\ Len(buff') = 0
         /\ synced = 3 /\ Len(buff) < 5 =>
              /\ synced' = 3 /\ executed' = executed
              /\ buff' = Append(buff, Head(wire)) /\ Len(buff') = Len(buff) + 1
         /\ synced = 3 /\ Len(buff) = 5 =>
              synced' = 0 /\ buff' = <<>> /\ Len(buff') = 0 /\ loop(Head(wire))
         /\ Len(executed') \in Nat /\ Len(executed') >= Len(executed)
<1> DEFINE b == Head(wire)
<1>1. wire # <<>> /\ (sync(b) \/ receiveData(b) \/ loop(b))
  BY ReceiveCases
<1>2. b \in Byte /\ buff \in Seq(Byte) /\ executed \in Seq(Order)
  BY <1>1, HeadTailProperties DEF TypeOK
<1>3. Len(Append(buff, b)) = Len(buff) + 1
  BY <1>2, AppendProperties
<1>4. /\ Len(<<>>) = 0 /\ Len(executed) \in Nat /\ Len(buff) \in 0..5
      /\ synced \in 0..3 /\ (synced < 3 => buff = <<>>)
  BY EmptySeq, ParserTypes
<1> HIDE DEF b
<1>5. CASE sync(b)
  BY <1>4, <1>5 DEF sync, PACK_START_LEN, b
<1>6. CASE receiveData(b)
  <2>1. /\ synced = 3 /\ synced' = 3 /\ executed' = executed
        /\ Len(buff) + 1 < 6 /\ buff' = Append(buff, b)
    BY <1>6 DEF receiveData, PACK_START_LEN, BUFF_LEN
  <2>2. Len(buff) # 5
    <3>1. \A m \in Nat : m + 1 < 6 => m # 5
      OBVIOUS
    <3> QED BY <1>4, <2>1, <3>1
  <2> QED BY <1>3, <1>4, <2>1, <2>2 DEF b
<1>7. CASE loop(b)
  <2> DEFINE packet == Append(buff, b)
  <2>1. synced = 3 /\ synced' = 0 /\ buff' = <<>> /\ Len(packet) = 6
    BY <1>7 DEF loop, PACK_START_LEN, BUFF_LEN
  <2>2. Len(buff) = 5
    <3>1. Len(packet) = Len(buff) + 1
      BY <1>3
    <3>2. Len(packet) = 6
      BY <2>1
    <3>3. Len(buff) \in 0..5
      BY <1>4
    <3> HIDE DEF packet
    <3>4. \A m \in 0..5 : m + 1 = 6 => m = 5
      OBVIOUS
    <3> QED BY ONLY <3>1, <3>2, <3>3, <3>4
  <2>3. Len(executed') \in Nat /\ Len(executed') >= Len(executed)
    <3>1. \/ executed' = executed
          \/ executed' = Append(executed, <<packet[1], packet[2]>>)
      BY <1>7 DEF loop, handleData
    <3>2. ASSUME NEW o PROVE Len(Append(executed, o)) = Len(executed) + 1
      BY <1>2
    <3> HIDE DEF packet
    <3> QED BY <1>4, <3>1, <3>2
  <2> QED BY <1>4, <1>7, <2>1, <2>2, <2>3 DEF b
<1> QED BY <1>1, <1>5, <1>6, <1>7 DEF b

(* The packet that has been read whole passes its checks. *)
LEMMA LoopExecutes ==
  ASSUME TypeOK, OnlyCommands, wire # <<>>, NEW k \in 1..Len(sent),
         synced = 3, Len(buff) = 5, Head(wire) = Packet(k)[9],
         \A j \in 1..5 : buff[j] = Packet(k)[3 + j],
         loop(Head(wire))
  PROVE  executed' = Append(executed, sent[k]) /\ sent[k] \in Order
<1> DEFINE b == Head(wire)
           packet == Append(buff, b)
           c == sent[k][1]
           p == sent[k][2]
<1>1. /\ \A j \in 1..Len(buff) : packet[j] = buff[j]
      /\ packet[Len(buff) + 1] = b
  <2>1. b \in Byte /\ buff \in Seq(Byte)
    BY HeadTailProperties DEF TypeOK
  <2> HIDE DEF b
  <2> QED BY ONLY <2>1, AppendProperties
<1>2. packet[6] = b /\ \A j \in 1..5 : packet[j] = buff[j]
  <2> HIDE DEF packet, b
  <2> QED BY <1>1
<1>3. \A j \in 1..6 : packet[j] = message(c, p)[3 + j]
  <2>1. \A j \in 1..5 : buff[j] = message(c, p)[3 + j]
    BY DEF Packet
  <2>2. b = message(c, p)[9]
    BY DEF Packet
  <2> HIDE DEF packet, c, p, b
  <2>3. \A j \in 1..6 : j \in 1..5 \/ j = 6
    OBVIOUS
  <2> QED BY <1>2, <2>1, <2>2, <2>3
<1>4. /\ packet[1] = c /\ packet[2] = p /\ packet[3] = XorByte(c, p)
      /\ packet[4] = END_BYTE /\ packet[5] = END_BYTE /\ packet[6] = END_BYTE
  <2> HIDE DEF packet, c, p
  <2>1. /\ packet[1] = message(c, p)[4] /\ packet[2] = message(c, p)[5]
        /\ packet[3] = message(c, p)[6] /\ packet[4] = message(c, p)[7]
        /\ packet[5] = message(c, p)[8] /\ packet[6] = message(c, p)[9]
    BY <1>3
  <2> QED BY <2>1, MessageBytes
<1>5. checkPacket(packet)
  <2> HIDE DEF packet, c, p
  <2>1. \A i \in 4..BUFF_LEN : i = 4 \/ i = 5 \/ i = 6
    BY DEF BUFF_LEN
  <2> QED BY <1>4, <2>1 DEF checkPacket
<1>6. executed' = Append(executed, <<c, p>>)
  <2>1. c \in 1..7
    BY DEF OnlyCommands
  <2>2. handleData(<<packet[1], packet[2]>>)
    BY <1>5 DEF loop
  <2> HIDE DEF packet, c, p
  <2>3. packet[1] = c /\ packet[2] = p
    BY <1>4
  <2>4. handleData(<<c, p>>)
    BY ONLY <2>2, <2>3
  <2>5. <<c, p>>[1] = c
    OBVIOUS
  <2> QED BY ONLY <2>1, <2>4, <2>5 DEF handleData
<1>7. sent[k] \in Order /\ <<c, p>> = sent[k]
  <2>1. sent \in Seq(Order) /\ k \in 1..Len(sent)
    BY DEF TypeOK
  <2>2. sent[k] \in Order
    BY ONLY <2>1
  <2>3. \A o \in Byte \X Byte : <<o[1], o[2]>> = o
    OBVIOUS
  <2> QED BY ONLY <2>2, <2>3 DEF Order
<1> QED BY <1>6, <1>7

(* A byte on the line belongs to the packet under way. *)
LEMMA NextByteOfPacket ==
  ASSUME TypeOK, WireIsRest, wire # <<>>
  PROVE  /\ Len(executed) + 1 \in 1..Len(sent)
         /\ Head(wire) = Packet(Len(executed) + 1)[Offset + 1]
<1>1. Len(wire) >= 1 /\ Head(wire) = wire[1]
  BY DEF TypeOK
<1>2. Len(executed) + 1 \in 1..Len(sent)
  BY <1>1, Lengths DEF WireIsRest
<1>3. /\ 1 \in 1..Len(wire) /\ Offset + 1 \in 1..PacketLen
      /\ BytesRead + 1 = PacketLen * ((Len(executed) + 1) - 1) + (Offset + 1)
  BY <1>1, Lengths
<1>4. wire[1] = Packet(Len(executed) + 1)[Offset + 1]
  BY <1>2, <1>3 DEF WireIsRest
<1> QED BY <1>1, <1>2, <1>4

LEMMA RestAfterReading ==
  ASSUME TypeOK, WireIsRest, wire # <<>>, wire' = Tail(wire), sent' = sent,
         BytesRead' = BytesRead + 1
  PROVE  WireIsRest'
<1>1. /\ Len(wire') = Len(wire) - 1
      /\ \A i \in 1..Len(wire') : wire'[i] = wire[i + 1]
  BY HeadTailProperties DEF TypeOK
<1>2. BytesRead \in Nat
  BY Lengths
<1>3. \A k \in 1..Len(sent) : Packet(k)' = Packet(k)
  BY DEF Packet
<1>4. BytesRead' + Len(wire') = PacketLen * Len(sent')
  BY <1>1, <1>2, Lengths DEF WireIsRest
<1>5. ASSUME NEW i \in 1..Len(wire'), NEW k \in 1..Len(sent'),
             NEW j \in 1..PacketLen, BytesRead' + i = PacketLen * (k - 1) + j
      PROVE  wire'[i] = Packet(k)'[j]
  <2>1. i + 1 \in 1..Len(wire) /\ BytesRead + (i + 1) = PacketLen * (k - 1) + j
    BY <1>1, <1>2, <1>5, Lengths
  <2>2. wire[i + 1] = Packet(k)[j]
    BY <1>5, <2>1 DEF WireIsRest
  <2> QED BY <1>1, <1>3, <1>5, <2>2
<1> QED BY <1>4, <1>5 DEF WireIsRest

(* Reading a byte keeps the parser aligned; the ninth byte completes a       *)
(* packet that passes its checks and is the command next in turn.            *)
LEMMA ReceiveAligned ==
  ASSUME TypeOK, OnlyCommands, Aligned, Receive
  PROVE  Aligned'
<1> DEFINE n == Len(executed)
           b == Head(wire)
<1> USE DEF Aligned
<1>1. /\ wire # <<>> /\ wire' = Tail(wire)
      /\ UNCHANGED <<sent, asked, damage, toll>>
  BY ReceiveCases
<1>2. n + 1 \in 1..Len(sent) /\ b = Packet(n + 1)[Offset + 1]
  BY <1>1, NextByteOfPacket
<1>3. \A k : Packet(k)' = Packet(k)
  BY <1>1 DEF Packet
<1>4. CASE synced < 3
  <2>1. synced \in 0..2 /\ Len(buff) = 0
    BY <1>4, ParserTypes
  <2>2. b = SYNC_BYTE
    <3>1. Offset + 1 \in 1..3
      BY <2>1 DEF Offset
    <3> QED BY <1>2, <3>1, MessageBytes DEF Packet
  <2>3. synced' = synced + 1 /\ Len(buff') = 0 /\ executed' = executed
    BY <1>4, <2>2, ParserStep
  <2>4. BytesRead' = BytesRead + 1
    BY <2>1, <2>3, Lengths DEF BytesRead, Offset
  <2>5. WireIsRest'
    BY <1>1, <2>4, RestAfterReading
  <2> QED BY <1>1, <2>3, <2>5 DEF BuffIsPacket, ExecutedIsPrefix
<1>5. CASE synced = 3 /\ Len(buff) < 5
  <2>1. /\ synced = 3 /\ synced' = 3 /\ executed' = executed
        /\ buff' = Append(buff, b)
    BY <1>5, ParserStep
  <2>2. /\ Len(buff') = Len(buff) + 1
        /\ \A j \in 1..Len(buff) : buff'[j] = buff[j]
        /\ buff'[Len(buff) + 1] = b
    BY <1>1, <2>1, AppendProperties, HeadTailProperties DEF TypeOK
  <2>3. BytesRead' = BytesRead + 1
    BY <2>1, <2>2, Lengths DEF BytesRead, Offset, TypeOK
  <2>4. WireIsRest'
    BY <1>1, <2>3, RestAfterReading
  <2>5. BuffIsPacket'
    <3> SUFFICES ASSUME NEW j \in 1..Len(buff')
                 PROVE  buff'[j] = Packet(n + 1)[PACK_START_LEN + j]
      BY <1>3, <2>1 DEF BuffIsPacket
    <3>1. CASE j \in 1..Len(buff)
      BY <2>2, <3>1 DEF BuffIsPacket
    <3>2. CASE j = Len(buff) + 1
      <4>1. Offset + 1 = PACK_START_LEN + j
        BY <2>1, <3>2 DEF Offset, PACK_START_LEN, TypeOK
      <4> QED BY <1>2, <2>2, <3>2, <4>1
    <3> QED BY <2>2, <3>1, <3>2 DEF TypeOK
  <2> QED BY <1>1, <2>1, <2>4, <2>5 DEF ExecutedIsPrefix
<1>6. CASE synced = 3 /\ Len(buff) = 5
  <2>1. synced' = 0 /\ Len(buff') = 0 /\ loop(b) /\ Offset = 8
    BY <1>6, ParserStep DEF Offset
  <2>2. executed' = Append(executed, sent[n + 1]) /\ sent[n + 1] \in Order
    <3>1. b = Packet(n + 1)[9]
      BY <1>2, <2>1
    <3>2. \A j \in 1..5 : buff[j] = Packet(n + 1)[3 + j]
      BY <1>6 DEF BuffIsPacket, PACK_START_LEN
    <3> QED BY <1>1, <1>2, <1>6, <2>1, <3>1, <3>2, LoopExecutes
  <2>3. /\ Len(executed') = n + 1
        /\ \A i \in 1..n : executed'[i] = executed[i]
        /\ executed'[n + 1] = sent[n + 1]
    BY <2>2, AppendProperties DEF TypeOK
  <2>4. BytesRead' = BytesRead + 1
    BY <1>6, <2>1, <2>3, Lengths DEF BytesRead, Offset
  <2>5. WireIsRest'
    BY <1>1, <2>4, RestAfterReading
  <2>6. ExecutedIsPrefix'
    BY <1>1, <1>2, <2>3, Lengths DEF ExecutedIsPrefix
  <2> QED BY <2>1, <2>5, <2>6 DEF BuffIsPacket
<1> QED BY <1>4, <1>5, <1>6, ParserTypes

LEMMA ConcatNine ==
  ASSUME NEW w \in Seq(Byte), NEW v \in Seq(Byte), Len(v) = 9
  PROVE  /\ Len(w \o v) = Len(w) + 9
         /\ \A i \in 1..Len(w) : (w \o v)[i] = w[i]
         /\ \A i \in Len(w) + 1 .. Len(w) + 9 : (w \o v)[i] = v[i - Len(w)]
<1>1. Len(w) \in Nat
  BY LenProperties
<1>2. Len(w \o v) = Len(w) + Len(v)
  BY ConcatProperties
<1>3. \A i \in 1 .. Len(w) + Len(v) :
        (w \o v)[i] = IF i <= Len(w) THEN w[i] ELSE v[i - Len(w)]
  BY ConcatProperties
<1>4. ASSUME NEW i \in 1..Len(w) PROVE (w \o v)[i] = w[i]
  BY <1>1, <1>3
<1>5. ASSUME NEW i \in Len(w) + 1 .. Len(w) + 9
      PROVE  (w \o v)[i] = v[i - Len(w)]
  <2>1. i \in 1 .. Len(w) + Len(v) /\ ~(i <= Len(w))
    BY <1>1
  <2> QED BY <1>3, <2>1
<1> QED BY <1>2, <1>4, <1>5

(* Positions on the line, counted in packets. *)
LEMMA LastPacket ==
  ASSUME NEW a \in Nat, NEW w \in Nat, NEW n \in Nat, a + w = 9 * n,
         NEW x \in Nat, NEW k \in Nat, NEW j \in 1..9,
         a + x = 9 * (k - 1) + j, k <= n + 1, w < x
  PROVE  k = n + 1 /\ j = x - w
<1>1. 9 * (k - 1) + j > 9 * n
  OBVIOUS
<1>2. k >= n + 1
  BY <1>1
<1>3. k = n + 1
  BY <1>2
<1>4. 9 * (k - 1) = 9 * n
  BY <1>3
<1> QED BY <1>3, <1>4

(* What a packet written adds to the line and to the history. *)
LEMMA Written ==
  ASSUME TypeOK, NEW c \in Byte, NEW p \in Byte,
         wire' = wire \o message(c, p), sent' = Append(sent, <<c, p>>)
  PROVE  /\ Len(sent') = Len(sent) + 1
         /\ \A i \in 1..Len(sent) : sent'[i] = sent[i]
         /\ sent'[Len(sent) + 1] = <<c, p>>
         /\ Len(wire') = Len(wire) + 9
         /\ \A i \in 1..Len(wire) : wire'[i] = wire[i]
         /\ \A i \in Len(wire) + 1 .. Len(wire) + 9 :
              wire'[i] = message(c, p)[i - Len(wire)]
         /\ \A k \in 1..Len(sent) : Packet(k)' = Packet(k)
         /\ \A k : k = Len(sent) + 1 => Packet(k)' = message(c, p)
<1>1. /\ Len(sent') = Len(sent) + 1
      /\ \A i \in 1..Len(sent) : sent'[i] = sent[i]
      /\ sent'[Len(sent) + 1] = <<c, p>>
  <2>1. sent \in Seq(Order) /\ <<c, p>> \in Order
    BY DEF TypeOK, Order
  <2> QED BY <2>1, AppendProperties
<1>2. /\ Len(wire') = Len(wire) + 9
      /\ \A i \in 1..Len(wire) : wire'[i] = wire[i]
      /\ \A i \in Len(wire) + 1 .. Len(wire) + 9 :
           wire'[i] = message(c, p)[i - Len(wire)]
  <2>1. wire \in Seq(Byte) /\ message(c, p) \in Seq(Byte) /\ Len(message(c, p)) = 9
    BY MessageType, Lengths DEF TypeOK
  <2> DEFINE m == message(c, p)
  <2> HIDE DEF m
  <2>2. wire \in Seq(Byte) /\ m \in Seq(Byte) /\ Len(m) = 9 /\ wire' = wire \o m
    BY <2>1 DEF m
  <2>3. /\ Len(wire') = Len(wire) + 9
        /\ \A i \in 1..Len(wire) : wire'[i] = wire[i]
        /\ \A i \in Len(wire) + 1 .. Len(wire) + 9 : wire'[i] = m[i - Len(wire)]
    BY <2>2, ConcatNine
  <2> QED BY <2>3 DEF m
<1>3. \A k : Packet(k)' = message(sent'[k][1], sent'[k][2])
  BY DEF Packet
<1>4. \A k \in 1..Len(sent) : Packet(k)' = Packet(k)
  BY <1>1, <1>3 DEF Packet
<1>5. ASSUME NEW k, k = Len(sent) + 1 PROVE Packet(k)' = message(c, p)
  <2>1. sent'[k] = <<c, p>>
    BY <1>1, <1>5
  <2>2. <<c, p>>[1] = c /\ <<c, p>>[2] = p
    OBVIOUS
  <2>3. sent'[k][1] = c /\ sent'[k][2] = p
    BY <2>1, <2>2, Zenon
  <2>4. Packet(k)' = message(sent'[k][1], sent'[k][2])
    BY <1>3
  <2> QED BY <2>3, <2>4, Zenon
<1> QED BY <1>1, <1>2, <1>4, <1>5

(* A packet is written behind what is on the line. *)
LEMMA WriteAligned ==
  ASSUME TypeOK, Aligned,
         NEW c \in Byte, NEW p \in Byte,
         wire' = wire \o message(c, p), sent' = Append(sent, <<c, p>>),
         UNCHANGED <<synced, buff, executed>>
  PROVE  Aligned'
<1> USE DEF Aligned
<1>1. /\ Len(sent') = Len(sent) + 1
      /\ \A i \in 1..Len(sent) : sent'[i] = sent[i]
  BY Written
<1>2. /\ Len(wire') = Len(wire) + 9
      /\ \A i \in 1..Len(wire) : wire'[i] = wire[i]
      /\ \A i \in Len(wire) + 1 .. Len(wire) + 9 :
           wire'[i] = message(c, p)[i - Len(wire)]
  BY Written
<1>3. /\ BytesRead' = BytesRead /\ BytesRead \in Nat
      /\ BytesRead + Len(wire) = 9 * Len(sent)
  BY Lengths DEF BytesRead, Offset, WireIsRest
<1>4. /\ \A k \in 1..Len(sent) : Packet(k)' = Packet(k)
      /\ \A k : k = Len(sent) + 1 => Packet(k)' = message(c, p)
  BY Written
<1>5. WireIsRest'
  <2>1. BytesRead' + Len(wire') = PacketLen * Len(sent')
    <3>1. \A a, w, n \in Nat : a + w = 9 * n => a + (w + 9) = 9 * (n + 1)
      OBVIOUS
    <3>2. BytesRead' + Len(wire') = BytesRead + (Len(wire) + 9)
      BY <1>2, <1>3
    <3>3. PacketLen * Len(sent') = 9 * (Len(sent) + 1)
      BY <1>1, Lengths
    <3> QED BY <1>3, <3>1, <3>2, <3>3, Lengths
  <2>2. ASSUME NEW i \in 1..Len(wire'), NEW k \in 1..Len(sent'),
               NEW j \in 1..PacketLen, BytesRead' + i = PacketLen * (k - 1) + j
        PROVE  wire'[i] = Packet(k)'[j]
    <3>1. BytesRead + i = 9 * (k - 1) + j /\ j \in 1..9
      BY <1>3, <2>2, Lengths
    <3>2. CASE i <= Len(wire)
      <4>1. i \in 1..Len(wire) /\ k \in 1..Len(sent)
        BY <1>1, <1>3, <3>1, <3>2, Lengths
      <4>2. wire[i] = Packet(k)[j]
        BY <3>1, <4>1, Lengths DEF WireIsRest
      <4> QED BY <1>2, <1>4, <4>1, <4>2
    <3>3. CASE i > Len(wire)
      <4>1. /\ i \in Len(wire) + 1 .. Len(wire) + 9
            /\ k = Len(sent) + 1 /\ j = i - Len(wire)
        <5>1. /\ BytesRead \in Nat /\ Len(wire) \in Nat /\ Len(sent) \in Nat
              /\ i \in Nat /\ k \in Nat /\ 1 <= k /\ k <= Len(sent) + 1
              /\ Len(wire) < i /\ i <= Len(wire) + 9
          BY <1>1, <1>2, <1>3, <3>3, Lengths
        <5>2. k = Len(sent) + 1 /\ j = i - Len(wire)
          BY <1>3, <3>1, <5>1, LastPacket
        <5> QED BY <5>1, <5>2
      <4>2. wire'[i] = message(c, p)[j]
        BY <1>2, <4>1
      <4>3. Packet(k)' = message(c, p)
        BY <1>4, <4>1
      <4> QED BY <4>2, <4>3
    <3> QED BY <3>2, <3>3, <1>2, Lengths
  <2> QED BY <2>1, <2>2 DEF WireIsRest
<1>6. BuffIsPacket'
  <2>1. CASE buff = <<>>
    BY <2>1, EmptySeq DEF BuffIsPacket
  <2>2. CASE buff # <<>>
    <3>1. Len(executed) + 1 \in 1..Len(sent)
      BY <2>2, <1>3, Lengths DEF Offset, ExecutedIsPrefix, TypeOK, PACK_START_LEN
    <3> QED BY <1>4, <3>1 DEF BuffIsPacket
  <2> QED BY <2>1, <2>2
<1>7. ExecutedIsPrefix'
  BY <1>1, Lengths DEF ExecutedIsPrefix
<1> QED BY <1>5, <1>6, <1>7

-----------------------------------------------------------------------------
LEMMA InitInv == Init => LinkInv
<1> SUFFICES ASSUME Init PROVE LinkInv
  OBVIOUS
<1>1. TypeOK
  BY CommandLinkAssumption
  DEF Init, TypeOK, Order, Byte, PACK_START_LEN, BUFF_LEN
<1>2. /\ Len(sent) = 0 /\ Len(wire) = 0 /\ Len(executed) = 0 /\ Len(buff) = 0
      /\ synced = 0
  BY EmptySeq DEF Init
<1>3. OnlyCommands /\ BuffIsPacket /\ ExecutedIsPrefix
  BY <1>2 DEF OnlyCommands, BuffIsPacket, ExecutedIsPrefix
<1>4. WireIsRest
  BY <1>2, <1>1, Lengths DEF WireIsRest, Offset
<1> QED BY <1>1, <1>3, <1>4 DEF LinkInv, Aligned

LEMMA StepInv == LinkInv /\ [Next]_vars => LinkInv'
<1> SUFFICES ASSUME LinkInv, [Next]_vars PROVE LinkInv'
  OBVIOUS
<1> USE DEF LinkInv
<1>1. TypeOK'
  BY StepTypes
<1>2. CASE Request
  <2>1. PICK r \in Requests : request_cmd(r[1], r[2])
    BY <1>2 DEF Request
  <2> DEFINE p == ParameterByte(r[2])
  <2>2. UNCHANGED <<synced, buff, executed, damage, toll>>
    BY <1>2 DEF Request
  <2>3. CASE UNCHANGED <<wire, sent>>
    BY <1>1, <2>2, <2>3
    DEF Aligned, WireIsRest, BuffIsPacket, ExecutedIsPrefix, OnlyCommands,
        BytesRead, Offset, Packet
  <2>4. CASE /\ p \in Byte
             /\ wire' = wire \o message(r[1], p)
             /\ sent' = Append(sent, <<r[1], p>>)
    <3>1. r[1] \in 1..7 /\ r[1] \in Byte
      BY RequestIsCommand DEF Byte
    <3>2. OnlyCommands'
      <4>1. /\ sent \in Seq(Order) /\ <<r[1], p>> \in Order
        BY <2>4, <3>1 DEF TypeOK, Order
      <4>2. /\ Len(sent') = Len(sent) + 1 /\ Len(sent) \in Nat
            /\ \A i \in 1..Len(sent) : sent'[i] = sent[i]
            /\ sent'[Len(sent) + 1] = <<r[1], p>>
        BY <2>4, <4>1, AppendProperties, LenProperties
      <4>3. ASSUME NEW i \in 1..Len(sent') PROVE sent'[i][1] \in 1..7
        <5>1. CASE i \in 1..Len(sent)
          BY <4>2, <5>1 DEF OnlyCommands
        <5>2. CASE i = Len(sent) + 1
          BY <3>1, <4>2, <5>2
        <5> QED BY <4>2, <5>1, <5>2
      <4> QED BY <4>3 DEF OnlyCommands
    <3>3. damage = 0 => Aligned'
      BY <2>2, <2>4, <3>1, WriteAligned
    <3> QED BY <1>1, <2>2, <3>2, <3>3
  <2> QED BY <2>1, <2>3, <2>4 DEF request_cmd
<1>3. CASE Receive
  BY <1>1, <1>3, ReceiveCases, ReceiveAligned DEF OnlyCommands
<1>4. CASE LoseBytes \/ Restart
  <2>1. damage' # 0 /\ sent' = sent
    BY <1>4 DEF LoseBytes, Restart, Damage, TypeOK
  <2> QED BY <1>1, <2>1 DEF OnlyCommands
<1>5. CASE UNCHANGED vars
  BY <1>1, <1>5
  DEF vars, Aligned, WireIsRest, BuffIsPacket, ExecutedIsPrefix, OnlyCommands,
      BytesRead, Offset, Packet
<1> QED
  BY <1>2, <1>3, <1>4, <1>5 DEF Next

(* Over an intact line the Arduino executes the commands in the order they   *)
(* were sent, none skipped, doubled or garbled, whatever their parameters    *)
(* (commands.py 159-181, librexc.ino 64-106).                                *)
THEOREM InOrderWhenIntactHolds == Spec => []InOrderWhenIntact
<1>1. LinkInv => InOrderWhenIntact
  BY DEF LinkInv, Aligned, ExecutedIsPrefix, InOrderWhenIntact
<1> QED BY InitInv, StepInv, <1>1, PTL DEF Spec

-----------------------------------------------------------------------------
(* Commands lost to damage                                                   *)
(*                                                                           *)
(* The bytes on a damaged line are still bytes of the packets written, in    *)
(* their order.  place[i] says where in the stream of all packets byte i of  *)
(* the line stands, and hits[i] what the losses before it add to the toll:   *)
(* no more bytes are missing between two of them than these account for.     *)
(* Index 0 is the byte the sketch read last, or should have read; the last   *)
(* index is the first byte of the packet that will be written next.          *)

(* Every byte is that of the packet written at its place. *)
BytesFit(place) ==
  \A i \in 1..Len(wire), k \in 1..Len(sent), j \in 1..PacketLen :
    place[i] = PacketLen * (k - 1) + j => wire[i] = Packet(k)[j]

(* A toll of d accounts for g missing bytes: the first one is for the damage *)
(* itself, and each other for a packet's worth.                              *)
Covers(g, d) ==
  /\ g \in Nat /\ d \in Nat
  /\ g = 0 \/ g <= 9 * (d - 1)

(* The places follow each other with gaps the hits account for. *)
Route(place, hits) ==
  LET n == Len(wire) + 1
  IN  /\ place \in [0..n -> Nat] /\ hits \in [0..n -> Nat]
      /\ place[n] = PacketLen * Len(sent) + 1
      /\ hits[n] <= toll
      /\ \A i, j \in 0..n : i < j =>
           Covers((place[j] - place[i]) - (j - i), hits[j] - hits[i])
      /\ BytesFit(place)

(* How many of the first k commands have not been executed, at most. *)
Lost(k) == k - Len(executed)

(* The parser has read k packets and off bytes of the next, and knows it. *)
InStep(k, off, d) ==
  /\ Lost(k) <= d
  /\ Offset = off
  /\ \A j \in 1..Len(buff) : buff[j] = Packet(k + 1)[PACK_START_LEN + j]

(* A parser that has seen s sync bytes and received n bytes of a packet,     *)
(* wrongly, will look for sync bytes, with none counted, when the packet     *)
(* ends of which off bytes have gone by.                                     *)
Recovers(off, s, n) ==
  \/ s = 3 /\ off + 6 - n <= 9
  \/ /\ s < 3
     /\ \/ off < s
        \/ off \in 1..3 /\ s < off
        \/ off = 4 /\ s = 0
        \/ off = 5 /\ s <= 1
        \/ off \in 6..8

(* It is mistaken about where in packet k + 1 it is, but only in this one. *)
WithinPacket(k, off, d) ==
  Lost(k) + 1 <= d /\ Recovers(off, synced, Len(buff))

(* It may also misread the packet after this one: two more commands to lose. *)
Astray(k, d) == Lost(k) + 2 <= d

(* The parser may be in the state it is in after e bytes and a toll of d. *)
Standing(e, d) ==
  \E k \in Nat, off \in 0..8 :
    /\ e = 9 * k + off
    /\ InStep(k, off, d) \/ WithinPacket(k, off, d) \/ Astray(k, d)

(* After damage the parser has lost no more commands than the toll says. *)
Recovering ==
  \E place \in [0..Len(wire) + 1 -> Nat], hits \in [0..Len(wire) + 1 -> Nat] :
    Route(place, hits) /\ Standing(place[0], hits[0])

DamagedInv == LinkInv /\ Recovering

LEMMA InPackets ==
  ASSUME NEW e \in Nat
  PROVE  \E k \in Nat, off \in 0..8 : e = 9 * k + off
<1>1. e = 9 * (e \div 9) + (e % 9) /\ e % 9 \in 0..8 /\ e \div 9 \in Nat
  OBVIOUS
<1> QED BY <1>1

(* The bytes of the packets that are told from others. *)
LEMMA PacketBytes ==
  ASSUME TypeOK, OnlyCommands, NEW k \in 1..Len(sent)
  PROVE  /\ \A j \in 1..3 : Packet(k)[j] = SYNC_BYTE
         /\ \A j \in 7..9 : Packet(k)[j] # SYNC_BYTE
         /\ Packet(k)[4] # SYNC_BYTE
<1>1. sent[k][1] \in 1..7
  BY DEF OnlyCommands
<1>2. SYNC_BYTE # END_BYTE /\ \A c \in 1..7 : c # SYNC_BYTE
  BY DEF SYNC_BYTE, END_BYTE
<1> QED BY <1>1, <1>2, MessageBytes DEF Packet

(* Nothing is known of the parser: it misreads this packet, at worst. *)
LEMMA ReadAstray ==
  ASSUME TypeOK, OnlyCommands, Receive,
         NEW k \in Nat, NEW off \in 0..8, NEW d \in Nat,
         k + 1 \in 1..Len(sent), Head(wire) = Packet(k + 1)[off + 1],
         Astray(k, d)
  PROVE  Standing(9 * k + (off + 1), d)'
<1>1. /\ synced \in 0..3 /\ Len(buff) \in 0..5 /\ Len(executed) \in Nat
      /\ Len(executed') \in Nat /\ Len(executed') >= Len(executed)
  BY ParserTypes, ParserStep
<1>2. k + 2 <= d + Len(executed)
  BY <1>1 DEF Astray, Lost
<1>3. CASE off < 8
  <2>1. Astray(k, d)'
    BY <1>1, <1>2 DEF Astray, Lost
  <2>2. off + 1 \in 0..8
    BY <1>3
  <2> QED BY <2>1, <2>2 DEF Standing
<1>4. CASE off = 8
  <2>1. Head(wire) # SYNC_BYTE
    BY <1>4, PacketBytes
  <2>2. CASE synced < 3 \/ Len(buff) = 5
    <3>1. synced' = 0 /\ buff' = <<>> /\ Len(buff') = 0
      BY <1>1, <2>1, <2>2, ParserStep
    <3>2. InStep(k + 1, 0, d)'
      BY <1>1, <1>2, <3>1 DEF InStep, Lost, Offset
    <3> QED BY <1>4, <3>2 DEF Standing
  <2>3. CASE synced = 3 /\ Len(buff) < 5
    <3>1. synced' = 3 /\ Len(buff') = Len(buff) + 1
      BY <2>3, ParserStep
    <3>2. WithinPacket(k + 1, 0, d)'
      BY <1>1, <1>2, <3>1 DEF WithinPacket, Recovers, Lost
    <3> QED BY <1>4, <3>2 DEF Standing
  <2> QED BY <2>2, <2>3, ParserTypes
<1> QED BY <1>3, <1>4

(* The parser is in the wrong place of the packet, but will be looking for   *)
(* the next when it ends.                                                    *)
LEMMA ReadWithin ==
  ASSUME TypeOK, OnlyCommands, Receive,
         NEW k \in Nat, NEW off \in 0..8, NEW d \in Nat,
         k + 1 \in 1..Len(sent), Head(wire) = Packet(k + 1)[off + 1],
         WithinPacket(k, off, d)
  PROVE  Standing(9 * k + (off + 1), d)'
<1>1. /\ synced \in 0..3 /\ Len(buff) \in 0..5 /\ Len(executed) \in Nat
      /\ Len(executed') \in Nat /\ Len(executed') >= Len(executed)
  BY ParserTypes, ParserStep
<1>2. k + 1 <= d + Len(executed) /\ Recovers(off, synced, Len(buff))
  BY <1>1 DEF WithinPacket, Lost
<1>3. /\ off \in 0..2 => Head(wire) = SYNC_BYTE
      /\ off = 3 \/ off \in 6..8 => Head(wire) # SYNC_BYTE
  BY PacketBytes
<1>4. CASE off = 8
  <2>1. synced < 3 \/ Len(buff) = 5
    <3> DEFINE n == Len(buff)
    <3>1. synced \in 0..3 /\ n \in 0..5 /\ Recovers(8, synced, n)
      BY <1>1, <1>2, <1>4
    <3>2. synced < 3 \/ n = 5
      <4> HIDE DEF n
      <4> QED BY ONLY <3>1 DEF Recovers
    <3> QED BY <3>2
  <2>2. synced' = 0 /\ buff' = <<>> /\ Len(buff') = 0
    BY <1>1, <1>3, <1>4, <2>1, ParserStep
  <2>3. InStep(k + 1, 0, d)'
    BY <1>1, <1>2, <2>2 DEF InStep, Lost, Offset
  <2> QED BY <1>4, <2>3 DEF Standing
<1>5. CASE off < 8
  <2>1. off \in 0..7 /\ off + 1 \in 0..8
    BY <1>5
  <2>2. /\ synced < 3 => /\ synced' = IF Head(wire) = SYNC_BYTE
                                      THEN synced + 1 ELSE 0
                         /\ Len(buff') = 0
        /\ synced = 3 /\ Len(buff) < 5 =>
             synced' = 3 /\ Len(buff') = Len(buff) + 1
        /\ synced = 3 /\ Len(buff) = 5 => synced' = 0 /\ Len(buff') = 0
    BY ParserStep
  <2>3. Recovers(off + 1, synced', Len(buff'))
    <3> DEFINE b == Head(wire)
               n == Len(buff)
               s2 == synced'
               n2 == Len(buff')
    <3>1. off \in 0..2 => b = SYNC_BYTE
      BY <1>3
    <3>2. off = 3 \/ off \in 6..7 => b # SYNC_BYTE
      BY <1>3, <2>1
    <3>3. synced \in 0..3 /\ n \in 0..5 /\ Recovers(off, synced, n)
      BY <1>1, <1>2
    <3>4. synced < 3 => s2 = (IF b = SYNC_BYTE THEN synced + 1 ELSE 0) /\ n2 = 0
      BY <2>2
    <3>5. synced = 3 /\ n < 5 => s2 = 3 /\ n2 = n + 1
      BY <2>2
    <3>6. synced = 3 /\ n = 5 => s2 = 0 /\ n2 = 0
      BY <2>2
    <3> DEFINE s == synced
    <3> HIDE DEF b, n, s, s2, n2
    <3>7. ASSUME s = 3 PROVE Recovers(off + 1, s2, n2)
      BY ONLY <2>1, <3>3, <3>5, <3>6, <3>7 DEF Recovers, s
    <3>8. ASSUME s < 3 /\ b = SYNC_BYTE PROVE Recovers(off + 1, s2, n2)
      BY ONLY <2>1, <3>2, <3>3, <3>4, <3>8 DEF Recovers, s
    <3>9. ASSUME s < 3 /\ b # SYNC_BYTE PROVE Recovers(off + 1, s2, n2)
      BY ONLY <2>1, <3>1, <3>3, <3>4, <3>9 DEF Recovers, s
    <3>10. s < 3 \/ s = 3
      BY ParserTypes DEF s
    <3>11. Recovers(off + 1, s2, n2)
      BY <3>7, <3>8, <3>9, <3>10
    <3> QED BY <3>11 DEF s2, n2
  <2>4. WithinPacket(k, off + 1, d)'
    BY <1>1, <1>2, <2>3 DEF WithinPacket, Recovers, Lost
  <2> QED BY <2>1, <2>4 DEF Standing
<1> QED BY <1>4, <1>5

(* The parser stands where it should: so it does after the next byte, and    *)
(* a packet it ends is executed.                                             *)
LEMMA ReadInStep ==
  ASSUME TypeOK, OnlyCommands, Receive,
         NEW k \in Nat, NEW off \in 0..8, NEW d \in Nat,
         k + 1 \in 1..Len(sent), Head(wire) = Packet(k + 1)[off + 1],
         InStep(k, off, d)
  PROVE  Standing(9 * k + (off + 1), d)'
<1>1. /\ synced \in 0..3 /\ Len(buff) \in 0..5 /\ Len(executed) \in Nat
      /\ synced + Len(buff) = off
  BY ParserTypes DEF InStep, Offset
<1>2. Packet(k + 1)' = Packet(k + 1) /\ wire # <<>>
  BY ReceiveCases DEF Packet
<1>3. \A j \in 1..Len(buff) : buff[j] = Packet(k + 1)[3 + j]
  BY DEF InStep, PACK_START_LEN
<1>4. k <= d + Len(executed)
  BY <1>1 DEF InStep, Lost
<1>5. CASE synced < 3
  <2>1. Len(buff) = 0 /\ off \in 0..2
    BY <1>1, <1>5, ParserTypes
  <2>2. Head(wire) = SYNC_BYTE
    BY <2>1, PacketBytes
  <2>3. synced' = synced + 1 /\ Len(buff') = 0 /\ executed' = executed
    BY <1>5, <2>2, ParserStep
  <2>4. InStep(k, off + 1, d)'
    BY <1>1, <1>4, <2>1, <2>3 DEF InStep, Lost, Offset
  <2> QED BY <2>1, <2>4 DEF Standing
<1>6. CASE synced = 3 /\ Len(buff) < 5
  <2>1. /\ synced' = 3 /\ executed' = executed
        /\ buff' = Append(buff, Head(wire)) /\ Len(buff') = Len(buff) + 1
    BY <1>6, ParserStep
  <2>2. /\ \A j \in 1..Len(buff) : buff'[j] = buff[j]
        /\ buff'[Len(buff) + 1] = Head(wire)
    BY <1>2, <2>1, AppendProperties, HeadTailProperties DEF TypeOK
  <2>3. off = 3 + Len(buff) /\ off + 1 \in 0..8
    BY <1>1, <1>6
  <2>4. ASSUME NEW j \in 1..Len(buff') PROVE buff'[j] = Packet(k + 1)[3 + j]
    <3>1. CASE j \in 1..Len(buff)
      BY <1>3, <2>2, <3>1
    <3>2. CASE j = Len(buff) + 1
      <4>1. off + 1 = 3 + j
        BY <1>1, <2>3, <3>2
      <4> QED BY <2>2, <3>2, <4>1
    <3> QED BY <1>1, <2>1, <3>1, <3>2
  <2>5. InStep(k, off + 1, d)'
    <3>1. Offset' = off + 1
      BY <1>1, <2>1, <2>3 DEF Offset
    <3>2. Lost(k)' <= d
      BY <1>1, <1>4, <2>1 DEF Lost
    <3> QED BY <1>2, <2>4, <3>1, <3>2 DEF InStep, PACK_START_LEN
  <2> QED BY <2>3, <2>5 DEF Standing
<1>7. CASE synced = 3 /\ Len(buff) = 5
  <2>1. /\ synced' = 0 /\ buff' = <<>> /\ Len(buff') = 0 /\ loop(Head(wire))
        /\ off = 8
    BY <1>1, <1>7, ParserStep
  <2>2. executed' = Append(executed, sent[k + 1]) /\ sent[k + 1] \in Order
    <3>1. Head(wire) = Packet(k + 1)[9]
      BY <2>1
    <3>2. \A j \in 1..5 : buff[j] = Packet(k + 1)[3 + j]
      BY <1>3, <1>7
    <3> QED BY <1>2, <1>7, <2>1, <3>1, <3>2, LoopExecutes
  <2>3. Len(executed') = Len(executed) + 1
    BY <2>2, AppendProperties DEF TypeOK
  <2>4. InStep(k + 1, 0, d)'
    BY <1>1, <1>4, <2>1, <2>3 DEF InStep, Lost, Offset
  <2> QED BY <2>1, <2>4 DEF Standing
<1> QED BY <1>5, <1>6, <1>7, ParserTypes

(* A byte at its place keeps the parser's standing. *)
LEMMA ReadStanding ==
  ASSUME TypeOK, OnlyCommands, Receive, NEW e \in Nat, NEW d \in Nat,
         Standing(e, d), e < 9 * Len(sent),
         \A k \in 1..Len(sent), j \in 1..9 :
           e + 1 = 9 * (k - 1) + j => Head(wire) = Packet(k)[j]
  PROVE  Standing(e + 1, d)'
<1>1. PICK k \in Nat, off \in 0..8 :
        /\ e = 9 * k + off
        /\ InStep(k, off, d) \/ WithinPacket(k, off, d) \/ Astray(k, d)
  BY DEF Standing
<1>2. Len(sent) \in Nat
  BY Lengths
<1>3. k + 1 \in 1..Len(sent) /\ off + 1 \in 1..9
  BY <1>1, <1>2
<1>4. e + 1 = 9 * ((k + 1) - 1) + (off + 1) /\ e + 1 = 9 * k + (off + 1)
  BY <1>1
<1>5. Head(wire) = Packet(k + 1)[off + 1]
  BY <1>3, <1>4
<1>6. Standing(9 * k + (off + 1), d)'
  BY <1>1, <1>3, <1>5, ReadInStep, ReadWithin, ReadAstray
<1> QED BY <1>4, <1>6

-----------------------------------------------------------------------------
(* Bytes that are lost.                                                      *)

LEMMA CoversBoth ==
  ASSUME NEW g, NEW d, NEW h, NEW e, Covers(g, d), Covers(h, e)
  PROVE  Covers(g + h, d + e)
BY DEF Covers

LEMMA PacketsAhead ==
  ASSUME NEW k \in Nat, NEW off \in 0..8, NEW n \in Nat, NEW h \in Nat,
         NEW k2 \in Nat, NEW off2 \in 0..8,
         9 * k + off + n = 9 * k2 + off2, n <= 9 * (h - 1)
  PROVE  h >= 1 /\ k2 >= k /\ k2 <= k + h - 1 /\ (k2 = k + h - 1 => off2 <= off)
OBVIOUS

(* Bytes are lost before the parser.  It goes on with the wrong byte, and    *)
(* has the packets that are gone to lose, and one more.                      *)
LEMMA JumpStanding ==
  ASSUME TypeOK, NEW e \in Nat, NEW d \in Nat, NEW n \in Nat, NEW h \in Nat,
         Standing(e, d), Covers(n, h)
  PROVE  Standing(e + n, d + h)
<1>1. PICK k \in Nat, off \in 0..8 :
        /\ e = 9 * k + off
        /\ InStep(k, off, d) \/ WithinPacket(k, off, d) \/ Astray(k, d)
  BY DEF Standing
<1>2. PICK k2 \in Nat, off2 \in 0..8 : e + n = 9 * k2 + off2
  <2>1. e + n \in Nat
    OBVIOUS
  <2> QED BY ONLY <2>1, InPackets
<1>3. n # 0 => /\ h >= 1 /\ k2 >= k /\ k2 <= k + h - 1
               /\ k2 = k + h - 1 => off2 <= off
  <2>1. n # 0 => n <= 9 * (h - 1)
    BY DEF Covers
  <2> QED BY <1>1, <1>2, <2>1, PacketsAhead
<1> DEFINE x == Len(executed)
           l == Len(buff)
<1>4. /\ synced \in 0..3 /\ l \in 0..5 /\ x \in Nat
      /\ synced < 3 \/ synced = 3
      /\ synced < 3 => buff = <<>> /\ l = 0
  BY ParserTypes
<1>5. CASE n = 0
  <2>1. e + n = e
    BY <1>5
  <2>2. /\ InStep(k, off, d) => InStep(k, off, d + h)
        /\ WithinPacket(k, off, d) => WithinPacket(k, off, d + h)
        /\ Astray(k, d) => Astray(k, d + h)
    BY <1>4 DEF InStep, WithinPacket, Astray, Lost
  <2> QED BY <1>1, <2>1, <2>2 DEF Standing
<1>6. CASE n # 0 /\ ~ (k2 = k + h - 1 /\ InStep(k, off, d))
  <2>1. k <= d + x
    BY <1>1, <1>4 DEF InStep, WithinPacket, Astray, Lost
  <2>2. ~ InStep(k, off, d) => k + 1 <= d + x
    BY <1>1, <1>4 DEF WithinPacket, Astray, Lost
  <2>3. k2 + 2 <= (d + h) + x
    <3> HIDE DEF x
    <3>1. CASE k2 # k + h - 1
      BY <1>3, <1>4, <1>6, <2>1, <3>1
    <3>2. CASE k2 = k + h - 1 /\ ~ InStep(k, off, d)
      BY <1>4, <2>2, <3>2
    <3> QED BY <1>6, <3>1, <3>2
  <2>4. Astray(k2, d + h)
    BY <1>4, <2>3 DEF Astray, Lost
  <2> QED BY <1>2, <2>4 DEF Standing
<1>7. CASE n # 0 /\ k2 = k + h - 1 /\ InStep(k, off, d)
  <2>1. off2 <= off /\ synced + l = off
    BY <1>3, <1>7 DEF InStep, Offset
  <2>2. k2 + 1 <= (d + h) + x
    <3>1. k <= d + x
      BY <1>4, <1>7 DEF InStep, Lost
    <3> HIDE DEF x
    <3> QED BY <1>4, <1>7, <3>1
  <2>3. CASE synced = 3
    <3>1. Recovers(off2, synced, l)
      <4> HIDE DEF l
      <4> QED BY <1>4, <2>1, <2>3 DEF Recovers
    <3>2. WithinPacket(k2, off2, d + h)
      BY <1>4, <2>2, <3>1 DEF WithinPacket, Lost
    <3> QED BY <1>2, <3>2 DEF Standing
  <2>4. CASE synced < 3 /\ off2 < synced
    <3>1. WithinPacket(k2, off2, d + h)
      BY <1>4, <2>2, <2>4 DEF WithinPacket, Recovers, Lost
    <3> QED BY <1>2, <3>1 DEF Standing
  <2>5. CASE synced < 3 /\ off2 = synced
    <3>1. InStep(k2, off2, d + h)
      BY <1>4, <2>1, <2>2, <2>5 DEF InStep, Offset, Lost
    <3> QED BY <1>2, <3>1 DEF Standing
  <2>6. synced = 3 \/ (synced < 3 /\ (off2 < synced \/ off2 = synced))
    <3>1. ASSUME synced < 3 PROVE off2 < synced \/ off2 = synced
      BY ONLY <1>4, <2>1, <3>1
    <3> QED BY <1>4, <3>1
  <2> QED BY <2>3, <2>4, <2>5, <2>6
<1> QED BY <1>5, <1>6, <1>7

(* The Arduino restarts, and the bytes it had received are gone. *)
LEMMA RestartStanding ==
  ASSUME TypeOK, NEW e \in Nat, NEW d \in Nat, NEW n \in Nat, NEW h \in Nat,
         Standing(e, d), Covers(n, h), h > 0,
         synced' = 0, buff' = <<>>, executed' = executed, sent' = sent
  PROVE  Standing(e + n, d + h)'
<1>1. PICK k \in Nat, off \in 0..8 :
        /\ e = 9 * k + off
        /\ InStep(k, off, d) \/ WithinPacket(k, off, d) \/ Astray(k, d)
  BY DEF Standing
<1>2. PICK k2 \in Nat, off2 \in 0..8 : e + n = 9 * k2 + off2
  <2>1. e + n \in Nat
    OBVIOUS
  <2> QED BY ONLY <2>1, InPackets
<1>3. k2 <= k + h - 1
  <2>1. CASE n = 0
    BY <1>1, <1>2, <2>1
  <2>2. CASE n # 0
    <3>1. n <= 9 * (h - 1)
      BY <2>2 DEF Covers
    <3> QED BY <1>1, <1>2, <3>1, PacketsAhead
  <2> QED BY <2>1, <2>2
<1> DEFINE x == Len(executed)
<1>4. x \in Nat /\ Len(executed') = x /\ Len(buff') = 0
  BY ParserTypes, EmptySeq
<1>5. k2 + 1 <= (d + h) + x
  <2>1. k <= d + x
    BY <1>1, <1>4 DEF InStep, WithinPacket, Astray, Lost
  <2> HIDE DEF x
  <2> QED BY <1>3, <1>4, <2>1
<1>6. CASE off2 = 0
  <2>1. InStep(k2, off2, d + h)'
    BY <1>4, <1>5, <1>6 DEF InStep, Offset, Lost
  <2> QED BY <1>2, <2>1 DEF Standing
<1>7. CASE off2 # 0
  <2>1. Recovers(off2, 0, 0)
    BY <1>7 DEF Recovers
  <2>2. WithinPacket(k2, off2, d + h)'
    BY <1>4, <1>5, <2>1 DEF WithinPacket, Recovers, Lost
  <2> QED BY <1>2, <2>2 DEF Standing
<1> QED BY <1>6, <1>7

(* Once the line is empty, every command is executed or accounted for. *)
LEMMA StandingAtTheEnd ==
  ASSUME TypeOK, NEW d \in Nat, Standing(9 * Len(sent), d), d <= toll
  PROVE  Len(sent) - Len(executed) <= toll
<1>1. PICK k \in Nat, off \in 0..8 :
        /\ 9 * Len(sent) = 9 * k + off
        /\ InStep(k, off, d) \/ WithinPacket(k, off, d) \/ Astray(k, d)
  BY DEF Standing
<1>2. Len(sent) \in Nat /\ Len(executed) \in Nat /\ toll \in Nat
  BY Lengths DEF TypeOK
<1>3. k = Len(sent)
  BY <1>1, <1>2
<1>4. k - Len(executed) <= d
  BY <1>1, <1>2 DEF InStep, WithinPacket, Astray, Lost
<1> QED BY <1>2, <1>3, <1>4

-----------------------------------------------------------------------------
(* What the daemon, the line and the power supply do to the route.           *)

LEMMA WithoutElements ==
  ASSUME NEW s \in Seq(Byte), NEW i \in Nat, NEW m \in Nat,
         1 <= i, i + m <= Len(s) + 1
  PROVE  /\ Len(Without(s, i, m)) = Len(s) - m
         /\ \A x \in 1 .. Len(s) - m :
              Without(s, i, m)[x] = s[IF x < i THEN x ELSE x + m]
<1> DEFINE u == SubSeq(s, 1, i - 1)
           v == SubSeq(s, i + m, Len(s))
<1>1. Len(s) \in Nat
  BY LenProperties
<1>2. /\ u \in Seq(Byte) /\ Len(u) = i - 1
      /\ \A x \in 1 .. i - 1 : u[x] = s[x]
  BY <1>1, SubSeqProperties
<1>3. /\ v \in Seq(Byte) /\ Len(v) = Len(s) - (i + m) + 1
      /\ \A x \in 1 .. Len(s) - (i + m) + 1 : v[x] = s[i + m + x - 1]
  BY <1>1, SubSeqProperties
<1>4. /\ Len(u \o v) = Len(u) + Len(v)
      /\ \A x \in 1 .. Len(u) + Len(v) :
           (u \o v)[x] = IF x <= Len(u) THEN u[x] ELSE v[x - Len(u)]
  BY <1>2, <1>3, ConcatProperties
<1>5. Without(s, i, m) = u \o v
  BY DEF Without
<1> HIDE DEF u, v
<1>6. Len(u) + Len(v) = Len(s) - m
  BY <1>1, <1>2, <1>3
<1>7. ASSUME NEW x \in 1 .. Len(s) - m
      PROVE  (u \o v)[x] = s[IF x < i THEN x ELSE x + m]
  <2>1. CASE x < i
    <3>1. Len(u) = i - 1 /\ x \in 1 .. Len(u) + Len(v)
      BY <1>2, <1>6
    <3>2. x <= i - 1 /\ x \in 1 .. i - 1
      BY <1>1, <2>1
    <3>3. (u \o v)[x] = u[x]
      BY <1>4, <3>1, <3>2
    <3> QED BY <1>2, <2>1, <3>2, <3>3
  <2>2. CASE ~ (x < i)
    <3>1. (u \o v)[x] = v[x - (i - 1)]
      <4>1. Len(u) = i - 1 /\ x \in 1 .. Len(u) + Len(v)
        BY <1>2, <1>6
      <4>2. ~ (x <= i - 1)
        BY <1>1, <2>2
      <4>3. (u \o v)[x] = IF x <= i - 1 THEN u[x] ELSE v[x - (i - 1)]
        BY <1>4, <4>1
      <4> QED BY <4>2, <4>3
    <3>2. x - (i - 1) \in 1 .. Len(s) - (i + m) + 1
      BY <1>1, <2>2
    <3>3. v[x - (i - 1)] = s[i + m + (x - (i - 1)) - 1]
      BY <1>3, <3>2
    <3>4. i + m + (x - (i - 1)) - 1 = x + m
      OBVIOUS
    <3> QED BY <2>2, <3>1, <3>3, <3>4
  <2> QED BY <2>1, <2>2
<1> QED BY <1>4, <1>5, <1>6, <1>7

(* The facts about a route that all steps use. *)
LEMMA RouteFacts ==
  ASSUME TypeOK, NEW place, NEW hits, Route(place, hits)
  PROVE  LET n == Len(wire) + 1
         IN  /\ n \in Nat /\ n >= 1
             /\ place \in [0..n -> Nat] /\ hits \in [0..n -> Nat]
             /\ place[n] = 9 * Len(sent) + 1 /\ Len(sent) \in Nat
             /\ hits[n] <= toll /\ toll \in Nat
             /\ \A i, j \in 0..n : i < j =>
                  Covers((place[j] - place[i]) - (j - i), hits[j] - hits[i])
<1>1. PacketLen = 9 /\ Len(sent) \in Nat /\ Len(wire) \in Nat
  BY Lengths
<1>2. toll \in Nat
  BY DEF TypeOK
<1> QED BY <1>1, <1>2 DEF Route

LEMMA CutDistance ==
  ASSUME NEW pa \in Nat, NEW pb \in Nat, NEW ha \in Nat, NEW hb \in Nat,
         NEW a \in Nat, NEW b \in Nat, NEW x \in Nat, NEW y \in Nat,
         NEW u \in Nat, NEW v \in Nat,
         Covers((y - x) - (b - a), v - u), Covers((pb - pa) - (y - x), hb - ha)
  PROVE  Covers((pb - pa) - (b - a), (hb + v) - (ha + u))
<1>1. Covers(((y - x) - (b - a)) + ((pb - pa) - (y - x)), (v - u) + (hb - ha))
  BY CoversBoth
<1>2. /\ ((y - x) - (b - a)) + ((pb - pa) - (y - x)) = (pb - pa) - (b - a)
      /\ (v - u) + (hb - ha) = (hb + v) - (ha + u)
  OBVIOUS
<1> QED BY <1>1, <1>2

(* m bytes are lost before the i-th of those that remain ... *)
CutWire(i, m) ==
  /\ Len(wire') = Len(wire) - m
  /\ \A x \in 1..Len(wire) - m : wire'[x] = wire[IF x < i THEN x ELSE x + m]

(* ... and the route with them, at a toll of t. *)
CutPlaces(place, hits, i, m, t, place2, hits2) ==
  LET n2 == Len(wire) - m + 1
  IN  /\ place2 \in [0..n2 -> Nat] /\ hits2 \in [0..n2 -> Nat]
      /\ \A x \in 0..n2 : x < i => place2[x] = place[x] /\ hits2[x] = hits[x]
      /\ \A x \in 0..n2 : i <= x =>
           place2[x] = place[x + m] /\ hits2[x] = hits[x + m] + t

LEMMA CutRoute ==
  ASSUME TypeOK, NEW place, NEW hits, Route(place, hits),
         NEW m \in Nat, NEW i \in Nat, i + m <= Len(wire) + 1,
         NEW t \in Nat, Covers(m, t),
         NEW place2, NEW hits2,
         CutWire(i, m), CutPlaces(place, hits, i, m, t, place2, hits2),
         sent' = sent, toll' = toll + t
  PROVE  Route(place2, hits2)'
<1> DEFINE n == Len(wire) + 1
           n2 == Len(wire) - m + 1
<1> USE DEF CutWire, CutPlaces
<1>1. /\ n \in Nat /\ n >= 1
      /\ place \in [0..n -> Nat] /\ hits \in [0..n -> Nat]
      /\ place[n] = 9 * Len(sent) + 1 /\ Len(sent) \in Nat
      /\ hits[n] <= toll /\ toll \in Nat
  BY RouteFacts
<1>2. \A a, b \in 0..n : a < b =>
        Covers((place[b] - place[a]) - (b - a), hits[b] - hits[a])
  BY RouteFacts
<1>3. \A x \in 1..Len(wire), k \in 1..Len(sent), j \in 1..9 :
        place[x] = 9 * (k - 1) + j => wire[x] = Packet(k)[j]
  <2>1. PacketLen = 9
    BY Lengths
  <2>2. BytesFit(place)
    BY DEF Route
  <2> QED BY ONLY <2>1, <2>2 DEF BytesFit
<1>4. /\ n2 = n - m /\ n2 \in Nat /\ i <= n2 /\ n2 = Len(wire') + 1
      /\ m \in Nat /\ i \in Nat /\ t \in Nat
  BY <1>1
<1>5. ASSUME NEW x \in 0..n2, x < i
      PROVE  x \in 0..n /\ place2[x] = place[x] /\ hits2[x] = hits[x]
  BY <1>1, <1>4, <1>5
<1>6. ASSUME NEW x \in 0..n2, i <= x
      PROVE  /\ x + m \in 0..n
             /\ place2[x] = place[x + m] /\ hits2[x] = hits[x + m] + t
  BY <1>1, <1>4, <1>6
<1>7. place2 \in [0..n2 -> Nat] /\ hits2 \in [0..n2 -> Nat]
  OBVIOUS
<1> HIDE DEF n, n2
<1>8. ASSUME NEW a \in 0..n2, NEW b \in 0..n2, a < b
      PROVE  Covers((place2[b] - place2[a]) - (b - a), hits2[b] - hits2[a])
  <2> DEFINE p == [x \in {a, b} |-> IF x < i THEN x ELSE x + m]
             q == [x \in {a, b} |-> IF x < i THEN 0 ELSE t]
  <2>1. /\ p[a] \in 0..n /\ p[b] \in 0..n /\ p[a] < p[b]
        /\ Covers((p[b] - p[a]) - (b - a), q[b] - q[a])
        /\ q[a] \in Nat /\ q[b] \in Nat
    BY ONLY <1>1, <1>4, <1>8, a \in 0..n2, b \in 0..n2, Covers(m, t) DEF Covers
  <2>2. place2[a] = place[p[a]] /\ hits2[a] = hits[p[a]] + q[a]
    <3>1. CASE a < i
      BY <1>1, <1>5, <3>1
    <3>2. CASE i <= a
      BY <1>6, <1>4, <3>2
    <3> QED BY <1>4, <3>1, <3>2
  <2>3. place2[b] = place[p[b]] /\ hits2[b] = hits[p[b]] + q[b]
    <3>1. CASE b < i
      BY <1>1, <1>5, <3>1
    <3>2. CASE i <= b
      BY <1>6, <1>4, <3>2
    <3> QED BY <1>4, <3>1, <3>2
  <2> HIDE DEF p, q
  <2>4. Covers((place[p[b]] - place[p[a]]) - (p[b] - p[a]),
               hits[p[b]] - hits[p[a]])
    BY <1>2, <2>1
  <2>5. /\ place[p[a]] \in Nat /\ place[p[b]] \in Nat
        /\ hits[p[a]] \in Nat /\ hits[p[b]] \in Nat
    BY <1>1, <2>1
  <2>6. a \in Nat /\ b \in Nat /\ p[a] \in Nat /\ p[b] \in Nat
    <3>1. n \in Nat /\ n2 \in Nat
      BY <1>1, <1>4
    <3>2. \A y \in Nat : \A z \in 0..y : z \in Nat
      OBVIOUS
    <3> QED BY <2>1, <3>1, <3>2
  <2>7. Covers((place[p[b]] - place[p[a]]) - (b - a),
               (hits[p[b]] + q[b]) - (hits[p[a]] + q[a]))
    BY ONLY <2>1, <2>4, <2>5, <2>6, CutDistance
  <2> QED BY ONLY <2>2, <2>3, <2>7
<1>9. ASSUME NEW x \in 1..Len(wire'), NEW k \in 1..Len(sent), NEW j \in 1..9,
             place2[x] = 9 * (k - 1) + j
      PROVE  wire'[x] = Packet(k)[j]
  <2>1. x \in 0..n2 /\ x \in 1..Len(wire) - m /\ Len(wire) \in Nat
    BY <1>4, Lengths DEF n2
  <2>2. CASE x < i
    <3>1. x \in 1..Len(wire) /\ wire'[x] = wire[x] /\ place[x] = place2[x]
      <4>1. x \in 1..Len(wire)
        BY ONLY <2>1, x \in Nat, m \in Nat
      <4> QED BY <1>5, <2>1, <2>2, <4>1
    <3> QED BY <1>3, <1>9, <3>1
  <2>3. CASE i <= x
    <3>1. /\ x + m \in 1..Len(wire) /\ wire'[x] = wire[x + m]
          /\ place[x + m] = place2[x]
      <4>1. x + m \in 1..Len(wire)
        BY ONLY <2>1, x \in Nat, m \in Nat
      <4>2. ~ (x < i)
        BY ONLY <2>1, <2>3, i \in Nat
      <4> QED BY <1>6, <2>1, <2>3, <4>1, <4>2
    <3> QED BY <1>3, <1>9, <3>1
  <2> QED BY <1>4, <2>1, <2>2, <2>3
<1>10. place2[n2] = 9 * Len(sent) + 1 /\ hits2[n2] <= toll + t
  <2>1. n2 \in 0..n2 /\ i <= n2 /\ n2 + m = n
    BY ONLY <1>1, <1>4
  <2>2. hits[n] \in Nat /\ n \in Nat
    BY <1>1
  <2>3. place2[n2] = place[n] /\ hits2[n2] = hits[n] + t
    BY <1>6, <2>1
  <2>4. \A y \in Nat : y <= toll => y + t <= toll + t
    BY <1>1
  <2> QED BY <1>1, <2>2, <2>3, <2>4
<1>11. Len(wire') + 1 = n2 /\ PacketLen = 9 /\ \A k : Packet(k)' = Packet(k)
  BY <1>4, Lengths DEF Packet
<1>12. Route(place2, hits2)' <=>
         /\ place2 \in [0..n2 -> Nat] /\ hits2 \in [0..n2 -> Nat]
         /\ place2[n2] = 9 * Len(sent) + 1
         /\ hits2[n2] <= toll + t
         /\ \A a, b \in 0..n2 : a < b =>
              Covers((place2[b] - place2[a]) - (b - a), hits2[b] - hits2[a])
         /\ \A x \in 1..Len(wire'), k \in 1..Len(sent), j \in 1..9 :
              place2[x] = 9 * (k - 1) + j => wire'[x] = Packet(k)[j]
  BY <1>11 DEF Route, BytesFit
<1> QED BY <1>7, <1>8, <1>9, <1>10, <1>12

(* An empty line, and nothing written yet. *)
LEMMA InitRecovering == Init => Recovering
<1> SUFFICES ASSUME Init PROVE Recovering
  OBVIOUS
<1>1. TypeOK
  BY InitInv DEF LinkInv
<1>2. /\ Len(sent) = 0 /\ Len(wire) = 0 /\ Len(executed) = 0 /\ Len(buff) = 0
      /\ synced = 0 /\ toll = 0
  BY EmptySeq DEF Init
<1> DEFINE place == [i \in 0..1 |-> i]
           hits == [i \in 0..1 |-> 0]
<1>3. Route(place, hits)
  <2>1. place \in [0..1 -> Nat] /\ hits \in [0..1 -> Nat] /\ place[1] = 1
    OBVIOUS
  <2>2. BytesFit(place)
    BY <1>2 DEF BytesFit
  <2>3. \A i, j \in 0..1 : i < j =>
          Covers((place[j] - place[i]) - (j - i), hits[j] - hits[i])
    BY DEF Covers
  <2>4. hits[1] = 0 /\ Len(wire) + 1 = 1 /\ PacketLen = 9
    BY <1>1, <1>2, Lengths
  <2> QED BY <1>2, <2>1, <2>2, <2>3, <2>4 DEF Route
<1>4. Standing(0, 0)
  <2>1. InStep(0, 0, 0)
    BY <1>2 DEF InStep, Lost, Offset
  <2> QED BY <2>1 DEF Standing
<1>5. /\ place \in [0..Len(wire) + 1 -> Nat] /\ hits \in [0..Len(wire) + 1 -> Nat]
      /\ place[0] = 0 /\ hits[0] = 0
  BY <1>2
<1> QED BY <1>3, <1>4, <1>5 DEF Recovering

(* A route of another line. *)
LEMMA OtherRoute ==
  ASSUME NEW place2, NEW hits2, Route(place2, hits2)',
         Standing(place2[0], hits2[0])'
  PROVE  Recovering'
BY DEF Recovering, Route

(* A step that leaves the packets and the parser alone leaves its standing. *)
LEMMA SameStanding ==
  ASSUME NEW e, NEW d, Standing(e, d), UNCHANGED <<sent, synced, buff, executed>>
  PROVE  Standing(e, d)'
BY DEF Standing, InStep, WithinPacket, Astray, Lost, Offset, Packet

(* The toll of a loss covers it. *)
LEMMA TollCovers ==
  ASSUME NEW n \in Nat
  PROVE  1 + Packets(n) \in Nat \ {0} /\ Covers(n, 1 + Packets(n))
BY PacketsType DEF Covers

LEMMA LoseBytesRecovering ==
  ASSUME TypeOK, Recovering, LoseBytes
  PROVE  Recovering'
<1>1. PICK place \in [0..Len(wire) + 1 -> Nat], hits \in [0..Len(wire) + 1 -> Nat] :
        Route(place, hits) /\ Standing(place[0], hits[0])
  BY DEF Recovering
<1> PICK m \in 1..Len(wire) :
      \E i \in 1..(Len(wire) - m + 1) : wire' = Without(wire, i, m) /\ Damage(m)
  BY DEF LoseBytes
<1>2. PICK i \in 1..(Len(wire) - m + 1) :
        wire' = Without(wire, i, m) /\ Damage(m)
  OBVIOUS
<1>3. /\ m \in Nat /\ i \in Nat /\ 1 <= i /\ i + m <= Len(wire) + 1
      /\ Len(wire) \in Nat
  BY Lengths
<1>4. PICK t \in Nat : t = 1 + Packets(m)
  BY <1>3, TollCovers
<1>5. CutWire(i, m)
  BY <1>2, <1>3, WithoutElements DEF TypeOK, CutWire
<1>6. /\ UNCHANGED <<sent, synced, buff, executed>>
      /\ toll' = toll + t /\ Covers(m, t)
  <2>1. toll' = toll + 1 + Packets(m) /\ UNCHANGED <<sent, synced, buff, executed>>
    BY <1>2 DEF LoseBytes, Damage
  <2>2. Packets(m) \in Nat /\ toll \in Nat
    BY <1>3, PacketsType DEF TypeOK
  <2> QED BY <1>3, <1>4, <2>1, <2>2, TollCovers
<1> DEFINE n2 == Len(wire) - m + 1
<1>7. PICK place2 : place2 = [x \in 0..n2 |-> place[IF x < i THEN x ELSE x + m]]
  OBVIOUS
<1>8. PICK hits2 : hits2 = [x \in 0..n2 |-> IF x < i THEN hits[x] ELSE hits[x + m] + t]
  OBVIOUS
<1>9. CutPlaces(place, hits, i, m, t, place2, hits2)
  <2>1. \A x \in 0..n2 : /\ x < i => x \in 0..Len(wire) + 1
                         /\ ~(x < i) => x + m \in 0..Len(wire) + 1
                         /\ i <= x => ~(x < i)
    BY <1>3
  <2>2. /\ place2 \in [0..n2 -> Nat] /\ hits2 \in [0..n2 -> Nat]
        /\ \A x \in 0..n2 : x < i => place2[x] = place[x] /\ hits2[x] = hits[x]
        /\ \A x \in 0..n2 : i <= x =>
             place2[x] = place[x + m] /\ hits2[x] = hits[x + m] + t
    <3> HIDE DEF n2
    <3> QED BY <1>7, <1>8, <2>1
  <2> QED BY <2>2 DEF CutPlaces
<1>10. Route(place2, hits2)'
  BY <1>1, <1>3, <1>5, <1>6, <1>9, CutRoute
<1>11. Standing(place2[0], hits2[0])'
  <2>1. 0 \in 0..n2 /\ 0 < i
    BY <1>3
  <2>2. place2[0] = place[0] /\ hits2[0] = hits[0]
    BY <1>9, <2>1 DEF CutPlaces
  <2> QED BY <1>1, <1>6, <2>2, SameStanding
<1> QED BY <1>10, <1>11, OtherRoute

LEMMA RestartRecovering ==
  ASSUME TypeOK, Recovering, Restart
  PROVE  Recovering'
<1>1. PICK place \in [0..Len(wire) + 1 -> Nat], hits \in [0..Len(wire) + 1 -> Nat] :
        Route(place, hits) /\ Standing(place[0], hits[0])
  BY DEF Recovering
<1>2. PICK m \in 0..Len(wire) :
        wire' = SubSeq(wire, m + 1, Len(wire)) /\ Damage(m)
  BY DEF Restart
<1>3. m \in Nat /\ m <= Len(wire) /\ m + 0 <= Len(wire) + 1 /\ Len(wire) \in Nat
  BY <1>2, Lengths
<1>t. PICK t \in Nat : t = 1 + Packets(m) /\ t > 0
  BY <1>3, TollCovers
<1>4. /\ Len(wire') = Len(wire) - m
      /\ \A x \in 1..Len(wire) - m : wire'[x] = wire[x + m]
  <2>1. \A x \in 1..Len(wire) : wire[x] \in Byte
    BY DEF TypeOK
  <2>2. /\ Len(wire') = IF m + 1 <= Len(wire) THEN Len(wire) - (m + 1) + 1 ELSE 0
        /\ \A x \in 1 .. Len(wire) - (m + 1) + 1 : wire'[x] = wire[m + 1 + x - 1]
    BY <1>2, <1>3, <2>1, SubSeqProperties
  <2>3. /\ Len(wire) - (m + 1) + 1 = Len(wire) - m
        /\ ~ (m + 1 <= Len(wire)) => Len(wire) - m = 0
        /\ \A x \in 1 .. Len(wire) - m : m + 1 + x - 1 = x + m
    BY <1>2, <1>3
  <2> QED BY <2>2, <2>3
<1>5. /\ sent' = sent /\ executed' = executed /\ synced' = 0 /\ buff' = <<>>
      /\ toll' = toll + t /\ Covers(m, t)
  <2>1. /\ toll' = toll + 1 + Packets(m)
        /\ sent' = sent /\ executed' = executed /\ synced' = 0 /\ buff' = <<>>
    BY <1>2 DEF Restart, Damage
  <2>2. Packets(m) \in Nat /\ toll \in Nat
    BY <1>3, PacketsType DEF TypeOK
  <2> QED BY <1>3, <1>t, <2>1, <2>2, TollCovers
<1> DEFINE n2 == Len(wire) - m + 1
<1>6. PICK place2 : place2 = [x \in 0..n2 |-> place[x + m]]
  OBVIOUS
<1>7. PICK hits2 : hits2 = [x \in 0..n2 |-> hits[x + m] + t]
  OBVIOUS
<1>8. CutPlaces(place, hits, 0, m, t, place2, hits2)
  <2>1. \A x \in 0..n2 : x + m \in 0..Len(wire) + 1 /\ ~ (x < 0)
    BY <1>3
  <2>2. /\ place2 \in [0..n2 -> Nat] /\ hits2 \in [0..n2 -> Nat]
        /\ \A x \in 0..n2 : x < 0 => place2[x] = place[x] /\ hits2[x] = hits[x]
        /\ \A x \in 0..n2 : 0 <= x =>
             place2[x] = place[x + m] /\ hits2[x] = hits[x + m] + t
    <3> HIDE DEF n2
    <3> QED BY <1>6, <1>7, <2>1
  <2> QED BY <2>2 DEF CutPlaces
<1>9. Route(place2, hits2)'
  <2>1. CutWire(0, m)
    BY <1>3, <1>4 DEF CutWire
  <2>2. 0 + m <= Len(wire) + 1
    BY <1>3
  <2> QED BY <1>1, <1>3, <1>5, <1>8, <2>1, <2>2, CutRoute
<1>10. Standing(place2[0], hits2[0])'
  <2> DEFINE e == place[0]
             d == hits[0]
             n == place[m] - place[0]
             h == (hits[m] - hits[0]) + t
  <2>1. /\ e \in Nat /\ d \in Nat /\ place[m] \in Nat /\ hits[m] \in Nat
        /\ 0 \in 0..n2 /\ m \in 0..Len(wire) + 1 /\ 0 \in 0..Len(wire) + 1
    BY <1>3
  <2>2. n \in Nat /\ h \in Nat /\ Covers(n, h) /\ h > 0
    <3> DEFINE g == (place[m] - place[0]) - (m - 0)
               c == hits[m] - hits[0]
    <3>1. Covers(g, c)
      <4>1. CASE m = 0
        <5>1. g = 0 /\ c = 0
          BY <2>1, <4>1
        <5> HIDE DEF g, c
        <5> QED BY <5>1 DEF Covers
      <4>2. CASE 0 < m
        BY <1>1, <2>1, <4>2, RouteFacts
      <4> QED BY <1>3, <4>1, <4>2
    <3>2. n = g + m /\ h = c + t
      BY <1>3, <2>1
    <3>3. Covers(g + m, c + t)
      BY <1>5, <3>1, CoversBoth
    <3>4. c \in Nat /\ g \in Nat
      BY <3>1 DEF Covers
    <3> HIDE DEF g, c, n, h
    <3> QED BY <1>3, <1>t, <3>2, <3>3, <3>4
  <2>3. place2[0] = e + n /\ hits2[0] = d + h
    BY <1>3, <1>8, <2>1 DEF CutPlaces
  <2>4. Standing(e + n, d + h)'
    <3> HIDE DEF e, d, n, h
    <3>1. Standing(e, d)
      BY <1>1 DEF e, d
    <3> QED BY <1>5, <2>1, <2>2, <3>1, RestartStanding
  <2> QED BY <2>3, <2>4
<1> QED BY <1>9, <1>10, OtherRoute

(* The first byte of the line is read: what lay before it is lost for good,  *)
(* and the parser takes it as the one it waits for.                          *)
LEMMA ReceiveRecovering ==
  ASSUME TypeOK, OnlyCommands, Recovering, Receive
  PROVE  Recovering'
<1>1. PICK place \in [0..Len(wire) + 1 -> Nat], hits \in [0..Len(wire) + 1 -> Nat] :
        Route(place, hits) /\ Standing(place[0], hits[0])
  BY DEF Recovering
<1>2. /\ wire # <<>> /\ wire' = Tail(wire) /\ UNCHANGED <<sent, toll>>
  BY ReceiveCases
<1> DEFINE n == Len(wire) + 1
<1>3. /\ Len(wire') = Len(wire) - 1 /\ Len(wire) \in Nat /\ Len(wire) >= 1
      /\ \A i \in 1..Len(wire') : wire'[i] = wire[i + 1]
      /\ Head(wire) = wire[1]
  BY <1>2, HeadTailProperties, Lengths DEF TypeOK
<1>4. /\ place \in [0..n -> Nat] /\ hits \in [0..n -> Nat]
      /\ place[n] = 9 * Len(sent) + 1 /\ Len(sent) \in Nat
      /\ hits[n] <= toll /\ toll \in Nat
  BY <1>1, RouteFacts
<1>5. \A i, j \in 0..n : i < j =>
        Covers((place[j] - place[i]) - (j - i), hits[j] - hits[i])
  BY <1>1, RouteFacts
<1>6. BytesFit(place) /\ PacketLen = 9
  BY <1>1, Lengths DEF Route
<1>7. PICK place2 : place2 = [i \in 0..n - 1 |-> place[i + 1]]
  OBVIOUS
<1>8. PICK hits2 : hits2 = [i \in 0..n - 1 |-> hits[i + 1]]
  OBVIOUS
<1>9. /\ place2 \in [0..n - 1 -> Nat] /\ hits2 \in [0..n - 1 -> Nat]
      /\ \A i \in 0..n - 1 : /\ i + 1 \in 0..n
                             /\ place2[i] = place[i + 1] /\ hits2[i] = hits[i + 1]
  <2>1. n \in Nat /\ n >= 2
    BY <1>3
  <2> HIDE DEF n
  <2>2. \A i \in 0..n - 1 : i + 1 \in 0..n
    BY <2>1
  <2> QED BY <1>4, <1>7, <1>8, <2>2
<1>10. n \in Nat /\ n >= 2 /\ n - 1 = Len(wire') + 1 /\ (n - 1) + 1 = n
  BY <1>3
<1>11. BytesFit(place2)'
  <2> SUFFICES ASSUME NEW i \in 1..Len(wire'), NEW k \in 1..Len(sent'),
                      NEW j \in 1..PacketLen,
                      place2[i] = PacketLen * (k - 1) + j
               PROVE  wire'[i] = Packet(k)'[j]
    BY DEF BytesFit
  <2>1. i + 1 \in 1..Len(wire) /\ i \in 0..n - 1
    BY <1>3
  <2>2. place[i + 1] = PacketLen * (k - 1) + j
    BY <1>9, <2>1
  <2>3. k \in 1..Len(sent) /\ Packet(k)' = Packet(k)
    BY <1>2 DEF Packet
  <2>4. wire[i + 1] = Packet(k)[j]
    BY <1>6, <2>1, <2>2, <2>3 DEF BytesFit
  <2> QED BY <1>3, <2>3, <2>4
<1>12. Route(place2, hits2)'
  <2> HIDE DEF n
  <2>1. ASSUME NEW a \in 0..n - 1, NEW b \in 0..n - 1, a < b
        PROVE  Covers((place2[b] - place2[a]) - (b - a), hits2[b] - hits2[a])
    <3>1. /\ a + 1 \in 0..n /\ b + 1 \in 0..n /\ a + 1 < b + 1
          /\ (b + 1) - (a + 1) = b - a
      BY <1>10, <2>1
    <3>2. /\ place2[a] = place[a + 1] /\ hits2[a] = hits[a + 1]
          /\ place2[b] = place[b + 1] /\ hits2[b] = hits[b + 1]
      BY <1>9
    <3>3. Covers((place[b + 1] - place[a + 1]) - ((b + 1) - (a + 1)),
                 hits[b + 1] - hits[a + 1])
      BY <1>5, <3>1
    <3> QED BY <3>1, <3>2, <3>3
  <2>2. place2[n - 1] = 9 * Len(sent) + 1 /\ hits2[n - 1] <= toll
    <3>1. n - 1 \in 0..n - 1
      BY <1>10
    <3> QED BY <1>4, <1>9, <1>10, <3>1
  <2>3. Route(place2, hits2)' <=>
          /\ place2 \in [0..n - 1 -> Nat] /\ hits2 \in [0..n - 1 -> Nat]
          /\ place2[n - 1] = 9 * Len(sent) + 1
          /\ hits2[n - 1] <= toll
          /\ \A a, b \in 0..n - 1 : a < b =>
               Covers((place2[b] - place2[a]) - (b - a), hits2[b] - hits2[a])
          /\ BytesFit(place2)'
    BY <1>2, <1>6, <1>10 DEF Route
  <2> QED BY <1>9, <1>11, <2>1, <2>2, <2>3
<1>13. Standing(place2[0], hits2[0])'
  <2> DEFINE e == place[0]
             d == hits[0]
             m == place[1] - place[0] - 1
             h == hits[1] - hits[0]
  <2>1. /\ place[0] \in Nat /\ place[1] \in Nat
        /\ hits[0] \in Nat /\ hits[1] \in Nat
    <3>1. 0 \in 0..n /\ 1 \in 0..n
      BY <1>10
    <3> QED BY <1>4, <3>1
  <2>2. Covers((place[1] - place[0]) - (1 - 0), hits[1] - hits[0])
    <3>1. 0 \in 0..n /\ 1 \in 0..n /\ 0 < 1
      BY <1>10
    <3> QED BY <1>5, <3>1
  <2>3. place[1] <= 9 * Len(sent)
    <3>1. 1 \in 0..n /\ n \in 0..n /\ 1 < n
      BY <1>10
    <3>2. (place[n] - place[1]) - (n - 1) \in Nat
      BY <1>5, <3>1 DEF Covers
    <3> HIDE DEF n
    <3> QED BY <1>4, <1>10, <2>1, <3>2
  <2>4. /\ e \in Nat /\ d \in Nat /\ m \in Nat /\ h \in Nat /\ Covers(m, h)
        /\ e + m \in Nat /\ d + h \in Nat
        /\ e + m + 1 = place[1] /\ d + h = hits[1] /\ e + m < 9 * Len(sent)
    <3>1. (place[1] - place[0]) - (1 - 0) = m
      BY <2>1
    <3>2. Covers(m, h)
      BY <2>2, <3>1
    <3>3. m \in Nat /\ h \in Nat
      BY <3>2 DEF Covers
    <3> QED BY <1>4, <2>1, <2>3, <3>2, <3>3
  <2>5. \A k \in 1..Len(sent), j \in 1..9 :
          place[1] = 9 * (k - 1) + j => Head(wire) = Packet(k)[j]
    <3>1. 1 \in 1..Len(wire)
      BY <1>3
    <3> QED BY <1>3, <1>6, <3>1 DEF BytesFit
  <2>6. Standing(e, d)
    BY <1>1
  <2> HIDE DEF e, d, m, h
  <2>7. Standing(e + m, d + h)
    BY <2>4, <2>6, JumpStanding
  <2>8. Standing(e + m + 1, d + h)'
    <3>1. \A k \in 1..Len(sent), j \in 1..9 :
            (e + m) + 1 = 9 * (k - 1) + j => Head(wire) = Packet(k)[j]
      BY <2>4, <2>5
    <3> QED BY <2>4, <2>7, <3>1, ReadStanding
  <2>9. place2[0] = place[1] /\ hits2[0] = hits[1]
    <3>1. 0 \in 0..n - 1 /\ 0 + 1 = 1
      BY <1>10
    <3> QED BY <1>9, <3>1
  <2> QED BY <2>4, <2>8, <2>9
<1> QED BY <1>12, <1>13, OtherRoute

(* The parser's standing does not depend on packets not yet on the line. *)
LEMMA EarlierPackets ==
  ASSUME TypeOK, NEW e \in Nat, NEW d \in Nat, Standing(e, d),
         e <= 9 * Len(sent), Len(sent) \in Nat,
         \A k \in 1..Len(sent) : Packet(k)' = Packet(k),
         UNCHANGED <<synced, buff, executed>>
  PROVE  Standing(e, d)'
<1>1. PICK k \in Nat, off \in 0..8 :
        /\ e = 9 * k + off
        /\ InStep(k, off, d) \/ WithinPacket(k, off, d) \/ Astray(k, d)
  BY DEF Standing
<1>2. InStep(k, off, d) => InStep(k, off, d)'
  <2> SUFFICES ASSUME InStep(k, off, d), NEW j \in 1..Len(buff)
               PROVE  buff[j] = Packet(k + 1)'[PACK_START_LEN + j]
    BY DEF InStep, Lost, Offset
  <2>1. synced = 3 /\ Len(buff) \in Nat /\ Len(buff) > 0
    BY ParserTypes
  <2>2. off > 0
    BY <2>1 DEF InStep, Offset
  <2>3. k + 1 \in 1..Len(sent)
    BY <1>1, <2>2
  <2> QED BY <2>3 DEF InStep
<1>3. WithinPacket(k, off, d) => WithinPacket(k, off, d)'
  BY DEF WithinPacket, Recovers, Lost
<1>4. Astray(k, d) => Astray(k, d)'
  BY DEF Astray, Lost
<1> QED BY <1>1, <1>2, <1>3, <1>4 DEF Standing

(* A packet is written behind what is on the line. *)
LEMMA WriteRecovering ==
  ASSUME TypeOK, Recovering, NEW c \in Byte, NEW p \in Byte,
         wire' = wire \o message(c, p), sent' = Append(sent, <<c, p>>),
         UNCHANGED <<synced, buff, executed, damage, toll>>
  PROVE  Recovering'
<1>1. PICK place \in [0..Len(wire) + 1 -> Nat], hits \in [0..Len(wire) + 1 -> Nat] :
        Route(place, hits) /\ Standing(place[0], hits[0])
  BY DEF Recovering
<1> DEFINE n == Len(wire) + 1
           s == Len(sent)
<1>2. /\ n \in Nat /\ n >= 1
      /\ place \in [0..n -> Nat] /\ hits \in [0..n -> Nat]
      /\ place[n] = 9 * s + 1 /\ s \in Nat
      /\ hits[n] <= toll /\ toll \in Nat
  BY <1>1, RouteFacts
<1>3. \A i, j \in 0..n : i < j =>
        Covers((place[j] - place[i]) - (j - i), hits[j] - hits[i])
  BY <1>1, RouteFacts
<1>4. BytesFit(place) /\ PacketLen = 9 /\ Len(wire) \in Nat
  BY <1>1, Lengths DEF Route
<1>5. /\ Len(sent') = s + 1 /\ Len(wire') = Len(wire) + 9
      /\ \A i \in 1..Len(wire) : wire'[i] = wire[i]
      /\ \A i \in Len(wire) + 1 .. Len(wire) + 9 :
           wire'[i] = message(c, p)[i - Len(wire)]
      /\ \A k \in 1..s : Packet(k)' = Packet(k)
      /\ \A k : k = s + 1 => Packet(k)' = message(c, p)
  BY Written
<1>6. PICK place2 : place2 = [i \in 0..n + 9 |-> IF i <= n THEN place[i]
                                                 ELSE 9 * s + 1 + (i - n)]
  OBVIOUS
<1>7. PICK hits2 : hits2 = [i \in 0..n + 9 |-> IF i <= n THEN hits[i] ELSE hits[n]]
  OBVIOUS
<1> HIDE DEF n, s
<1>8. /\ \A i \in 0..n : /\ i \in 0..n + 9
                         /\ place2[i] = place[i] /\ hits2[i] = hits[i]
      /\ \A i \in n + 1 .. n + 9 : /\ i \in 0..n + 9
                                   /\ place2[i] = 9 * s + 1 + (i - n)
                                   /\ hits2[i] = hits[n]
      /\ \A i \in 0..n + 9 : i \in 0..n \/ i \in n + 1 .. n + 9
      /\ place[n] = 9 * s + 1 /\ n \in 0..n
  <2>1. /\ \A i \in 0..n : i \in 0..n + 9 /\ i <= n
        /\ \A i \in n + 1 .. n + 9 : i \in 0..n + 9 /\ ~ (i <= n)
        /\ \A i \in 0..n + 9 : i \in 0..n \/ i \in n + 1 .. n + 9
        /\ n \in 0..n
    BY ONLY <1>2
  <2> QED BY <1>2, <1>6, <1>7, <2>1
<1>9. place2 \in [0..n + 9 -> Nat] /\ hits2 \in [0..n + 9 -> Nat]
  <2>1. ASSUME NEW i \in 0..n + 9 PROVE place2[i] \in Nat /\ hits2[i] \in Nat
    <3>1. CASE i \in 0..n
      BY <1>2, <1>8, <3>1
    <3>2. CASE i \in n + 1 .. n + 9
      <4>1. 9 * s + 1 + (i - n) \in Nat
        BY ONLY <1>2, <3>2
      <4>2. hits[n] \in Nat
        BY <1>2, <1>8
      <4> QED BY <1>8, <3>2, <4>1, <4>2
    <3> QED BY <1>8, <3>1, <3>2
  <2> QED BY <1>6, <1>7, <2>1
<1>10. ASSUME NEW a \in 0..n + 9, NEW b \in 0..n + 9, a < b
       PROVE  Covers((place2[b] - place2[a]) - (b - a), hits2[b] - hits2[a])
  <2>1. CASE b \in 0..n
    <3>1. a \in 0..n
      BY ONLY <1>2, <1>10, <2>1, a \in 0..n + 9
    <3> QED BY <1>3, <1>8, <1>10, <2>1, <3>1
  <2>2. CASE a \in 0..n /\ b \in n + 1 .. n + 9
    <3> DEFINE pa == place[a]
               ha == hits[a]
               hn == hits[n]
    <3>1. place2[a] = pa /\ hits2[a] = ha /\ place2[b] = 9 * s + 1 + (b - n)
          /\ hits2[b] = hn
      BY <1>8, <2>2
    <3>2. pa \in Nat /\ ha \in Nat /\ hn \in Nat
      BY <1>2, <1>8, <2>2
    <3>3. Covers((9 * s + 1 - pa) - (n - a), hn - ha)
      <4>1. CASE a = n
        <5>1. pa = 9 * s + 1 /\ hn = ha
          BY <1>8, <4>1
        <5> HIDE DEF pa, ha, hn
        <5>2. (9 * s + 1 - pa) - (n - a) = 0 /\ hn - ha = 0
          BY ONLY <1>2, <2>2, <3>2, <4>1, <5>1
        <5> QED BY <5>2 DEF Covers
      <4>2. CASE a < n
        <5>1. Covers((place[n] - place[a]) - (n - a), hits[n] - hits[a])
          BY <1>3, <1>8, <2>2, <4>2
        <5>2. place[n] = 9 * s + 1
          BY <1>8
        <5> QED BY ONLY <5>1, <5>2
      <4>3. a = n \/ a < n
        BY ONLY <1>2, <2>2
      <4> QED BY <4>1, <4>2, <4>3
    <3>4. Covers(((9 * s + 1 + (b - n)) - pa) - (b - a), hn - ha)
      <4> HIDE DEF pa, ha, hn
      <4>1. ((9 * s + 1 + (b - n)) - pa) - (b - a) = (9 * s + 1 - pa) - (n - a)
        BY ONLY <1>2, <2>2, <3>2
      <4> QED BY <3>3, <4>1
    <3> QED BY <3>1, <3>4
  <2>3. CASE a \in n + 1 .. n + 9 /\ b \in n + 1 .. n + 9
    <3>1. /\ place2[a] = 9 * s + 1 + (a - n) /\ place2[b] = 9 * s + 1 + (b - n)
          /\ hits2[a] = hits[n] /\ hits2[b] = hits[n] /\ hits[n] \in Nat
      BY <1>2, <1>8, <2>3
    <3>2. (9 * s + 1 + (b - n)) - (9 * s + 1 + (a - n)) = b - a
      BY ONLY <1>2, <2>3
    <3>3. Covers((b - a) - (b - a), hits[n] - hits[n])
      <4>1. hits[n] - hits[n] = 0 /\ (b - a) - (b - a) = 0
        BY <1>2, <2>3, <3>1
      <4> QED BY <4>1 DEF Covers
    <3> QED BY <3>1, <3>2, <3>3
  <2> QED BY <1>8, <2>1, <2>2, <2>3
<1>11. BytesFit(place2)'
  <2> SUFFICES ASSUME NEW i \in 1..Len(wire'), NEW k \in 1..Len(sent'),
                      NEW j \in 1..PacketLen,
                      place2[i] = PacketLen * (k - 1) + j
               PROVE  wire'[i] = Packet(k)'[j]
    BY DEF BytesFit
  <2>1. place2[i] = 9 * (k - 1) + j /\ j \in 1..9 /\ k \in 1..s + 1
    BY <1>4, <1>5
  <2>2. CASE i \in 1..Len(wire)
    <3>1. i \in 0..n /\ n \in 0..n /\ i < n
      BY <1>4, <2>2 DEF n
    <3>2. place[i] = 9 * (k - 1) + j
      BY <1>8, <2>1, <3>1
    <3>3. (place[n] - place[i]) - (n - i) \in Nat
      BY <1>3, <3>1 DEF Covers
    <3>4. (9 * s + 1) - (9 * (k - 1) + j) > 0
      BY <1>2, <3>1, <3>2, <3>3
    <3>5. k \in 1..s
      BY ONLY <1>2, <2>1, <3>4
    <3>6. wire[i] = Packet(k)[j]
      BY <1>4, <2>2, <3>2, <3>5 DEF BytesFit, s
    <3> QED BY <1>5, <2>2, <3>5, <3>6
  <2>3. CASE i \in Len(wire) + 1 .. Len(wire) + 9
    <3>1. place2[i] = 9 * s + (i - Len(wire))
      <4>1. CASE i = n
        <5>1. n \in 0..n /\ n - Len(wire) = 1
          BY <1>4, <1>8 DEF n
        <5> QED BY <1>8, <4>1, <5>1
      <4>2. CASE i # n
        <5>1. i \in n + 1 .. n + 9 /\ 9 * s + 1 + (i - n) = 9 * s + (i - Len(wire))
          BY <1>2, <1>4, <2>3, <4>2 DEF n
        <5> QED BY <1>8, <5>1
      <4> QED BY <4>1, <4>2
    <3>2. k = s + 1 /\ j = i - Len(wire)
      <4> DEFINE m == i - Len(wire)
      <4>1. 9 * s + m = 9 * (k - 1) + j
        BY <2>1, <3>1
      <4>2. m \in 1..9
        BY ONLY <1>4, <2>3
      <4>3. k \in Nat /\ s \in Nat /\ j \in 1..9
        BY <1>2, <2>1
      <4>4. k = s + 1 /\ j = m
        <5> HIDE DEF m
        <5> QED BY ONLY <4>1, <4>2, <4>3
      <4> QED BY <4>4
    <3> QED BY <1>5, <2>3, <3>2
  <2> QED BY <1>4, <1>5, <2>2, <2>3
<1>12. Route(place2, hits2)'
  <2>1. n + 9 = Len(wire') + 1 /\ 9 * Len(sent') + 1 = 9 * s + 1 + ((n + 9) - n)
    <3>1. n + 9 = Len(wire') + 1
      BY <1>4, <1>5 DEF n
    <3>2. 9 * (s + 1) + 1 = 9 * s + 1 + ((n + 9) - n)
      BY ONLY <1>2
    <3> QED BY <1>5, <3>1, <3>2
  <2>2. n + 9 \in n + 1 .. n + 9
    BY <1>2
  <2>3. place2[n + 9] = 9 * Len(sent') + 1 /\ hits2[n + 9] <= toll
    BY <1>2, <1>8, <2>1, <2>2
  <2>4. Route(place2, hits2)' <=>
          /\ place2 \in [0..n + 9 -> Nat] /\ hits2 \in [0..n + 9 -> Nat]
          /\ place2[n + 9] = 9 * Len(sent') + 1
          /\ hits2[n + 9] <= toll
          /\ \A a, b \in 0..n + 9 : a < b =>
               Covers((place2[b] - place2[a]) - (b - a), hits2[b] - hits2[a])
          /\ BytesFit(place2)'
    BY <1>4, <2>1 DEF Route
  <2> QED BY <1>9, <1>10, <1>11, <2>3, <2>4
<1>13. Standing(place2[0], hits2[0])'
  <2>1. 0 \in 0..n /\ n \in 0..n /\ 0 < n
    BY <1>2
  <2>2. place2[0] = place[0] /\ hits2[0] = hits[0]
        /\ place[0] \in Nat /\ hits[0] \in Nat
    BY <1>2, <1>8, <2>1
  <2>3. place[0] <= 9 * Len(sent)
    <3>1. (place[n] - place[0]) - (n - 0) \in Nat
      BY <1>3, <2>1 DEF Covers
    <3>2. place[n] = 9 * s + 1 /\ place[0] \in Nat /\ n \in Nat /\ n >= 1 /\ s \in Nat
      BY <1>2, <2>2
    <3>3. 9 * s + 1 - place[0] >= 1
      BY ONLY <3>1, <3>2
    <3> QED BY <1>2, <2>2, <3>3 DEF s
  <2>4. Standing(place[0], hits[0])
    BY <1>1
  <2>5. Len(sent) \in Nat /\ \A k \in 1..Len(sent) : Packet(k)' = Packet(k)
    BY <1>2, <1>5 DEF s
  <2>6. Standing(place[0], hits[0])'
    BY <2>2, <2>3, <2>4, <2>5, EarlierPackets
  <2> QED BY <2>2, <2>6
<1> QED BY <1>12, <1>13, OtherRoute

LEMMA IdleRecovering ==
  ASSUME Recovering, UNCHANGED <<sent, wire, synced, buff, executed, toll>>
  PROVE  Recovering'
<1>1. PICK place \in [0..Len(wire) + 1 -> Nat], hits \in [0..Len(wire) + 1 -> Nat] :
        Route(place, hits) /\ Standing(place[0], hits[0])
  BY DEF Recovering
<1>2. BytesFit(place)'
  BY <1>1 DEF Route, BytesFit, Packet
<1>3. Route(place, hits)'
  BY <1>1, <1>2 DEF Route
<1>4. Standing(place[0], hits[0])'
  BY <1>1, SameStanding
<1> QED BY <1>3, <1>4, OtherRoute

LEMMA DamagedStep ==
  DamagedInv /\ [Next]_vars => DamagedInv'
<1> SUFFICES ASSUME DamagedInv, [Next]_vars
             PROVE  DamagedInv'
  OBVIOUS
<1>1. LinkInv /\ LinkInv' /\ TypeOK /\ OnlyCommands /\ Recovering
  BY StepInv DEF DamagedInv, LinkInv
<1>2. CASE Request
  <2>1. PICK r \in Requests : request_cmd(r[1], r[2])
    BY <1>2 DEF Request
  <2> DEFINE p == ParameterByte(r[2])
  <2>2. UNCHANGED <<synced, buff, executed, damage, toll>>
    BY <1>2 DEF Request
  <2>3. CASE UNCHANGED <<wire, sent>>
    <3>1. Recovering'
      BY <1>1, <2>2, <2>3, IdleRecovering
    <3> QED BY <1>1, <3>1 DEF DamagedInv
  <2>4. CASE /\ p \in Byte
             /\ wire' = wire \o message(r[1], p)
             /\ sent' = Append(sent, <<r[1], p>>)
    <3>1. r[1] \in Byte
      BY RequestIsCommand DEF Byte
    <3>2. Recovering'
      BY <1>1, <2>2, <2>4, <3>1, WriteRecovering
    <3> QED BY <1>1, <3>2 DEF DamagedInv
  <2> QED BY <2>1, <2>3, <2>4 DEF request_cmd
<1>3. CASE Receive
  BY <1>1, <1>3, ReceiveRecovering DEF DamagedInv
<1>4. CASE LoseBytes
  BY <1>1, <1>4, LoseBytesRecovering DEF DamagedInv
<1>5. CASE Restart
  BY <1>1, <1>5, RestartRecovering DEF DamagedInv
<1>6. CASE UNCHANGED vars
  <2>1. Recovering'
    BY <1>1, <1>6, IdleRecovering DEF vars
  <2> QED BY <1>1, <2>1 DEF DamagedInv
<1> QED
  BY <1>2, <1>3, <1>4, <1>5, <1>6 DEF Next

LEMMA RecoveringMeans == DamagedInv => Resynchronises
<1> SUFFICES ASSUME DamagedInv, wire = <<>>
             PROVE  Len(sent) - Len(executed) <= toll
  BY DEF Resynchronises
<1>1. TypeOK /\ Len(wire) + 1 = 1
  BY EmptySeq DEF DamagedInv, LinkInv
<1>2. PICK place \in [0..1 -> Nat], hits \in [0..1 -> Nat] :
        Route(place, hits) /\ Standing(place[0], hits[0])
  BY <1>1 DEF DamagedInv, Recovering
<1> DEFINE p0 == place[0]
           p1 == place[1]
           h0 == hits[0]
           h1 == hits[1]
<1>3. p0 \in Nat /\ p1 \in Nat /\ h0 \in Nat /\ h1 \in Nat
  <2>1. 0 \in 0..1 /\ 1 \in 0..1
    OBVIOUS
  <2> QED BY <2>1
<1>4. p1 = 9 * Len(sent) + 1 /\ Len(sent) \in Nat /\ h1 <= toll
  BY <1>1, <1>2, RouteFacts
<1>5. Covers((p1 - p0) - (1 - 0), h1 - h0)
  <2>1. 0 \in 0..Len(wire) + 1 /\ 1 \in 0..Len(wire) + 1 /\ 0 < 1
    BY <1>1
  <2> QED BY <1>1, <1>2, <2>1, RouteFacts
<1>6. /\ p1 - p0 - 1 \in Nat /\ h1 - h0 \in Nat /\ Covers(p1 - p0 - 1, h1 - h0)
      /\ p0 + (p1 - p0 - 1) = 9 * Len(sent) /\ h0 + (h1 - h0) = h1
  <2> HIDE DEF p0, p1, h0, h1
  <2>1. (p1 - p0) - (1 - 0) = p1 - p0 - 1
    BY ONLY <1>3
  <2>2. Covers(p1 - p0 - 1, h1 - h0)
    BY ONLY <1>5, <2>1
  <2> QED BY ONLY <1>3, <1>4, <2>2 DEF Covers
<1>7. Standing(p0, h0)
  BY <1>2
<1> HIDE DEF p0, p1, h0, h1
<1>8. Standing(p0 + (p1 - p0 - 1), h0 + (h1 - h0))
  BY <1>1, <1>3, <1>6, <1>7, JumpStanding
<1>9. Standing(9 * Len(sent), h1)
  BY <1>6, <1>8
<1> QED BY <1>1, <1>3, <1>4, <1>9, StandingAtTheEnd

(* However many bytes the line loses and however often the Arduino restarts, *)
(* with whatever it had received and not read gone, the parser finds its way *)
(* back: when all bytes are read, the commands lost are no more than the     *)
(* packets that the lost bytes make, and one for each loss and each restart  *)
(* (librexc.ino 28-32, 64-106).                                              *)
THEOREM ResynchronisesHolds == Spec => []Resynchronises
<1>1. Init => DamagedInv
  BY InitInv, InitRecovering DEF DamagedInv
<1>2. DamagedInv /\ [Next]_vars => DamagedInv'
  BY DamagedStep
<1> QED BY <1>1, <1>2, RecoveringMeans, PTL DEF Spec
=============================================================================
