--------------------------- MODULE SerialPortProofs ---------------------------
(***************************************************************************)
(* Theorems about module SerialPort, for answers of any length, buffers of *)
(* any size, any number of commands and of reads that fail: the answers    *)
(* arrive in order, and a flush or a failure damages no more than the      *)
(* answers under way and the next.                                         *)
(*                                                                         *)
(* Neither is inductive.  Both need the byte the sketch prints next, which *)
(* the queue of commands determines (Queue).  AnswersInOrder has to say    *)
(* that this byte comes after all that was printed (Order).  DamageIsLocal *)
(* needs to know what readline has got so far: the beginning of the answer *)
(* whose next byte is next (Clean), or something near a hit (Damaged); and *)
(* that the port loses its input all at once (NoGap), so that the place    *)
(* where the input is cut is in an answer that was hit.                    *)
(***************************************************************************)
EXTENDS SerialPort, SequenceTheorems, TLAPS

(* The byte the sketch prints next, whenever that will be. *)
NextByte == IF answering # 0 THEN <<answering, printed + 1>>
                             ELSE <<written - Len(wire) + 1, 1>>

(* The byte that is printed after byte b. *)
Succ(b) == IF IsNewline(b) THEN <<b[1] + 1, 1>> ELSE <<b[1], b[2] + 1>>

(* The bytes Data has still to read, up to the next one of the sketch. *)
Coming == Append(tty, NextByte)

(* Commands go to the sketch in order, none is left out. *)
Queue ==
  /\ requester # "idle" => written < MaxCommands
  /\ Len(wire) <= written
  /\ \A i \in 1..Len(wire) : wire[i] = written - Len(wire) + i
  /\ answering # 0 => answering = written - Len(wire)
  /\ answering = 0 => printed = 0

(* The port drops all or nothing of its input, so what it holds is what the  *)
(* sketch printed last, without a gap.                                       *)
NoGap == \A i \in 1..Len(tty) : Coming[i + 1] = Succ(Coming[i])

(* What arrived comes before what is still to come. *)
Sorted(done, begun, coming) ==
  /\ InOrder(coming) /\ InOrder(begun) /\ Precedes(begun, coming)
  /\ \A i \in 1..Len(done) :
       /\ InOrder(done[i])
       /\ Precedes(done[i], begun) /\ Precedes(done[i], coming)
       /\ \A j \in i + 1..Len(done) : Precedes(done[i], done[j])

Order == Sorted(lines, partial, Coming)

(* Readline has got the beginning of an answer, and its next byte is next. *)
Clean ==
  /\ Coming[1][2] = Len(partial) + 1
  /\ \A i \in 1..Len(partial) : partial[i] = <<Coming[1][1], i>>

Near(k) == k \in hit \/ k - 1 \in hit

(* The next byte is the first of an answer, or its answer is one of those    *)
(* readline has got bytes of, or one that was hit.                           *)
Accounted ==
  \/ Coming[1][2] = 1
  \/ Coming[1][1] \in hit
  \/ \E i \in 1..Len(partial) : partial[i][1] = Coming[1][1]

(* Otherwise what it has got, and what is next, is near a hit. *)
Damaged ==
  /\ \A i \in 1..Len(partial) : Near(partial[i][1])
  /\ Near(Coming[1][1])
  /\ IF partial = <<>> THEN Coming[1][1] \in hit
     ELSE \E i \in 1..Len(partial) : partial[i][1] \in hit
  /\ Accounted

PortInv == TypeOK /\ Queue

DamageInv ==
  /\ NoGap
  /\ Clean \/ Damaged
  /\ DamageIsLocal

-----------------------------------------------------------------------------
(* The types and the queue of commands *)

LEMMA ByteParts ==
  ASSUME NEW b \in Byte
  PROVE  /\ b[1] \in 1..MaxCommands /\ b[2] \in 1..AnswerLen
         /\ b = <<b[1], b[2]>>
BY DEF Byte, Command

LEMMA NextByteType ==
  ASSUME PortInv
  PROVE  /\ NextByte \in (1..MaxCommands + 1) \X (1..AnswerLen)
         /\ NextByte[1] \in 1..MaxCommands + 1
         /\ NextByte[2] \in 1..AnswerLen
         /\ answering # 0 => NextByte \in Byte
<1>1. /\ written \in Nat /\ written <= MaxCommands /\ MaxCommands \in Nat
      /\ Len(wire) \in Nat /\ Len(wire) <= written
      /\ answering \in 0..MaxCommands /\ printed \in 0..AnswerLen - 1
      /\ AnswerLen \in Nat \ {0}
  BY SerialPortAssumption DEF PortInv, TypeOK, Queue
<1>2. CASE answering # 0
  <2>1. answering \in 1..MaxCommands /\ printed + 1 \in 1..AnswerLen
    BY <1>1, <1>2
  <2> QED BY <1>1, <1>2, <2>1 DEF NextByte, Byte, Command
<1>3. CASE answering = 0
  <2>1. written - Len(wire) + 1 \in 1..MaxCommands + 1 /\ 1 \in 1..AnswerLen
    BY <1>1
  <2> QED BY <1>3, <2>1 DEF NextByte
<1> QED BY <1>2, <1>3

LEMMA InitPort == Init => PortInv
<1> SUFFICES ASSUME Init PROVE PortInv
  OBVIOUS
<1>1. TypeOK
  BY SerialPortAssumption DEF Init, TypeOK, Place
<1>2. Queue
  BY SerialPortAssumption DEF Init, Queue
<1> QED BY <1>1, <1>2 DEF PortInv

(* Only what is printed goes in at the end of the input, and only all of it  *)
(* is thrown away.                                                           *)
LEMMA ResetTypes ==
  ASSUME PortInv, reset_input_buffer
  PROVE  tty' \in Seq(Byte) /\ hit' \subseteq Command
<1>1. CommandsOf(tty) \subseteq Command
  BY DEF PortInv, TypeOK, CommandsOf, ToSet, Byte
<1> QED BY <1>1 DEF PortInv, TypeOK, reset_input_buffer

LEMMA StepTypes == PortInv /\ [Next]_vars => TypeOK'
<1> SUFFICES ASSUME PortInv, [Next]_vars PROVE TypeOK'
  OBVIOUS
<1> USE SerialPortAssumption DEF readerVars, requesterVars, sketchVars
<1>0. TypeOK /\ Queue
  BY DEF PortInv
<1>1. CASE OpenPort
  <2>1. tty' \in Seq(Byte) /\ hit' \subseteq Command
    BY <1>0, <1>1, ResetTypes DEF OpenPort, TypeOK
  <2> QED BY <1>0, <1>1, <2>1 DEF OpenPort, TypeOK, Place
<1>2. CASE Select \/ Put \/ notify \/ Sleep
  BY <1>0, <1>2 DEF Select, Put, notify, Sleep, TypeOK, Place
<1>3. CASE Read
  <2>1. /\ tty # <<>> /\ tty' = Tail(tty)
        /\ UNCHANGED <<failures, requester, written, wire, answering, printed, hit>>
    BY <1>3 DEF Read
  <2>2. CASE IsNewline(Head(tty))
    <3>1. Head(tty) \in Byte /\ Tail(tty) \in Seq(Byte)
      BY <1>0, <2>1 DEF TypeOK
    <3>2. Append(partial, Head(tty)) \in Seq(Byte)
      BY <1>0, <3>1 DEF TypeOK
    <3>3. /\ lines' = Append(lines, Append(partial, Head(tty)))
          /\ partial' = <<>> /\ reader' = "put"
      BY <1>3, <2>2 DEF Read
    <3>4. lines' \in Seq(Seq(Byte))
      BY <1>0, <3>2, <3>3 DEF TypeOK
    <3> QED BY <1>0, <2>1, <3>1, <3>3, <3>4 DEF TypeOK, Place
  <2>3. CASE ~IsNewline(Head(tty))
    <3>1. Head(tty) \in Byte /\ Tail(tty) \in Seq(Byte)
      BY <1>0, <2>1 DEF TypeOK
    <3>2. /\ partial' = Append(partial, Head(tty)) /\ reader' = "select"
          /\ lines' = lines
      BY <1>3, <2>3 DEF Read
    <3>3. /\ partial' \in Seq(Byte)
          /\ \A i \in 1..Len(partial') : ~IsNewline(partial'[i])
      BY <1>0, <2>3, <3>1, <3>2, AppendProperties DEF TypeOK
    <3> QED BY <1>0, <2>1, <3>1, <3>2, <3>3 DEF TypeOK, Place
  <2> QED BY <2>2, <2>3
<1>10. CASE ReadNothing \/ ReadFails
  <2>1. GiveUp /\ failures' \in 0..MaxFailures
    BY <1>0, <1>10 DEF ReadNothing, ReadFails, TypeOK
  <2>2. CommandsOf(partial) \subseteq Command
    BY <1>0 DEF TypeOK, CommandsOf, ToSet, Byte
  <2> QED BY <1>0, <2>1, <2>2 DEF GiveUp, TypeOK, Place
<1>4. CASE request_cmd \/ Open
  BY <1>0, <1>4 DEF request_cmd, Open, TypeOK
<1>5. CASE Flush
  <2>1. tty' \in Seq(Byte) /\ hit' \subseteq Command
    BY <1>5, ResetTypes DEF Flush
  <2> QED BY <1>0, <1>5, <2>1 DEF Flush, TypeOK
<1>6. CASE Write
  <2>1. written + 1 \in Command /\ written + 1 \in 0..MaxCommands
    BY <1>0, <1>6 DEF Write, TypeOK, Queue, Command
  <2>2. wire' \in Seq(Command) /\ Len(wire') = Len(wire) + 1
    BY <1>0, <1>6, <2>1, AppendProperties DEF Write, TypeOK
  <2>3. Len(wire') <= WireSize
    BY <1>0, <1>6, <2>2 DEF Write, TypeOK
  <2> QED BY <1>0, <1>6, <2>1, <2>2, <2>3 DEF Write, TypeOK
<1>7. CASE ReceiveData
  <2>1. Head(wire) \in Command /\ Tail(wire) \in Seq(Command)
        /\ Len(Tail(wire)) <= WireSize
    BY <1>0, <1>7 DEF ReceiveData, TypeOK
  <2>2. Head(wire) \in 0..MaxCommands
    BY <2>1 DEF Command
  <2> QED BY <1>0, <1>7, <2>1, <2>2 DEF ReceiveData, TypeOK
<1>8. CASE respond
  <2>1. <<answering, printed + 1>> \in Byte
    BY <1>8, NextByteType DEF respond, NextByte
  <2>2. tty' \in Seq(Byte)
    BY <1>0, <1>8, <2>1 DEF respond, TypeOK
  <2>3. answering' \in 0..MaxCommands /\ printed' \in 0..AnswerLen - 1
    BY <1>0, <1>8 DEF respond, TypeOK
  <2> QED BY <1>0, <1>8, <2>2, <2>3 DEF respond, TypeOK
<1>9. CASE UNCHANGED vars
  BY <1>0, <1>9 DEF vars, TypeOK
<1> QED BY <1>1, <1>2, <1>3, <1>4, <1>5, <1>6, <1>7, <1>8, <1>9, <1>10
        DEF Next, ReaderNext, ReaderGoesOn, RequesterNext, SketchNext

LEMMA StepQueue == PortInv /\ [Next]_vars => Queue'
<1> SUFFICES ASSUME PortInv, [Next]_vars PROVE Queue'
  OBVIOUS
<1> USE SerialPortAssumption DEF readerVars, requesterVars, sketchVars
<1>0. /\ Queue /\ written \in Nat /\ wire \in Seq(Command)
      /\ Len(wire) \in Nat /\ answering \in Nat /\ printed \in Nat
  BY DEF PortInv, TypeOK
<1>1. CASE ReaderNext \/ request_cmd \/ Open \/ Flush
  <2>1. CASE ReaderNext
    <3>1. UNCHANGED <<requester, written, wire, answering, printed>>
      BY <2>1 DEF ReaderNext, ReaderGoesOn, OpenPort, Select, Read, ReadNothing,
                  ReadFails, GiveUp, Put, notify, Sleep
    <3> QED BY <1>0, <3>1 DEF Queue
  <2>2. CASE request_cmd \/ Open \/ Flush
    <3>1. /\ UNCHANGED <<written, wire, answering, printed>>
          /\ requester' # "idle" => requester # "idle" \/ written < MaxCommands
      BY <2>2 DEF request_cmd, Open, Flush
    <3> QED BY <1>0, <3>1 DEF Queue
  <2> QED BY <1>1, <2>1, <2>2
<1>2. CASE Write
  <2>1. /\ written' = written + 1 /\ wire' = Append(wire, written + 1)
        /\ requester' = "idle" /\ UNCHANGED <<answering, printed>>
    BY <1>2 DEF Write
  <2>2. /\ Len(wire') = Len(wire) + 1 /\ wire'[Len(wire) + 1] = written + 1
        /\ \A i \in 1..Len(wire) : wire'[i] = wire[i]
    BY <1>0, <2>1, AppendProperties
  <2>3. \A i \in 1..Len(wire') : wire'[i] = written' - Len(wire') + i
    BY <1>0, <2>1, <2>2 DEF Queue
  <2>4. /\ written' - Len(wire') = written - Len(wire)
        /\ Len(wire') <= written'
    BY <1>0, <2>1, <2>2 DEF Queue
  <2> QED BY <1>0, <2>1, <2>3, <2>4 DEF Queue
<1>3. CASE ReceiveData
  <2>1. /\ wire # <<>> /\ answering' = wire[1] /\ wire' = Tail(wire)
        /\ answering = 0 /\ UNCHANGED <<requester, written, printed>>
    BY <1>3 DEF ReceiveData
  <2>2. /\ Len(wire') = Len(wire) - 1 /\ Len(wire) >= 1
        /\ \A i \in 1..Len(wire) - 1 : wire'[i] = wire[i + 1]
    BY <1>0, <2>1
  <2>3. \A i \in 1..Len(wire') : wire'[i] = written' - Len(wire') + i
    BY <1>0, <2>1, <2>2 DEF Queue
  <2>4. answering' = written' - Len(wire')
    BY <1>0, <2>1, <2>2 DEF Queue
  <2>5. answering' # 0
    BY <1>0, <2>1, <2>2 DEF Command
  <2>6. Len(wire') <= written'
    BY <1>0, <2>1, <2>2 DEF Queue
  <2> QED BY <1>0, <2>1, <2>3, <2>4, <2>5, <2>6 DEF Queue
<1>4. CASE respond
  <2>1. /\ UNCHANGED <<requester, written, wire>>
        /\ \/ answering' = 0 /\ printed' = 0
           \/ answering' = answering
        /\ answering # 0
    BY <1>4 DEF respond
  <2> QED BY <1>0, <2>1 DEF Queue
<1>5. CASE UNCHANGED vars
  BY <1>0, <1>5 DEF vars, Queue
<1> QED BY <1>1, <1>2, <1>3, <1>4, <1>5
        DEF Next, ReaderNext, ReaderGoesOn, RequesterNext, SketchNext

LEMMA StepPort == PortInv /\ [Next]_vars => PortInv'
BY StepTypes, StepQueue DEF PortInv

-----------------------------------------------------------------------------
(* What a step does to the bytes *)

Bytes == Nat \X Nat

LEMMA ComingFacts ==
  ASSUME PortInv
  PROVE  /\ Coming \in Seq(Bytes) /\ Len(Coming) = Len(tty) + 1
         /\ Len(tty) \in Nat
         /\ \A i \in 1..Len(tty) : Coming[i] = tty[i]
         /\ Coming[Len(tty) + 1] = NextByte
<1>1. /\ tty \in Seq(Bytes) /\ NextByte \in Bytes
  <2>1. Byte \subseteq Bytes
    BY SerialPortAssumption DEF Byte, Command, Bytes
  <2>2. tty \in Seq(Byte)
    BY DEF PortInv, TypeOK
  <2>3. NextByte \in Bytes
    BY NextByteType, SerialPortAssumption DEF Bytes
  <2> QED BY <2>1, <2>2, <2>3
<1> QED BY <1>1, AppendProperties DEF Coming

LEMMA ReadTypes ==
  ASSUME PortInv
  PROVE  /\ Byte \subseteq Bytes
         /\ partial \in Seq(Bytes) /\ lines \in Seq(Seq(Bytes))
<1>1. Byte \subseteq Bytes
  BY SerialPortAssumption DEF Byte, Command, Bytes
<1>2. partial \in Seq(Byte) /\ lines \in Seq(Seq(Byte))
  BY DEF PortInv, TypeOK
<1>3. Seq(Byte) \subseteq Seq(Bytes)
  BY <1>1
<1> QED BY <1>1, <1>2, <1>3

(* Nothing is read, printed or thrown away. *)
Quiet == UNCHANGED <<partial, lines, tty, hit, NextByte>>

(* The port is opened. *)
Cut == reset_input_buffer /\ UNCHANGED <<partial, lines, NextByte>>

Taken == Read /\ UNCHANGED NextByte

(* What readline has got is thrown away. *)
Abandoned ==
  /\ partial' = <<>>
  /\ hit' = hit \union CommandsOf(partial)
  /\ UNCHANGED <<lines, tty, NextByte>>

Printed ==
  /\ tty' = Append(tty, NextByte) /\ NextByte' = Succ(NextByte)
  /\ UNCHANGED <<partial, lines, hit>>

LEMMA KindsOfStep ==
  ASSUME PortInv, [Next]_vars
  PROVE  Quiet \/ Cut \/ Taken \/ Abandoned \/ Printed
<1> USE DEF readerVars, requesterVars, sketchVars
<1>0. /\ Queue /\ written \in Nat /\ wire \in Seq(Command)
      /\ Len(wire) \in Nat /\ answering \in Nat /\ printed \in Nat
      /\ AnswerLen \in Nat \ {0} /\ printed <= AnswerLen - 1
  BY SerialPortAssumption DEF PortInv, TypeOK
<1>1. CASE OpenPort
  <2>1. UNCHANGED <<partial, lines, NextByte>>
    BY <1>1 DEF OpenPort, NextByte
  <2>2. CASE reset_input_buffer
    BY <2>1, <2>2 DEF Cut
  <2>3. CASE UNCHANGED <<tty, hit>>
    BY <2>1, <2>3 DEF Quiet
  <2> QED BY <1>1, <2>2, <2>3 DEF OpenPort
<1>2. CASE Select \/ Put \/ notify \/ Sleep \/ request_cmd \/ Open
  BY <1>2 DEF Select, Put, notify, Sleep, request_cmd, Open, Quiet, NextByte
<1>3. CASE Read
  BY <1>3 DEF Read, Taken, NextByte
<1>4. CASE Flush
  BY <1>4 DEF Flush, Cut, NextByte
<1>5. CASE Write
  <2>1. /\ written' = written + 1 /\ wire' = Append(wire, written + 1)
        /\ UNCHANGED <<answering, printed, readerVars, tty, hit>>
    BY <1>5 DEF Write
  <2>2. Len(wire') = Len(wire) + 1
    BY <1>0, <2>1
  <2>3. written' - Len(wire') = written - Len(wire)
    BY <1>0, <2>1, <2>2
  <2> QED BY <2>1, <2>3 DEF Quiet, NextByte
<1>6. CASE ReceiveData
  <2>1. /\ wire # <<>> /\ answering' = wire[1] /\ answering = 0
        /\ UNCHANGED <<printed, readerVars, tty, hit>>
    BY <1>6 DEF ReceiveData
  <2>2. Len(wire) >= 1 /\ wire[1] = written - Len(wire) + 1 /\ wire[1] # 0
    BY <1>0, <2>1 DEF Queue, Command
  <2>3. printed = 0
    BY <1>0, <2>1 DEF Queue
  <2>4. NextByte' = NextByte
    BY <2>1, <2>2, <2>3 DEF NextByte
  <2> QED BY <2>1, <2>4 DEF Quiet
<1>7. CASE respond
  <2>1. /\ answering # 0 /\ UNCHANGED <<readerVars, wire, written, hit>>
        /\ NextByte = <<answering, printed + 1>>
        /\ tty' = Append(tty, NextByte)
    BY <1>7 DEF respond, NextByte
  <2>2. answering = written - Len(wire)
    BY <1>0, <2>1 DEF Queue
  <2>3. CASE printed + 1 = AnswerLen
    <3>1. answering' = 0
      BY <1>7, <2>3 DEF respond
    <3>2. NextByte' = <<answering + 1, 1>>
      BY <2>1, <2>2, <3>1 DEF NextByte
    <3>3. Succ(NextByte) = <<answering + 1, 1>>
      BY <2>1, <2>3 DEF Succ, IsNewline
    <3> QED BY <2>1, <3>2, <3>3 DEF Printed
  <2>4. CASE printed + 1 # AnswerLen
    <3>1. answering' = answering /\ printed' = printed + 1
      BY <1>7, <2>4 DEF respond
    <3>2. NextByte' = <<answering, (printed + 1) + 1>>
      BY <2>1, <3>1 DEF NextByte
    <3>3. Succ(NextByte) = <<answering, (printed + 1) + 1>>
      BY <2>1, <2>4 DEF Succ, IsNewline
    <3> QED BY <2>1, <3>2, <3>3 DEF Printed
  <2> QED BY <2>3, <2>4
<1>8. CASE ReadNothing \/ ReadFails
  BY <1>8 DEF ReadNothing, ReadFails, GiveUp, Abandoned, NextByte
<1>9. CASE UNCHANGED vars
  BY <1>9 DEF vars, Quiet, NextByte
<1> QED BY <1>1, <1>2, <1>3, <1>4, <1>5, <1>6, <1>7, <1>8, <1>9
        DEF Next, ReaderNext, ReaderGoesOn, RequesterNext, SketchNext

(* The same for Coming. *)
LEMMA ComingAfterCut ==
  ASSUME Cut PROVE Coming' = <<NextByte>>
<1>1. tty' = <<>> /\ NextByte' = NextByte
  BY DEF Cut, reset_input_buffer
<1> QED BY <1>1 DEF Coming

LEMMA ComingAfterTaken ==
  ASSUME PortInv, Taken
  PROVE  /\ tty # <<>> /\ Len(Coming) >= 2 /\ Head(tty) = Coming[1]
         /\ Coming' = Tail(Coming)
         /\ tty' = Tail(tty)
         /\ \A i \in 1..Len(tty) : Coming'[i] = Coming[i + 1]
<1>1. tty # <<>> /\ tty' = Tail(tty) /\ NextByte' = NextByte
  BY DEF Taken, Read
<1>2. tty \in Seq(Byte) /\ Len(tty) >= 1 /\ Len(tty) \in Nat
  BY <1>1 DEF PortInv, TypeOK
<1>3. Tail(Append(tty, NextByte)) = Append(Tail(tty), NextByte)
  <2>1. tty \in Seq(Bytes) /\ NextByte \in Bytes
    BY <1>2, ReadTypes, NextByteType, SerialPortAssumption DEF Bytes
  <2>2. /\ Append(tty, NextByte) \in Seq(Bytes)
        /\ Len(Append(tty, NextByte)) = Len(tty) + 1
        /\ \A i \in 1..Len(tty) : Append(tty, NextByte)[i] = tty[i]
        /\ Append(tty, NextByte)[Len(tty) + 1] = NextByte
    BY <2>1, AppendProperties
  <2>3. /\ Tail(tty) \in Seq(Bytes) /\ Len(Tail(tty)) = Len(tty) - 1
        /\ \A i \in 1..Len(tty) - 1 : Tail(tty)[i] = tty[i + 1]
    BY <1>2, <2>1
  <2>4. /\ Append(Tail(tty), NextByte) \in Seq(Bytes)
        /\ Len(Append(Tail(tty), NextByte)) = Len(tty)
        /\ \A i \in 1..Len(tty) - 1 :
             Append(Tail(tty), NextByte)[i] = tty[i + 1]
        /\ Append(Tail(tty), NextByte)[Len(tty)] = NextByte
    BY <1>2, <2>1, <2>3, AppendProperties
  <2>5. /\ Tail(Append(tty, NextByte)) \in Seq(Bytes)
        /\ Len(Tail(Append(tty, NextByte))) = Len(tty)
        /\ \A i \in 1..Len(tty) :
             Tail(Append(tty, NextByte))[i] = Append(tty, NextByte)[i + 1]
    BY <1>2, <2>2
  <2>6. ASSUME NEW i \in 1..Len(tty)
        PROVE  Tail(Append(tty, NextByte))[i] = Append(Tail(tty), NextByte)[i]
    <3>1. CASE i = Len(tty)
      BY <1>2, <2>2, <2>4, <2>5, <3>1
    <3>2. CASE i \in 1..Len(tty) - 1
      BY <1>2, <2>2, <2>4, <2>5, <3>2
    <3> QED BY <1>2, <3>1, <3>2
  <2> QED BY <1>2, <2>4, <2>5, <2>6, SeqEqual
<1>4. Coming' = Tail(Coming)
  BY <1>1, <1>3 DEF Coming
<1>5. /\ Coming \in Seq(Bytes) /\ Len(Coming) = Len(tty) + 1
      /\ Coming[1] = tty[1]
  BY <1>2, ComingFacts
<1>6. \A i \in 1..Len(tty) : Tail(Coming)[i] = Coming[i + 1]
  BY <1>2, <1>5
<1> QED BY <1>1, <1>2, <1>4, <1>5, <1>6

LEMMA ComingAfterAbandoned ==
  ASSUME Abandoned PROVE Coming' = Coming
BY DEF Abandoned, Coming

LEMMA ComingAfterPrinted ==
  ASSUME Printed PROVE Coming' = Append(Coming, Succ(NextByte))
BY DEF Printed, Coming

-----------------------------------------------------------------------------
(* The order of the bytes *)

LEMMA BeforeTransitive ==
  ASSUME NEW a \in Bytes, NEW b \in Bytes, NEW c \in Bytes,
         Before(a, b), Before(b, c)
  PROVE  Before(a, c)
BY DEF Before, Bytes

LEMMA SuccIsAfter == ASSUME NEW b \in Bytes PROVE Before(b, Succ(b))
BY DEF Before, Succ, Bytes

(* The byte after the last one comes after all of them. *)
LEMMA SortedWithNext ==
  ASSUME NEW done \in Seq(Seq(Bytes)), NEW begun \in Seq(Bytes),
         NEW coming \in Seq(Bytes), Len(coming) >= 1,
         NEW b \in Bytes, Before(coming[Len(coming)], b),
         Sorted(done, begun, coming)
  PROVE  Sorted(done, begun, Append(coming, b))
<1> DEFINE n == Len(coming)
           more == Append(coming, b)
<1>1. /\ n \in Nat /\ more \in Seq(Bytes) /\ Len(more) = n + 1
      /\ \A i \in 1..n : more[i] = coming[i] /\ coming[i] \in Bytes
      /\ more[n + 1] = b
  BY AppendProperties
<1>2. \A i \in 1..n : Before(coming[i], b)
  <2> SUFFICES ASSUME NEW i \in 1..n PROVE Before(coming[i], b)
    OBVIOUS
  <2>1. CASE i = n
    BY <2>1
  <2>2. CASE i < n
    <3>1. Before(coming[i], coming[n])
      BY <1>1, <2>2 DEF Sorted, InOrder
    <3> QED BY <1>1, <3>1, BeforeTransitive
  <2> QED BY <1>1, <2>1, <2>2
<1> HIDE DEF n, more
<1>3. InOrder(more)
  <2> SUFFICES ASSUME NEW i \in 1..n + 1, NEW j \in 1..n + 1, i < j
               PROVE  Before(more[i], more[j])
    BY <1>1 DEF InOrder
  <2>1. i \in 1..n
    BY <1>1
  <2>2. CASE j = n + 1
    BY <1>1, <1>2, <2>1, <2>2
  <2>3. CASE j \in 1..n
    BY <1>1, <2>1, <2>3 DEF Sorted, InOrder, n
  <2> QED BY <1>1, <2>2, <2>3
<1>4. ASSUME NEW s \in Seq(Bytes), Precedes(s, coming)
      PROVE  Precedes(s, more)
  <2> SUFFICES ASSUME NEW i \in 1..Len(s), NEW j \in 1..n + 1
               PROVE  Before(s[i], more[j])
    BY <1>1 DEF Precedes
  <2>1. \A k \in 1..n : Before(s[i], coming[k])
    BY <1>4 DEF Precedes, n
  <2>2. s[i] \in Bytes
    OBVIOUS
  <2>3. CASE j = n + 1
    <3>1. n \in 1..n
      BY <1>1 DEF n
    <3> QED BY <1>1, <1>2, <2>1, <2>2, <2>3, <3>1, BeforeTransitive
  <2>4. CASE j \in 1..n
    BY <1>1, <2>1, <2>4
  <2> QED BY <1>1, <2>3, <2>4
<1>5. Precedes(begun, more)
  BY <1>4 DEF Sorted
<1>6. \A i \in 1..Len(done) : done[i] \in Seq(Bytes)
  OBVIOUS
<1>7. \A i \in 1..Len(done) : Precedes(done[i], more)
  BY <1>4, <1>6 DEF Sorted
<1> QED BY <1>3, <1>5, <1>7 DEF Sorted, more

LEMMA SortedAfterCut ==
  ASSUME NEW done, NEW begun, NEW coming \in Seq(Bytes), Len(coming) >= 1,
         Sorted(done, begun, coming)
  PROVE  Sorted(done, begun, <<coming[Len(coming)]>>)
<1>1. Len(coming) \in 1..Len(coming)
  OBVIOUS
<1>2. InOrder(<<coming[Len(coming)]>>)
  BY DEF InOrder
<1>3. ASSUME NEW s, Precedes(s, coming)
      PROVE  Precedes(s, <<coming[Len(coming)]>>)
  BY <1>1, <1>3 DEF Precedes
<1> QED BY <1>2, <1>3 DEF Sorted

(* The first byte to come goes to the end of what readline has got. *)
LEMMA SortedAfterRead ==
  ASSUME NEW done \in Seq(Seq(Bytes)), NEW begun \in Seq(Bytes),
         NEW coming \in Seq(Bytes), Len(coming) >= 2,
         Sorted(done, begun, coming)
  PROVE  Sorted(done, Append(begun, coming[1]), Tail(coming))
<1> DEFINE n == Len(coming)
           m == Len(begun)
           got == Append(begun, coming[1])
           rest == Tail(coming)
<1>1. /\ n \in Nat /\ Len(rest) = n - 1
      /\ \A i \in 1..n - 1 : rest[i] = coming[i + 1]
  OBVIOUS
<1>2. /\ m \in Nat /\ Len(got) = m + 1
      /\ \A i \in 1..m : got[i] = begun[i]
      /\ got[m + 1] = coming[1]
  BY AppendProperties
<1>3. /\ \A i \in 1..m, j \in 1..n : Before(begun[i], coming[j])
      /\ \A i, j \in 1..n : i < j => Before(coming[i], coming[j])
      /\ \A i, j \in 1..m : i < j => Before(begun[i], begun[j])
  BY DEF Sorted, InOrder, Precedes
<1>4. n >= 2
  OBVIOUS
<1> HIDE DEF n, m, got, rest
<1>5. InOrder(rest)
  BY <1>1, <1>3 DEF InOrder
<1>6. InOrder(got)
  <2> SUFFICES ASSUME NEW i \in 1..m + 1, NEW j \in 1..m + 1, i < j
               PROVE  Before(got[i], got[j])
    BY <1>2 DEF InOrder
  <2>1. i \in 1..m
    BY <1>2
  <2>2. CASE j = m + 1
    <3>1. 1 \in 1..n
      BY <1>1, <1>4
    <3>2. Before(begun[i], coming[1])
      BY <1>3, <2>1, <3>1
    <3> QED BY <1>2, <2>1, <2>2, <3>2
  <2>3. CASE j \in 1..m
    BY <1>2, <1>3, <2>1, <2>3
  <2> QED BY <1>2, <2>2, <2>3
<1>7. Precedes(got, rest)
  <2> SUFFICES ASSUME NEW i \in 1..m + 1, NEW j \in 1..n - 1
               PROVE  Before(got[i], rest[j])
    BY <1>1, <1>2 DEF Precedes
  <2>1. /\ rest[j] = coming[j + 1] /\ j + 1 \in 1..n
        /\ 1 \in 1..n /\ 1 < j + 1
    BY <1>1
  <2>2. CASE i = m + 1
    BY <1>2, <1>3, <2>1, <2>2
  <2>3. CASE i \in 1..m
    BY <1>2, <1>3, <2>1, <2>3
  <2> QED BY <1>2, <2>2, <2>3
<1>8. ASSUME NEW s, Precedes(s, begun), Precedes(s, coming)
      PROVE  Precedes(s, got) /\ Precedes(s, rest)
  <2>1. /\ \A i \in 1..Len(s), j \in 1..m : Before(s[i], begun[j])
        /\ \A i \in 1..Len(s), j \in 1..n : Before(s[i], coming[j])
    BY <1>8 DEF Precedes, m, n
  <2>2. ASSUME NEW i \in 1..Len(s), NEW j \in 1..m + 1
        PROVE  Before(s[i], got[j])
    <3>1. CASE j = m + 1
      BY <1>1, <1>2, <1>4, <2>1, <3>1
    <3>2. CASE j \in 1..m
      BY <1>2, <2>1, <3>2
    <3> QED BY <1>2, <3>1, <3>2
  <2>3. ASSUME NEW i \in 1..Len(s), NEW j \in 1..n - 1
        PROVE  Before(s[i], rest[j])
    <3>1. rest[j] = coming[j + 1] /\ j + 1 \in 1..n
      BY <1>1
    <3> QED BY <2>1, <3>1
  <2> QED BY <1>1, <1>2, <2>2, <2>3 DEF Precedes
<1>9. \A i \in 1..Len(done) :
        Precedes(done[i], got) /\ Precedes(done[i], rest)
  BY <1>8 DEF Sorted
<1> QED BY <1>5, <1>6, <1>7, <1>9 DEF Sorted, got, rest

(* What readline has got becomes a line, or is forgotten. *)
LEMMA SortedAfterLine ==
  ASSUME NEW done \in Seq(Seq(Bytes)), NEW begun \in Seq(Bytes), NEW coming,
         Sorted(done, begun, coming)
  PROVE  /\ Sorted(Append(done, begun), <<>>, coming)
         /\ Sorted(done, <<>>, coming)
<1> DEFINE n == Len(done)
           all == Append(done, begun)
<1>1. /\ n \in Nat /\ Len(all) = n + 1
      /\ \A i \in 1..n : all[i] = done[i]
      /\ all[n + 1] = begun
  BY AppendProperties
<1>2. InOrder(<<>>) /\ Precedes(<<>>, coming)
  BY DEF InOrder, Precedes
<1>3. \A s : Precedes(s, <<>>)
  BY DEF Precedes
<1>4. Sorted(done, <<>>, coming)
  BY <1>2, <1>3 DEF Sorted
<1> HIDE DEF n, all
<1>5. ASSUME NEW i \in 1..n + 1
      PROVE  /\ InOrder(all[i]) /\ Precedes(all[i], coming)
             /\ \A j \in i + 1..n + 1 : Precedes(all[i], all[j])
  <2>1. CASE i = n + 1
    BY <1>1, <2>1 DEF Sorted
  <2>2. CASE i \in 1..n
    <3>1. /\ all[i] = done[i] /\ InOrder(done[i]) /\ Precedes(done[i], coming)
          /\ Precedes(done[i], begun)
          /\ \A j \in i + 1..n : Precedes(done[i], done[j])
      BY <1>1, <2>2 DEF Sorted, n
    <3>2. ASSUME NEW j \in i + 1..n + 1 PROVE Precedes(all[i], all[j])
      <4>1. CASE j = n + 1
        BY <1>1, <3>1, <4>1
      <4>2. CASE j \in i + 1..n
        BY <1>1, <3>1, <4>2
      <4> QED BY <1>1, <4>1, <4>2
    <3> QED BY <3>1, <3>2
  <2> QED BY <1>1, <2>1, <2>2
<1>6. Sorted(all, <<>>, coming)
  BY <1>1, <1>2, <1>3, <1>5 DEF Sorted
<1> QED BY <1>4, <1>6 DEF all

LEMMA StepOrder ==
  ASSUME PortInv, Order, [Next]_vars
  PROVE  Order'
<1>1. /\ Coming \in Seq(Bytes) /\ Len(Coming) = Len(tty) + 1
      /\ Len(tty) \in Nat /\ Coming[Len(tty) + 1] = NextByte
      /\ partial \in Seq(Bytes) /\ lines \in Seq(Seq(Bytes))
      /\ Sorted(lines, partial, Coming)
  BY ComingFacts, ReadTypes DEF Order
<1>2. CASE Quiet
  BY <1>1, <1>2 DEF Quiet, Coming, Order
<1>3. CASE Cut
  <2>1. Sorted(lines, partial, <<NextByte>>)
    BY <1>1, SortedAfterCut
  <2> QED BY <1>3, <2>1, ComingAfterCut DEF Cut, Order
<1>4. CASE Taken
  <2>1. /\ Len(Coming) >= 2 /\ Head(tty) = Coming[1]
        /\ Coming' = Tail(Coming)
    BY <1>4, ComingAfterTaken
  <2> DEFINE got == Append(partial, Coming[1])
  <2>2. Sorted(lines, got, Coming')
    BY <1>1, <2>1, SortedAfterRead
  <2>3. got \in Seq(Bytes)
    BY <1>1, <2>1
  <2>4. \/ lines' = Append(lines, got) /\ partial' = <<>>
        \/ partial' = got /\ lines' = lines
    BY <1>4, <2>1 DEF Taken, Read
  <2> HIDE DEF got
  <2>5. Sorted(Append(lines, got), <<>>, Coming')
    BY <1>1, <2>2, <2>3, SortedAfterLine
  <2> QED BY <2>2, <2>4, <2>5 DEF Order
<1>6. CASE Abandoned
  <2>1. Sorted(lines, <<>>, Coming)
    BY <1>1, SortedAfterLine
  <2> QED BY <1>6, <2>1, ComingAfterAbandoned DEF Abandoned, Order
<1>5. CASE Printed
  <2>1. NextByte \in Bytes /\ Succ(NextByte) \in Bytes
    BY NextByteType, SerialPortAssumption DEF Succ, Bytes
  <2>2. Before(Coming[Len(Coming)], Succ(NextByte))
    BY <1>1, <2>1, SuccIsAfter
  <2>3. Sorted(lines, partial, Append(Coming, Succ(NextByte)))
    BY <1>1, <2>1, <2>2, SortedWithNext
  <2> QED BY <1>5, <2>3, ComingAfterPrinted DEF Printed, Order
<1> QED BY <1>2, <1>3, <1>4, <1>5, <1>6, KindsOfStep

LEMMA InitOrder == Init => Order
<1> SUFFICES ASSUME Init PROVE Order
  OBVIOUS
<1>1. /\ Len(Coming) = 1 /\ partial = <<>> /\ lines = <<>>
  BY InitPort, ComingFacts DEF Init
<1> QED BY <1>1 DEF Order, Sorted, InOrder, Precedes

LEMMA OrderInvariance == Spec => [](PortInv /\ Order)
<1>1. Init => PortInv /\ Order
  BY InitPort, InitOrder
<1>2. PortInv /\ Order /\ [Next]_vars => (PortInv /\ Order)'
  BY StepPort, StepOrder
<1> QED BY <1>1, <1>2, PTL DEF Spec

LEMMA OrderSuffices ==
  ASSUME PortInv, Order
  PROVE  AnswersInOrder
<1> DEFINE n == Len(lines)
           all == lines \o <<partial, tty>>
<1>1. /\ n \in Nat /\ Len(all) = n + 2
      /\ \A i \in 1..n : all[i] = lines[i]
      /\ all[n + 1] = partial /\ all[n + 2] = tty
  <2>1. /\ lines \in Seq(Seq(Byte)) /\ <<partial, tty>> \in Seq(Seq(Byte))
        /\ Len(<<partial, tty>>) = 2
    BY DEF PortInv, TypeOK
  <2> QED BY <2>1, ConcatProperties
<1>2. /\ Len(tty) \in Nat /\ Len(Coming) = Len(tty) + 1
      /\ \A i \in 1..Len(tty) : Coming[i] = tty[i]
  BY ComingFacts
<1>3. Sorted(lines, partial, Coming)
  BY DEF Order
<1>4. ASSUME NEW s, Precedes(s, Coming) PROVE Precedes(s, tty)
  <2>1. \A i \in 1..Len(tty) : i \in 1..Len(Coming)
    BY <1>2
  <2> QED BY <1>2, <1>4, <2>1 DEF Precedes
<1>5. InOrder(tty)
  BY <1>2, <1>3 DEF Sorted, InOrder
<1>6. InOrder(partial) /\ Precedes(partial, tty)
  BY <1>3, <1>4 DEF Sorted
<1> HIDE DEF n, all
<1>7. ASSUME NEW i \in 1..n + 2
      PROVE  /\ InOrder(all[i])
             /\ \A j \in i + 1..n + 2 : Precedes(all[i], all[j])
  <2>1. CASE i = n + 2
    BY <1>1, <1>5, <2>1
  <2>2. CASE i = n + 1
    <3>1. \A j \in i + 1..n + 2 : j = n + 2
      BY <1>1, <2>2
    <3> QED BY <1>1, <1>6, <2>2, <3>1
  <2>3. CASE i \in 1..n
    <3>1. /\ InOrder(lines[i])
          /\ Precedes(lines[i], partial) /\ Precedes(lines[i], tty)
          /\ \A j \in i + 1..n : Precedes(lines[i], lines[j])
      BY <1>3, <1>4, <2>3 DEF Sorted, n
    <3>2. ASSUME NEW j \in i + 1..n + 2 PROVE Precedes(all[i], all[j])
      <4>1. CASE j \in i + 1..n
        BY <1>1, <2>3, <3>1, <4>1
      <4>2. CASE j = n + 1 \/ j = n + 2
        BY <1>1, <2>3, <3>1, <4>2
      <4> QED BY <1>1, <2>3, <4>1, <4>2
    <3> QED BY <1>1, <2>3, <3>1, <3>2
  <2> QED BY <1>1, <2>1, <2>2, <2>3
<1> QED BY <1>1, <1>7 DEF AnswersInOrder, PortInv, all

(* Whatever flushes and failing reads throw away, the lines that arrive, and *)
(* the bytes in them, come in the order of the commands, and nothing arrives *)
(* twice (commands.py 176-184, data.py 23-37, serialposix.py 468-512).       *)
THEOREM AnswersInOrderHolds == Spec => []AnswersInOrder
<1>1. PortInv /\ Order => AnswersInOrder
  BY OrderSuffices
<1> QED BY <1>1, OrderInvariance, PTL

-----------------------------------------------------------------------------
(* What a flush damages *)

LEMMA StepNoGap ==
  ASSUME PortInv, NoGap, [Next]_vars
  PROVE  NoGap'
<1>1. /\ Coming \in Seq(Bytes) /\ Len(Coming) = Len(tty) + 1
      /\ Len(tty) \in Nat /\ Coming[Len(tty) + 1] = NextByte
      /\ tty \in Seq(Byte)
  BY ComingFacts DEF PortInv, TypeOK
<1>2. CASE Quiet
  BY <1>2 DEF Quiet, Coming, NoGap
<1>3. CASE Cut
  BY <1>3 DEF Cut, reset_input_buffer, NoGap
<1>4. CASE Taken
  <2>1. /\ tty' = Tail(tty) /\ Len(tty') = Len(tty) - 1
        /\ \A i \in 1..Len(tty) : Coming'[i] = Coming[i + 1]
    BY <1>1, <1>4, ComingAfterTaken
  <2>2. ASSUME NEW i \in 1..Len(tty) - 1
        PROVE  Coming'[i + 1] = Succ(Coming'[i])
    <3>1. i \in 1..Len(tty) /\ i + 1 \in 1..Len(tty)
      BY <1>1
    <3>2. Coming[(i + 1) + 1] = Succ(Coming[i + 1])
      BY <3>1 DEF NoGap
    <3>3. Coming'[i] = Coming[i + 1] /\ Coming'[i + 1] = Coming[(i + 1) + 1]
      BY <2>1, <3>1
    <3> QED BY <3>2, <3>3
  <2> QED BY <2>1, <2>2 DEF NoGap
<1>6. CASE Abandoned
  BY <1>6, ComingAfterAbandoned DEF Abandoned, NoGap
<1>5. CASE Printed
  <2>1. Coming' = Append(Coming, Succ(NextByte)) /\ Succ(NextByte) \in Bytes
    BY <1>5, ComingAfterPrinted, NextByteType, SerialPortAssumption
       DEF Succ, Bytes
  <2>2. /\ Coming'[Len(tty) + 2] = Succ(NextByte)
        /\ \A i \in 1..Len(tty) + 1 : Coming'[i] = Coming[i]
    BY <1>1, <2>1, AppendProperties
  <2>3. tty' = Append(tty, NextByte) /\ Len(tty') = Len(tty) + 1
    <3>1. tty' = Append(tty, NextByte)
      BY <1>5 DEF Printed
    <3> QED BY <1>1, <3>1, LenProperties DEF Printed
  <2>4. ASSUME NEW i \in 1..Len(tty) + 1
        PROVE  Coming'[i + 1] = Succ(Coming'[i])
    <3>1. CASE i = Len(tty) + 1
      BY <1>1, <2>2, <3>1
    <3>2. CASE i \in 1..Len(tty)
      BY <1>1, <2>2, <3>2 DEF NoGap
    <3> QED BY <1>1, <3>1, <3>2
  <2> QED BY <2>3, <2>4 DEF NoGap
<1> QED BY <1>2, <1>3, <1>4, <1>5, <1>6, KindsOfStep

(* The answer the flush cuts is one that is hit, and so is the next byte's   *)
(* answer, unless that one has yet to begin.                                 *)
LEMMA CutIsNearHit ==
  ASSUME PortInv, NoGap, Cut, tty # <<>>
  PROVE  /\ Coming[1][1] \in hit'
         /\ NextByte[2] = 1 \/ NextByte[1] \in hit'
         /\ NextByte[1] \in hit' \/ NextByte[1] - 1 \in hit'
<1> DEFINE n == Len(tty)
<1>1. /\ n \in Nat /\ n >= 1 /\ Coming[n + 1] = NextByte
      /\ Coming[1] = tty[1] /\ Coming[n] = tty[n] /\ tty \in Seq(Byte)
  <2>1. tty \in Seq(Byte)
    BY DEF PortInv, TypeOK
  <2>2. n >= 1 /\ n \in Nat
    BY <2>1
  <2> QED BY <2>1, <2>2, ComingFacts
<1>2. 1 \in 1..n /\ n \in 1..n /\ DOMAIN tty = 1..n
  BY <1>1
<1>3. NextByte = Succ(tty[n])
  BY <1>1, <1>2 DEF NoGap
<1>4. \A i \in 1..n : tty[i][1] \in hit'
  BY <1>2 DEF Cut, reset_input_buffer, CommandsOf, ToSet
<1>5. /\ tty[1][1] \in hit' /\ tty[n][1] \in hit'
      /\ tty[n][1] \in Nat
  <2>1. tty[n] \in Byte
    BY <1>1, <1>2
  <2> QED BY <1>2, <1>4, <2>1, ByteParts, SerialPortAssumption
<1> HIDE DEF n
<1>6. CASE IsNewline(tty[n])
  BY <1>1, <1>3, <1>5, <1>6 DEF Succ
<1>7. CASE ~IsNewline(tty[n])
  BY <1>1, <1>3, <1>5, <1>7 DEF Succ
<1> QED BY <1>6, <1>7

(* The first byte of Coming decides, with partial and hit.                   *)
LEMMA SameHead ==
  ASSUME Coming'[1] = Coming[1], UNCHANGED <<partial, hit>>, Clean \/ Damaged
  PROVE  (Clean \/ Damaged)'
BY DEF Clean, Damaged, Accounted, Near

LEMMA HeadAfterPrinted ==
  ASSUME PortInv, Printed
  PROVE  Coming'[1] = Coming[1]
<1>1. /\ Coming \in Seq(Bytes) /\ Len(Coming) >= 1 /\ Len(Coming) \in Nat
  BY ComingFacts
<1>2. Succ(NextByte) \in Bytes
  BY NextByteType, SerialPortAssumption DEF Succ, Bytes
<1> QED BY <1>1, <1>2, ComingAfterPrinted, AppendProperties

LEMMA CutDamage ==
  ASSUME PortInv, NoGap, Clean \/ Damaged, Cut
  PROVE  (Clean \/ Damaged)'
<1>1. /\ Coming'[1] = NextByte /\ UNCHANGED partial
      /\ tty' = <<>> /\ hit \subseteq hit'
  BY ComingAfterCut DEF Cut, reset_input_buffer
<1>2. CASE tty = <<>>
  <2>1. Coming[1] = NextByte /\ hit' = hit
    BY <1>2, ComingFacts DEF Cut, reset_input_buffer, CommandsOf, ToSet
  <2> QED BY <1>1, <2>1, SameHead
<1>3. CASE tty # <<>>
  <2>1. /\ Coming[1][1] \in hit'
        /\ NextByte[2] = 1 \/ NextByte[1] \in hit'
        /\ NextByte[1] \in hit' \/ NextByte[1] - 1 \in hit'
    BY <1>3, CutIsNearHit
  <2>2. CASE partial = <<>> /\ NextByte[2] = 1
    <3>1. Clean'
      BY <1>1, <2>2 DEF Clean
    <3> QED BY <3>1
  <2>3. CASE partial = <<>> /\ NextByte[1] \in hit'
    <3>1. Damaged'
      BY <1>1, <2>3 DEF Damaged, Accounted, Near
    <3> QED BY <3>1
  <2>4. CASE partial # <<>>
    <3>1. Len(partial) >= 1 /\ 1 \in 1..Len(partial)
      BY <2>4 DEF PortInv, TypeOK
    <3>2. /\ \A i \in 1..Len(partial) :
               partial[i][1] \in hit' \/ partial[i][1] - 1 \in hit'
          /\ \E i \in 1..Len(partial) : partial[i][1] \in hit'
      <4>1. CASE Clean
        <5>1. \A i \in 1..Len(partial) : partial[i][1] = Coming[1][1]
          BY <4>1 DEF Clean
        <5> QED BY <2>1, <3>1, <5>1
      <4>2. CASE Damaged
        BY <1>1, <2>4, <4>2 DEF Damaged, Near
      <4> QED BY <4>1, <4>2
    <3>3. Damaged'
      BY <1>1, <2>1, <2>4, <3>2 DEF Damaged, Accounted, Near
    <3> QED BY <3>3
  <2> QED BY <2>1, <2>2, <2>3, <2>4
<1> QED BY <1>2, <1>3

(* The byte that readline takes.                                             *)
LEMMA TakenByte ==
  ASSUME PortInv, NoGap, Taken
  PROVE  /\ Coming[1] \in Byte /\ Coming[1] = Head(tty)
         /\ Coming'[1] = Succ(Coming[1])
         /\ Append(partial, Coming[1]) \in Seq(Byte)
         /\ Len(Append(partial, Coming[1])) = Len(partial) + 1
         /\ Append(partial, Coming[1])[Len(partial) + 1] = Coming[1]
         /\ \A i \in 1..Len(partial) :
              Append(partial, Coming[1])[i] = partial[i]
         /\ Len(partial) \in Nat
<1>1. /\ partial \in Seq(Byte) /\ tty \in Seq(Byte) /\ tty # <<>>
      /\ Len(tty) >= 1 /\ 1 \in 1..Len(tty)
  BY ComingAfterTaken DEF PortInv, TypeOK
<1>2. /\ Coming[1] = tty[1] /\ Coming[1 + 1] = Succ(Coming[1])
      /\ Coming'[1] = Coming[1 + 1]
  BY <1>1, ComingFacts, ComingAfterTaken DEF NoGap
<1>3. Coming[1] \in Byte /\ Coming[1] = Head(tty)
  BY <1>1, <1>2
<1> QED BY <1>1, <1>2, <1>3, AppendProperties

LEMMA TakenDamage ==
  ASSUME PortInv, NoGap, Clean \/ Damaged, Taken
  PROVE  (Clean \/ Damaged)'
<1>0. hit' = hit /\ NextByte' = NextByte /\ tty # <<>>
  BY DEF Taken, Read
<1> DEFINE F == Coming[1]
           got == Append(partial, F)
<1>1. /\ F \in Byte /\ F = Head(tty) /\ Coming'[1] = Succ(F)
      /\ Len(got) = Len(partial) + 1 /\ got[Len(partial) + 1] = F
      /\ \A i \in 1..Len(partial) : got[i] = partial[i]
      /\ Len(partial) \in Nat
  BY TakenByte
<1>2. F[1] \in Nat /\ F[2] \in Nat /\ F = <<F[1], F[2]>>
  BY <1>1, ByteParts, SerialPortAssumption
<1>3. CASE IsNewline(F)
  <2>1. partial' = <<>>
    BY <1>1, <1>3 DEF Taken, Read
  <2>2. Coming'[1][2] = 1
    BY <1>1, <1>3 DEF Succ
  <2>3. Clean'
    BY <2>1, <2>2 DEF Clean
  <2> QED BY <2>3
<1>4. CASE ~IsNewline(F)
  <2>1. partial' = got
    BY <1>1, <1>4 DEF Taken, Read
  <2> HIDE DEF F, got
  <2>2. Coming'[1] = <<F[1], F[2] + 1>>
    BY <1>1, <1>4 DEF Succ
  <2>3. partial' # <<>>
    BY <1>1, <2>1
  <2>4. CASE Clean
    <3>1. F[2] = Len(partial) + 1
          /\ \A i \in 1..Len(partial) : partial[i] = <<F[1], i>>
      BY <2>4 DEF Clean, F
    <3>2. \A i \in 1..Len(partial) + 1 : got[i] = <<F[1], i>>
      <4> SUFFICES ASSUME NEW i \in 1..Len(partial) + 1
                   PROVE  got[i] = <<F[1], i>>
        OBVIOUS
      <4>1. CASE i = Len(partial) + 1
        BY <1>1, <1>2, <3>1, <4>1
      <4>2. CASE i \in 1..Len(partial)
        BY <1>1, <3>1, <4>2
      <4> QED BY <1>1, <4>1, <4>2
    <3>3. Clean'
      BY <1>1, <2>1, <2>2, <3>1, <3>2 DEF Clean
    <3> QED BY <3>3
  <2>5. CASE Damaged
    <3>1. Near(F[1])
      BY <2>5 DEF Damaged, F
    <3>2. \A i \in 1..Len(got) : Near(got[i][1])
      <4> SUFFICES ASSUME NEW i \in 1..Len(partial) + 1
                   PROVE  Near(got[i][1])
        BY <1>1
      <4>1. CASE i = Len(partial) + 1
        BY <1>1, <3>1, <4>1
      <4>2. CASE i \in 1..Len(partial)
        BY <1>1, <2>5, <4>2 DEF Damaged
      <4> QED BY <1>1, <4>1, <4>2
    <3>3. \E i \in 1..Len(got) : got[i][1] \in hit
      <4>1. CASE partial = <<>>
        BY <1>1, <2>5, <4>1 DEF Damaged, F
      <4>2. CASE partial # <<>>
        <5>1. PICK i \in 1..Len(partial) : partial[i][1] \in hit
          BY <2>5, <4>2 DEF Damaged
        <5> QED BY <1>1, <5>1
      <4> QED BY <4>1, <4>2
    <3>4. \E i \in 1..Len(got) : got[i][1] = F[1]
      BY <1>1
    <3>5. Accounted'
      BY <2>1, <2>2, <3>4 DEF Accounted
    <3>6. Damaged'
      BY <1>0, <2>1, <2>2, <2>3, <3>1, <3>2, <3>3, <3>5 DEF Damaged, Near
    <3> QED BY <3>6
  <2> QED BY <2>4, <2>5
<1> QED BY <1>3, <1>4

(* What readline had got is gone: the rest of it is near a hit.              *)
LEMMA AbandonedDamage ==
  ASSUME PortInv, Clean \/ Damaged, Abandoned
  PROVE  (Clean \/ Damaged)'
<1>1. Coming' = Coming /\ partial' = <<>> /\ hit \subseteq hit'
  BY ComingAfterAbandoned DEF Abandoned
<1>2. \A i \in 1..Len(partial) : partial[i][1] \in hit'
  <2>1. DOMAIN partial = 1..Len(partial)
    BY DEF PortInv, TypeOK
  <2> QED BY <2>1 DEF Abandoned, CommandsOf, ToSet
<1>3. CASE Coming[1][2] = 1
  <2>1. Clean'
    BY <1>1, <1>3 DEF Clean
  <2> QED BY <2>1
<1>4. CASE Coming[1][1] \in hit'
  <2>1. Damaged'
    BY <1>1, <1>4 DEF Damaged, Accounted, Near
  <2> QED BY <2>1
<1>5. Coming[1][2] = 1 \/ Coming[1][1] \in hit'
  <2>1. CASE Clean /\ partial = <<>>
    BY <2>1 DEF Clean
  <2>2. CASE Clean /\ partial # <<>>
    <3>1. 1 \in 1..Len(partial)
      BY <2>2 DEF PortInv, TypeOK
    <3>2. partial[1][1] = Coming[1][1]
      BY <2>2, <3>1 DEF Clean
    <3> QED BY <1>2, <3>1, <3>2
  <2>3. CASE Damaged
    BY <1>1, <1>2, <2>3 DEF Damaged, Accounted
  <2> QED BY <2>1, <2>2, <2>3
<1> QED BY <1>3, <1>4, <1>5

LEMMA StepDamage ==
  ASSUME PortInv, NoGap, Clean \/ Damaged, [Next]_vars
  PROVE  (Clean \/ Damaged)'
<1>1. CASE Quiet
  <2>1. Coming'[1] = Coming[1] /\ UNCHANGED <<partial, hit>>
    BY <1>1 DEF Quiet, Coming
  <2> QED BY <2>1, SameHead
<1>2. CASE Cut
  BY <1>2, CutDamage
<1>3. CASE Taken
  BY <1>3, TakenDamage
<1>4. CASE Printed
  <2>1. Coming'[1] = Coming[1] /\ UNCHANGED <<partial, hit>>
    BY <1>4, HeadAfterPrinted DEF Printed
  <2> QED BY <2>1, SameHead
<1>5. CASE Abandoned
  BY <1>5, AbandonedDamage
<1> QED BY <1>1, <1>2, <1>3, <1>4, <1>5, KindsOfStep

(* A line is an answer as it was printed, or near a hit. *)
IsLocal(line) ==
  \/ \E k \in Command : line = Answer(k)
  \/ /\ CommandsOf(line) \intersect hit # {}
     /\ \A k \in CommandsOf(line) : Near(k)

LEMMA LocalLines ==
  DamageIsLocal <=> \A i \in 1..Len(lines) : IsLocal(lines[i])
BY DEF DamageIsLocal, IsLocal, Near

LEMMA NewLineIsLocal ==
  ASSUME PortInv, NoGap, Clean \/ Damaged, Taken, IsNewline(Coming[1])
  PROVE  IsLocal(Append(partial, Coming[1]))
<1> DEFINE F == Coming[1]
           line == Append(partial, F)
<1>1. /\ F \in Byte /\ line \in Seq(Byte)
      /\ Len(line) = Len(partial) + 1 /\ line[Len(partial) + 1] = F
      /\ \A i \in 1..Len(partial) : line[i] = partial[i]
      /\ Len(partial) \in Nat
  BY TakenByte
<1>2. /\ F[1] \in Command /\ F = <<F[1], F[2]>> /\ F[2] = AnswerLen
      /\ AnswerLen \in Nat \ {0}
  BY <1>1, ByteParts, SerialPortAssumption DEF Command, IsNewline
<1>3. CASE Clean
  <2>1. /\ F[2] = Len(partial) + 1
        /\ \A i \in 1..Len(partial) : partial[i] = <<F[1], i>>
    BY <1>3 DEF Clean
  <2> HIDE DEF F, line
  <2>2. \A i \in 1..AnswerLen : line[i] = <<F[1], i>>
    <3> SUFFICES ASSUME NEW i \in 1..AnswerLen PROVE line[i] = <<F[1], i>>
      OBVIOUS
    <3>1. CASE i = Len(partial) + 1
      BY <1>1, <1>2, <2>1, <3>1
    <3>2. CASE i \in 1..Len(partial)
      BY <1>1, <2>1, <3>2
    <3> QED BY <1>1, <1>2, <2>1, <3>1, <3>2
  <2>3. Len(line) = AnswerLen
    BY <1>1, <1>2, <2>1
  <2>4. line = [i \in 1..AnswerLen |-> line[i]]
    BY <1>1, <2>3, LenProperties
  <2>5. line = Answer(F[1])
    BY <2>2, <2>4 DEF Answer
  <2> QED BY <1>2, <2>5 DEF IsLocal, F, line
<1>4. CASE Damaged
  <2>1. /\ \A i \in 1..Len(partial) : Near(partial[i][1])
        /\ Near(F[1])
        /\ partial = <<>> => F[1] \in hit
        /\ partial # <<>> => \E i \in 1..Len(partial) : partial[i][1] \in hit
    BY <1>4 DEF Damaged
  <2> HIDE DEF F, line
  <2>2. \A k : k \in CommandsOf(line) <=>
                 \E i \in 1..Len(partial) + 1 : k = line[i][1]
    <3>1. DOMAIN line = 1..Len(partial) + 1
      BY <1>1
    <3> QED BY <3>1 DEF CommandsOf, ToSet
  <2>3. \A i \in 1..Len(partial) + 1 : Near(line[i][1])
    <3> SUFFICES ASSUME NEW i \in 1..Len(partial) + 1
                 PROVE  Near(line[i][1])
      OBVIOUS
    <3>1. CASE i = Len(partial) + 1
      BY <1>1, <2>1, <3>1
    <3>2. CASE i \in 1..Len(partial)
      BY <1>1, <2>1, <3>2
    <3> QED BY <1>1, <3>1, <3>2
  <2>4. \E i \in 1..Len(partial) + 1 : line[i][1] \in hit
    <3>1. CASE partial = <<>>
      BY <1>1, <2>1, <3>1
    <3>2. CASE partial # <<>>
      <4>1. PICK i \in 1..Len(partial) : partial[i][1] \in hit
        BY <2>1, <3>2
      <4> QED BY <1>1, <4>1
    <3> QED BY <3>1, <3>2
  <2>5. IsLocal(line)
    BY <2>2, <2>3, <2>4 DEF IsLocal
  <2> QED BY <2>5 DEF F, line
<1> QED BY <1>3, <1>4

LEMMA StepLocal ==
  ASSUME PortInv, NoGap, Clean \/ Damaged, DamageIsLocal, [Next]_vars
  PROVE  DamageIsLocal'
<1>1. hit \subseteq hit'
  BY KindsOfStep DEF Quiet, Cut, reset_input_buffer, Taken, Read, Abandoned,
                     Printed
<1>2. CASE UNCHANGED lines
  BY <1>1, <1>2 DEF DamageIsLocal
<1>3. CASE lines' # lines
  <2>1. Taken
    BY <1>3, KindsOfStep DEF Quiet, Cut, Abandoned, Printed
  <2> DEFINE line == Append(partial, Coming[1])
  <2>2. Coming[1] = Head(tty) /\ line \in Seq(Byte)
    BY <2>1, TakenByte
  <2>3. IsNewline(Coming[1]) /\ lines' = Append(lines, line)
    BY <1>3, <2>1, <2>2 DEF Taken, Read
  <2>4. IsLocal(line)
    BY <2>1, <2>3, NewLineIsLocal
  <2> HIDE DEF line
  <2>5. /\ Len(lines) \in Nat /\ Len(lines') = Len(lines) + 1
        /\ lines'[Len(lines) + 1] = line
        /\ \A i \in 1..Len(lines) : lines'[i] = lines[i]
    BY <2>2, <2>3, AppendProperties DEF PortInv, TypeOK
  <2>6. ASSUME NEW i \in 1..Len(lines) + 1
        PROVE  IsLocal(lines'[i])
    <3>1. CASE i = Len(lines) + 1
      BY <2>4, <2>5, <3>1
    <3>2. CASE i \in 1..Len(lines)
      BY <2>5, <3>2, LocalLines
    <3> QED BY <2>5, <3>1, <3>2
  <2>7. hit' = hit
    BY <2>1 DEF Taken, Read
  <2> QED BY <2>5, <2>6, <2>7 DEF IsLocal, Near, DamageIsLocal
<1> QED BY <1>2, <1>3

LEMMA InitDamage == Init => DamageInv
<1> SUFFICES ASSUME Init PROVE DamageInv
  OBVIOUS
<1>1. /\ tty = <<>> /\ partial = <<>> /\ lines = <<>> /\ reader = "open"
      /\ NextByte = <<1, 1>>
  BY DEF Init, NextByte
<1>2. Coming[1] = <<1, 1>>
  BY <1>1, InitPort, ComingFacts
<1> QED BY <1>1, <1>2
        DEF DamageInv, NoGap, Clean, DamageIsLocal

LEMMA DamageInvariance == Spec => [](PortInv /\ DamageInv)
<1>1. Init => PortInv /\ DamageInv
  BY InitPort, InitDamage
<1>2. PortInv /\ DamageInv /\ [Next]_vars => (PortInv /\ DamageInv)'
  <2> SUFFICES ASSUME PortInv, DamageInv, [Next]_vars
               PROVE  PortInv' /\ DamageInv'
    OBVIOUS
  <2>1. PortInv'
    BY StepPort
  <2>2. NoGap' /\ DamageIsLocal'
    BY StepNoGap, StepLocal DEF DamageInv
  <2>3. (Clean \/ Damaged)'
    BY StepDamage DEF DamageInv
  <2> QED BY <2>1, <2>2, <2>3 DEF DamageInv
<1> QED BY <1>1, <1>2, PTL DEF Spec

(* Each line that arrives is an answer as the sketch printed it, or has      *)
(* bytes of one of which others were thrown away, by a flush or by a read    *)
(* that failed, and of no command further away than the next: readline       *)
(* starts afresh at every newline (serialposix.py 314, 488-511, commands.py  *)
(* 178-180).                                                                 *)
THEOREM DamageIsLocalHolds == Spec => []DamageIsLocal
BY DamageInvariance, PTL DEF DamageInv

=============================================================================
