--------------------------- MODULE ConnectionProofs ---------------------------
(***************************************************************************)
(* Theorems about module Connection, for any number of units and           *)
(* broadcasts: what closing a connection does is done once, frames are     *)
(* sent only while it is open, and it lives as ConnectionLife says.        *)
(***************************************************************************)
EXTENDS Connection, SequenceTheorems, TLAPS

Units == Requests \union Frames \union {"part"}

(* The types, in parts. *)
Where  == /\ state \in {"CONNECTING", "OPEN", "CLOSED"}
          /\ transport \in {"up", "losing", "aborting", "lost"}
          /\ pc \in {"idle", "data", "handshake"}
Queues == data \in Seq(Units) /\ buffer \in Seq(Sent) /\ out \in Seq(Sent)
Flags  == /\ openTimer \in BOOLEAN /\ subscribed \in BOOLEAN
          /\ requested \in BOOLEAN
Bounds == units \in 0..MaxUnits /\ fed \in 0..MaxFeed

(* A transport that is not up belongs to a connection that is closed; and    *)
(* the opening handshake's timer is not pending once it is open.             *)
UpOrClosed ==
  /\ transport # "up" => state = "CLOSED"
  /\ state = "OPEN" => ~openTimer

(* Closing and losing are counted when they happen. *)
Counted ==
  /\ resolved = (IF state = "CLOSED" THEN 1 ELSE 0)
  /\ closes = (IF transport = "lost" THEN 1 ELSE 0)

(* While the request is awaited, its end is among the data once it was sent. *)
RequestInData ==
  requested /\ state = "CONNECTING" =>
    \E i \in 1..Len(data) : data[i] \in Requests

CloseInv ==
  /\ Where /\ Queues /\ Flags /\ Bounds
  /\ UpOrClosed /\ Counted /\ RequestInData

(* The invariant has the property. *)
LEMMA CloseInvImplies == CloseInv => ClosedOnce
BY DEF CloseInv, Where, Queues, Flags, Bounds, UpOrClosed, Counted, ClosedOnce,
       TypeOK, Units

-----------------------------------------------------------------------------
(* Every step leaves the connection in one of its states. *)
LEMMA WhereStep ==
  ASSUME Where, Next
  PROVE  Where'
<1>1. CASE AwaitHeader
  BY <1>1 DEF AwaitHeader, Where, Continue
<1>2. CASE RefuseRequest
  BY <1>2 DEF RefuseRequest, failHandshake, dropConnection, Where, Continue
<1>o. CASE RefuseOffer
  BY <1>o DEF RefuseOffer, failHandshake, dropConnection, Where, Continue
<1>3. CASE succeedHandshake
  BY <1>3 DEF succeedHandshake, Where, Continue
<1>4. CASE ConsumeText
  BY <1>4 DEF ConsumeText, Consuming, Continue, Where
<1>5. CASE ConsumePing
  BY <1>5 DEF ConsumePing, Consuming, Continue, Where
<1>6. CASE ConsumeClose
  BY <1>6 DEF ConsumeClose, Consuming, dropConnection, Where, Continue
<1>7. CASE ConsumeViolation
  BY <1>7 DEF ConsumeViolation, Consuming, dropConnection, Where, Continue
<1>8. CASE ConsumeRaising
  BY <1>8 DEF ConsumeRaising, Consuming, failHandshake, dropConnection,
  connectionLost, Where, Continue
<1>9. CASE onOpenHandshakeTimeout
  BY <1>9 DEF onOpenHandshakeTimeout, dropConnection, Where, Continue
<1>10. CASE Disconnect
  BY <1>10 DEF Disconnect, connectionLost, Where, Continue
<1>11. CASE Send
  BY <1>11 DEF Send, Where, Continue
<1>12. CASE Broadcast
  BY <1>12 DEF Broadcast, Where, Continue
<1>13. CASE Drain
  BY <1>13 DEF Drain, Where, Continue
<1>14. CASE PeerGone
  BY <1>14 DEF PeerGone, connectionLost, Where, Continue
<1> QED BY <1>1, <1>2, <1>o, <1>3, <1>4, <1>5, <1>6, <1>7, <1>8, <1>9, <1>10,
    <1>11, <1>12, <1>13, <1>14 DEF Next, ReactorStep

(* The bounds of the model are kept. *)
LEMMA BoundsStep ==
  ASSUME Bounds, Next
  PROVE  Bounds'
<1>1. CASE AwaitHeader
  BY <1>1, ConnectionAssumption DEF AwaitHeader, Bounds, endVars, peerVars
<1>2. CASE RefuseRequest
  BY <1>2, ConnectionAssumption DEF RefuseRequest, failHandshake,
  dropConnection, Bounds, endVars, peerVars
<1>o. CASE RefuseOffer
  BY <1>o, ConnectionAssumption DEF RefuseOffer, failHandshake,
  dropConnection, Bounds, endVars, peerVars
<1>3. CASE succeedHandshake
  BY <1>3, ConnectionAssumption DEF succeedHandshake, Bounds, endVars,
  peerVars
<1>4. CASE ConsumeText
  BY <1>4, ConnectionAssumption DEF ConsumeText, Consuming, Continue, Bounds,
  endVars, peerVars
<1>5. CASE ConsumePing
  BY <1>5, ConnectionAssumption DEF ConsumePing, Consuming, Continue, Bounds,
  endVars, peerVars
<1>6. CASE ConsumeClose
  BY <1>6, ConnectionAssumption DEF ConsumeClose, Consuming, dropConnection,
  Bounds, endVars, peerVars
<1>7. CASE ConsumeViolation
  BY <1>7, ConnectionAssumption DEF ConsumeViolation, Consuming,
  dropConnection, Bounds, endVars, peerVars
<1>8. CASE ConsumeRaising
  BY <1>8, ConnectionAssumption DEF ConsumeRaising, Consuming, failHandshake,
  dropConnection, connectionLost, Bounds, endVars, peerVars
<1>9. CASE onOpenHandshakeTimeout
  BY <1>9, ConnectionAssumption DEF onOpenHandshakeTimeout, dropConnection,
  Bounds, endVars, peerVars
<1>10. CASE Disconnect
  BY <1>10, ConnectionAssumption DEF Disconnect, connectionLost, Bounds,
  endVars, peerVars
<1>11. CASE Send
  BY <1>11, ConnectionAssumption DEF Send, Bounds, endVars, peerVars
<1>12. CASE Broadcast
  BY <1>12, ConnectionAssumption DEF Broadcast, Bounds, endVars, peerVars
<1>13. CASE Drain
  BY <1>13, ConnectionAssumption DEF Drain, Bounds, endVars, peerVars
<1>14. CASE PeerGone
  BY <1>14, ConnectionAssumption DEF PeerGone, connectionLost, Bounds,
  endVars, peerVars
<1> QED BY <1>1, <1>2, <1>o, <1>3, <1>4, <1>5, <1>6, <1>7, <1>8, <1>9, <1>10,
    <1>11, <1>12, <1>13, <1>14 DEF Next, ReactorStep

(* What takes the transport down closes the connection. *)
LEMMA UpOrClosedStep ==
  ASSUME Where, UpOrClosed, Next
  PROVE  UpOrClosed'
<1>1. CASE AwaitHeader
  BY <1>1 DEF AwaitHeader, UpOrClosed, Where, endVars
<1>2. CASE RefuseRequest
  BY <1>2 DEF RefuseRequest, failHandshake, dropConnection, UpOrClosed, Where,
  endVars
<1>o. CASE RefuseOffer
  BY <1>o DEF RefuseOffer, failHandshake, dropConnection, UpOrClosed, Where,
  endVars
<1>3. CASE succeedHandshake
  BY <1>3 DEF succeedHandshake, UpOrClosed, Where, endVars
<1>4. CASE ConsumeText
  BY <1>4 DEF ConsumeText, Consuming, Continue, UpOrClosed, Where, endVars
<1>5. CASE ConsumePing
  BY <1>5 DEF ConsumePing, Consuming, Continue, UpOrClosed, Where, endVars
<1>6. CASE ConsumeClose
  BY <1>6 DEF ConsumeClose, Consuming, dropConnection, UpOrClosed, Where,
  endVars
<1>7. CASE ConsumeViolation
  BY <1>7 DEF ConsumeViolation, Consuming, dropConnection, UpOrClosed, Where,
  endVars
<1>8. CASE ConsumeRaising
  BY <1>8 DEF ConsumeRaising, Consuming, failHandshake, dropConnection,
  connectionLost, UpOrClosed, Where, endVars
<1>9. CASE onOpenHandshakeTimeout
  BY <1>9 DEF onOpenHandshakeTimeout, dropConnection, UpOrClosed, Where,
  endVars
<1>10. CASE Disconnect
  BY <1>10 DEF Disconnect, connectionLost, UpOrClosed, Where, endVars
<1>11. CASE Send
  BY <1>11 DEF Send, UpOrClosed, Where, endVars
<1>12. CASE Broadcast
  BY <1>12 DEF Broadcast, UpOrClosed, Where, endVars
<1>13. CASE Drain
  BY <1>13 DEF Drain, UpOrClosed, Where, endVars
<1>14. CASE PeerGone
  BY <1>14 DEF PeerGone, connectionLost, UpOrClosed, Where, endVars
<1> QED BY <1>1, <1>2, <1>o, <1>3, <1>4, <1>5, <1>6, <1>7, <1>8, <1>9, <1>10,
    <1>11, <1>12, <1>13, <1>14 DEF Next, ReactorStep

(* The connection is closed once, and lost once. *)
LEMMA CountedStep ==
  ASSUME Where, UpOrClosed, Counted, Next
  PROVE  Counted'
<1>1. CASE AwaitHeader
  BY <1>1 DEF AwaitHeader, UpOrClosed, Counted, Where, endVars
<1>2. CASE RefuseRequest
  BY <1>2 DEF RefuseRequest, failHandshake, dropConnection, UpOrClosed,
  Counted, Where, endVars
<1>o. CASE RefuseOffer
  BY <1>o DEF RefuseOffer, failHandshake, dropConnection, UpOrClosed,
  Counted, Where, endVars
<1>3. CASE succeedHandshake
  BY <1>3 DEF succeedHandshake, UpOrClosed, Counted, Where, endVars
<1>4. CASE ConsumeText
  BY <1>4 DEF ConsumeText, Consuming, Continue, UpOrClosed, Counted, Where,
  endVars
<1>5. CASE ConsumePing
  BY <1>5 DEF ConsumePing, Consuming, Continue, UpOrClosed, Counted, Where,
  endVars
<1>6. CASE ConsumeClose
  BY <1>6 DEF ConsumeClose, Consuming, dropConnection, UpOrClosed, Counted,
  Where, endVars
<1>7. CASE ConsumeViolation
  BY <1>7 DEF ConsumeViolation, Consuming, dropConnection, UpOrClosed,
  Counted, Where, endVars
<1>8. CASE ConsumeRaising
  BY <1>8 DEF ConsumeRaising, Consuming, failHandshake, dropConnection,
  connectionLost, UpOrClosed, Counted, Where, endVars
<1>9. CASE onOpenHandshakeTimeout
  BY <1>9 DEF onOpenHandshakeTimeout, dropConnection, UpOrClosed, Counted,
  Where, endVars
<1>10. CASE Disconnect
  BY <1>10 DEF Disconnect, connectionLost, UpOrClosed, Counted, Where, endVars
<1>11. CASE Send
  BY <1>11 DEF Send, UpOrClosed, Counted, Where, endVars
<1>12. CASE Broadcast
  BY <1>12 DEF Broadcast, UpOrClosed, Counted, Where, endVars
<1>13. CASE Drain
  BY <1>13 DEF Drain, UpOrClosed, Counted, Where, endVars
<1>14. CASE PeerGone
  BY <1>14 DEF PeerGone, connectionLost, UpOrClosed, Counted, Where, endVars
<1> QED BY <1>1, <1>2, <1>o, <1>3, <1>4, <1>5, <1>6, <1>7, <1>8, <1>9, <1>10,
    <1>11, <1>12, <1>13, <1>14 DEF Next, ReactorStep

(* The flags stay flags. *)
LEMMA FlagsStep ==
  ASSUME Flags, Next
  PROVE  Flags'
<1>1. CASE AwaitHeader
  BY <1>1, Zenon DEF AwaitHeader, Flags, endVars, peerVars
<1>2. CASE RefuseRequest
  BY <1>2, Zenon DEF RefuseRequest, failHandshake, dropConnection, Flags,
  endVars, peerVars
<1>o. CASE RefuseOffer
  BY <1>o, Zenon DEF RefuseOffer, failHandshake, dropConnection, Flags,
  endVars, peerVars
<1>3. CASE succeedHandshake
  BY <1>3, Zenon DEF succeedHandshake, Flags, endVars, peerVars
<1>4. CASE ConsumeText
  BY <1>4, Zenon DEF ConsumeText, Consuming, Continue, Flags, endVars,
  peerVars
<1>5. CASE ConsumePing
  BY <1>5, Zenon DEF ConsumePing, Consuming, Continue, Flags, endVars,
  peerVars
<1>6. CASE ConsumeClose
  BY <1>6, Zenon DEF ConsumeClose, Consuming, dropConnection, Flags, endVars,
  peerVars
<1>7. CASE ConsumeViolation
  BY <1>7, Zenon DEF ConsumeViolation, Consuming, dropConnection, Flags,
  endVars, peerVars
<1>8. CASE ConsumeRaising
  BY <1>8, Zenon DEF ConsumeRaising, Consuming, failHandshake, dropConnection,
  connectionLost, Flags, endVars, peerVars
<1>9. CASE onOpenHandshakeTimeout
  BY <1>9, Zenon DEF onOpenHandshakeTimeout, dropConnection, Flags, endVars,
  peerVars
<1>10. CASE Disconnect
  BY <1>10, Zenon DEF Disconnect, connectionLost, Flags, endVars, peerVars
<1>11. CASE Send
  BY <1>11, Zenon DEF Send, Flags, endVars, peerVars
<1>12. CASE Broadcast
  BY <1>12, Zenon DEF Broadcast, Flags, endVars, peerVars
<1>13. CASE Drain
  BY <1>13, Zenon DEF Drain, Flags, endVars, peerVars
<1>14. CASE PeerGone
  BY <1>14, Zenon DEF PeerGone, connectionLost, Flags, endVars, peerVars
<1> QED BY <1>1, <1>2, <1>o, <1>3, <1>4, <1>5, <1>6, <1>7, <1>8, <1>9, <1>10,
    <1>11, <1>12, <1>13, <1>14 DEF Next, ReactorStep

-----------------------------------------------------------------------------
(* What succeedHandshake and the refusals take apart is there.               *)
LEMMA HeaderIsThere ==
  ASSUME Queues, RequestInData, requested, state = "CONNECTING"
  PROVE  Header \in 1..Len(data) /\ data[Header] \in Requests
BY DEF RequestInData, Header

(* What is left of the data after the header. *)
LEMMA AfterHeadType ==
  ASSUME Queues, RequestInData, requested, state = "CONNECTING"
  PROVE  AfterHead \in Seq(Units)
<1>1. data \in Seq(Units) /\ Header \in 1..Len(data) /\ Len(data) \in Nat
  BY HeaderIsThere DEF Queues
<1> DEFINE m == Header + 1
<1>2. /\ m \in Int /\ Len(data) \in Int
      /\ \A i \in m..Len(data) : data[i] \in Units
  BY <1>1
<1> QED BY <1>2, SubSeqProperties DEF AfterHead

(* What is received and sent stays of its kind. *)
LEMMA QueuesStep ==
  ASSUME Queues, RequestInData, Next
  PROVE  Queues'
<1>1. CASE AwaitHeader
  BY <1>1 DEF AwaitHeader, Queues
<1>2. CASE RefuseRequest
  <2>1. /\ "error" \in Sent /\ buffer \in Seq(Sent)
        /\ Append(buffer, "error") \in Seq(Sent)
    BY DEF Sent, Queues
  <2>2. AfterHead \in Seq(Units)
    BY <1>2, AfterHeadType DEF RefuseRequest
  <2> QED BY <1>2, <2>1, <2>2
     DEF RefuseRequest, failHandshake, dropConnection, Queues
<1>o. CASE RefuseOffer
  <2>1. /\ "error" \in Sent /\ buffer \in Seq(Sent)
        /\ Append(buffer, "error") \in Seq(Sent)
    BY DEF Sent, Queues
  <2>2. AfterHead \in Seq(Units)
    BY <1>o, AfterHeadType DEF RefuseOffer
  <2> QED BY <1>o, <2>1, <2>2
     DEF RefuseOffer, failHandshake, dropConnection, Queues
<1>3. CASE succeedHandshake
  <2>1. /\ "101" \in Sent /\ buffer \in Seq(Sent)
        /\ Append(buffer, "101") \in Seq(Sent)
    BY DEF Sent, Queues
  <2>2. AfterHead \in Seq(Units)
    BY <1>3, AfterHeadType DEF succeedHandshake
  <2> QED BY <1>3, <2>1, <2>2 DEF succeedHandshake, Queues
<1>4. CASE ConsumeText
  <2>1. /\ "message" \in Sent /\ buffer \in Seq(Sent)
        /\ Append(buffer, "message") \in Seq(Sent)
    BY DEF Sent, Queues
  <2>2. Tail(data) \in Seq(Units)
    BY <1>4 DEF Queues, Consuming, ConsumeText
  <2> QED BY <1>4, <2>1, <2>2 DEF ConsumeText, Consuming, Queues
<1>5. CASE ConsumePing
  <2>1. /\ "pong" \in Sent /\ buffer \in Seq(Sent)
        /\ Append(buffer, "pong") \in Seq(Sent)
    BY DEF Sent, Queues
  <2>2. Tail(data) \in Seq(Units)
    BY <1>5 DEF Queues, Consuming, ConsumePing
  <2> QED BY <1>5, <2>1, <2>2 DEF ConsumePing, Consuming, Queues
<1>6. CASE ConsumeClose
  <2>1. /\ "close" \in Sent /\ buffer \in Seq(Sent)
        /\ Append(buffer, "close") \in Seq(Sent)
    BY DEF Sent, Queues
  <2>2. Tail(data) \in Seq(Units)
    BY <1>6 DEF Queues, Consuming, ConsumeClose
  <2> QED BY <1>6, <2>1, <2>2 DEF ConsumeClose, Consuming, Queues
<1>7. CASE ConsumeViolation
  BY <1>7 DEF ConsumeViolation, Consuming, dropConnection, Queues
<1>8. CASE ConsumeRaising
  <2>1. /\ "error" \in Sent /\ buffer \in Seq(Sent)
        /\ Append(buffer, "error") \in Seq(Sent)
    BY DEF Sent, Queues
  <2>2. Tail(data) \in Seq(Units)
    BY <1>8 DEF Queues, Consuming, ConsumeRaising
  <2>3. /\ data' = Tail(data) /\ out' = out
        /\ buffer' = Append(buffer, "error") \/ buffer' = <<>>
    BY <1>8 DEF ConsumeRaising, Consuming, failHandshake, connectionLost
  <2>4. buffer' \in Seq(Sent)
    <3>1. <<>> \in Seq(Sent)
      OBVIOUS
    <3> QED BY <2>1, <2>3, <3>1
  <2> QED BY <2>2, <2>3, <2>4 DEF Queues
<1>9. CASE onOpenHandshakeTimeout
  BY <1>9 DEF onOpenHandshakeTimeout, dropConnection, Queues
<1>10. CASE Disconnect
  BY <1>10 DEF Disconnect, connectionLost, Queues
<1>11. CASE Send
  <2>1. PICK unit \in Units : data' = Append(data, unit)
    BY <1>11 DEF Send, Units
  <2>2. data' \in Seq(Units)
    BY <2>1 DEF Queues
  <2> QED BY <1>11, <2>2 DEF Send, Queues
<1>12. CASE Broadcast
  <2>1. /\ "message" \in Sent /\ buffer \in Seq(Sent)
        /\ Append(buffer, "message") \in Seq(Sent)
    BY DEF Sent, Queues
  <2> QED BY <1>12, <2>1 DEF Broadcast, Queues
<1>13. CASE Drain
  <2>1. Head(buffer) \in Sent /\ Tail(buffer) \in Seq(Sent)
    BY <1>13 DEF Drain, Queues
  <2> QED BY <1>13, <2>1 DEF Drain, Queues
<1>14. CASE PeerGone
  BY <1>14 DEF PeerGone, connectionLost, Queues
<1> QED BY <1>1, <1>2, <1>o, <1>3, <1>4, <1>5, <1>6, <1>7, <1>8, <1>9, <1>10,
    <1>11, <1>12, <1>13, <1>14 DEF Next, ReactorStep

(* Nothing is consumed before the whole request is there. *)
LEMMA RequestInDataStep ==
  ASSUME Queues, Where, RequestInData, Next
  PROVE  RequestInData'
<1>1. CASE AwaitHeader
  BY <1>1 DEF AwaitHeader, RequestInData, Where, peerVars, endVars
<1>2. CASE RefuseRequest
  BY <1>2 DEF RefuseRequest, failHandshake, dropConnection, RequestInData,
  Where, peerVars, endVars
<1>o. CASE RefuseOffer
  BY <1>o DEF RefuseOffer, failHandshake, dropConnection, RequestInData,
  Where, peerVars, endVars
<1>3. CASE succeedHandshake
  BY <1>3 DEF succeedHandshake, RequestInData, Where, peerVars, endVars
<1>4. CASE ConsumeText
  BY <1>4 DEF ConsumeText, Consuming, Continue, RequestInData, Where,
  peerVars, endVars
<1>5. CASE ConsumePing
  BY <1>5 DEF ConsumePing, Consuming, Continue, RequestInData, Where,
  peerVars, endVars
<1>6. CASE ConsumeClose
  BY <1>6 DEF ConsumeClose, Consuming, dropConnection, RequestInData, Where,
  peerVars, endVars
<1>7. CASE ConsumeViolation
  BY <1>7 DEF ConsumeViolation, Consuming, dropConnection, RequestInData,
  Where, peerVars, endVars
<1>8. CASE ConsumeRaising
  BY <1>8 DEF ConsumeRaising, Consuming, failHandshake, dropConnection,
  connectionLost, RequestInData, Where, peerVars, endVars
<1>9. CASE onOpenHandshakeTimeout
  BY <1>9 DEF onOpenHandshakeTimeout, dropConnection, RequestInData, Where,
  peerVars, endVars
<1>10. CASE Disconnect
  BY <1>10 DEF Disconnect, connectionLost, RequestInData, Where, peerVars,
  endVars
<1>11. CASE Send
  <2>1. PICK unit \in Units :
          /\ data' = Append(data, unit)
          /\ requested' = (requested \/ unit \in Requests)
    BY <1>11 DEF Send, Units
  <2>2. /\ data'[Len(data) + 1] = unit /\ Len(data') = Len(data) + 1
        /\ Len(data) \in Nat
        /\ \A i \in 1..Len(data) : data'[i] = data[i]
    BY <2>1 DEF Queues
  <2>3. CASE unit \in Requests
    BY <2>2, <2>3 DEF RequestInData
  <2>4. CASE unit \notin Requests
    <3>1. requested' => requested
      BY <2>1, <2>4
    <3>2. state' = state
      BY <1>11 DEF Send
    <3> QED BY <2>2, <3>1, <3>2 DEF RequestInData
  <2> QED BY <2>3, <2>4
<1>12. CASE Broadcast
  BY <1>12 DEF Broadcast, RequestInData, Where, peerVars, endVars
<1>13. CASE Drain
  BY <1>13 DEF Drain, RequestInData, Where, peerVars, endVars
<1>14. CASE PeerGone
  BY <1>14 DEF PeerGone, connectionLost, RequestInData, Where, peerVars,
  endVars
<1> QED BY <1>1, <1>2, <1>o, <1>3, <1>4, <1>5, <1>6, <1>7, <1>8, <1>9, <1>10,
    <1>11, <1>12, <1>13, <1>14 DEF Next, ReactorStep

-----------------------------------------------------------------------------
(* It holds at first. *)
LEMMA CloseInvInit == Init => CloseInv
<1>1. Init => Where /\ Bounds /\ UpOrClosed /\ Counted /\ RequestInData
  BY ConnectionAssumption
     DEF Init, Where, Bounds, UpOrClosed, Counted, RequestInData
<1>2. Init => Queues
  BY DEF Init, Queues
<1>3. Init => Flags
  BY Zenon DEF Init, Flags
<1> QED BY <1>1, <1>2, <1>3 DEF CloseInv

(* Every step keeps it: one lemma above per part. *)
LEMMA CloseInvStep == CloseInv /\ [Next]_vars => CloseInv'
<1>1. CASE CloseInv /\ Next
  BY <1>1, WhereStep, QueuesStep, FlagsStep, BoundsStep, UpOrClosedStep,
     CountedStep, RequestInDataStep DEF CloseInv
<1>2. CASE CloseInv /\ UNCHANGED vars
  <2>1. /\ Where' /\ Queues' /\ Bounds'
        /\ UpOrClosed' /\ Counted' /\ RequestInData'
    BY <1>2 DEF CloseInv, vars, endVars, peerVars, Where, Queues, Bounds,
                UpOrClosed, Counted, RequestInData
  <2>2. Flags'
    BY <1>2, Zenon DEF CloseInv, vars, endVars, peerVars, Flags
  <2> QED BY <2>1, <2>2 DEF CloseInv
<1> QED BY <1>1, <1>2

(* So it is an invariant. *)
LEMMA CloseInvHolds == Spec => []CloseInv
BY CloseInvInit, CloseInvStep, PTL DEF Spec

(* A connection is closed once and lost once, whatever comes together.       *)
THEOREM ClosedOnceHolds == Spec => []ClosedOnce
BY CloseInvHolds, CloseInvImplies, PTL

-----------------------------------------------------------------------------
(* The subscription lasts from the handshake until the loss.                 *)
SubscribedWhileUp ==
  /\ state = "CONNECTING" => ~subscribed
  /\ state = "OPEN" => subscribed
  /\ transport = "lost" => ~subscribed

(* Only the handshake subscribes, only the loss ends it. *)
LEMMA SubscribedStep ==
  ASSUME Where, UpOrClosed, SubscribedWhileUp, Next
  PROVE  SubscribedWhileUp'
<1>1. CASE AwaitHeader
  BY <1>1 DEF AwaitHeader, Where, UpOrClosed, SubscribedWhileUp, endVars,
  peerVars
<1>2. CASE RefuseRequest
  BY <1>2 DEF RefuseRequest, failHandshake, dropConnection, Where, UpOrClosed,
  SubscribedWhileUp, endVars, peerVars
<1>o. CASE RefuseOffer
  BY <1>o DEF RefuseOffer, failHandshake, dropConnection, Where, UpOrClosed,
  SubscribedWhileUp, endVars, peerVars
<1>3. CASE succeedHandshake
  BY <1>3 DEF succeedHandshake, Where, UpOrClosed, SubscribedWhileUp, endVars,
  peerVars
<1>4. CASE ConsumeText
  BY <1>4 DEF ConsumeText, Consuming, Continue, Where, UpOrClosed,
  SubscribedWhileUp, endVars, peerVars
<1>5. CASE ConsumePing
  BY <1>5 DEF ConsumePing, Consuming, Continue, Where, UpOrClosed,
  SubscribedWhileUp, endVars, peerVars
<1>6. CASE ConsumeClose
  BY <1>6 DEF ConsumeClose, Consuming, dropConnection, Where, UpOrClosed,
  SubscribedWhileUp, endVars, peerVars
<1>7. CASE ConsumeViolation
  BY <1>7 DEF ConsumeViolation, Consuming, dropConnection, Where, UpOrClosed,
  SubscribedWhileUp, endVars, peerVars
<1>8. CASE ConsumeRaising
  BY <1>8 DEF ConsumeRaising, Consuming, failHandshake, dropConnection,
  connectionLost, Where, UpOrClosed, SubscribedWhileUp, endVars, peerVars
<1>9. CASE onOpenHandshakeTimeout
  BY <1>9 DEF onOpenHandshakeTimeout, dropConnection, Where, UpOrClosed,
  SubscribedWhileUp, endVars, peerVars
<1>10. CASE Disconnect
  BY <1>10 DEF Disconnect, connectionLost, Where, UpOrClosed,
  SubscribedWhileUp, endVars, peerVars
<1>11. CASE Send
  BY <1>11 DEF Send, Where, UpOrClosed, SubscribedWhileUp, endVars, peerVars
<1>12. CASE Broadcast
  BY <1>12 DEF Broadcast, Where, UpOrClosed, SubscribedWhileUp, endVars,
  peerVars
<1>13. CASE Drain
  BY <1>13 DEF Drain, Where, UpOrClosed, SubscribedWhileUp, endVars, peerVars
<1>14. CASE PeerGone
  BY <1>14 DEF PeerGone, connectionLost, Where, UpOrClosed, SubscribedWhileUp,
  endVars, peerVars
<1> QED BY <1>1, <1>2, <1>o, <1>3, <1>4, <1>5, <1>6, <1>7, <1>8, <1>9, <1>10,
    <1>11, <1>12, <1>13, <1>14 DEF Next, ReactorStep

(* Every step is one of the life of a connection, or none. *)
LEMMA LifeStep ==
  ASSUME Where, UpOrClosed, SubscribedWhileUp, Next
  PROVE  [Life!Next]_Life!vars
<1>1. CASE AwaitHeader
  BY <1>1 DEF AwaitHeader, Where, UpOrClosed, SubscribedWhileUp, endVars,
  peerVars, Life!Next, Life!vars, Life!Accept, Life!Refuse, Life!Drop,
  Life!Lose
<1>2. CASE RefuseRequest
  BY <1>2 DEF RefuseRequest, failHandshake, dropConnection, Where, UpOrClosed,
  SubscribedWhileUp, endVars, peerVars, Life!Next, Life!vars, Life!Accept,
  Life!Refuse, Life!Drop, Life!Lose
<1>o. CASE RefuseOffer
  BY <1>o DEF RefuseOffer, failHandshake, dropConnection, Where, UpOrClosed,
  SubscribedWhileUp, endVars, peerVars, Life!Next, Life!vars,
  Life!AcceptInVain
<1>3. CASE succeedHandshake
  BY <1>3 DEF succeedHandshake, Where, UpOrClosed, SubscribedWhileUp, endVars,
  peerVars, Life!Next, Life!vars, Life!Accept, Life!Refuse, Life!Drop,
  Life!Lose
<1>4. CASE ConsumeText
  BY <1>4 DEF ConsumeText, Consuming, Continue, Where, UpOrClosed,
  SubscribedWhileUp, endVars, peerVars, Life!Next, Life!vars, Life!Accept,
  Life!Refuse, Life!Drop, Life!Lose
<1>5. CASE ConsumePing
  BY <1>5 DEF ConsumePing, Consuming, Continue, Where, UpOrClosed,
  SubscribedWhileUp, endVars, peerVars, Life!Next, Life!vars, Life!Accept,
  Life!Refuse, Life!Drop, Life!Lose
<1>6. CASE ConsumeClose
  BY <1>6 DEF ConsumeClose, Consuming, dropConnection, Where, UpOrClosed,
  SubscribedWhileUp, endVars, peerVars, Life!Next, Life!vars, Life!Accept,
  Life!Refuse, Life!Drop, Life!Lose
<1>7. CASE ConsumeViolation
  BY <1>7 DEF ConsumeViolation, Consuming, dropConnection, Where, UpOrClosed,
  SubscribedWhileUp, endVars, peerVars, Life!Next, Life!vars, Life!Accept,
  Life!Refuse, Life!Drop, Life!Lose
<1>8. CASE ConsumeRaising
  BY <1>8 DEF ConsumeRaising, Consuming, failHandshake, dropConnection,
  connectionLost, Where, UpOrClosed, SubscribedWhileUp, endVars, peerVars,
  Life!Next, Life!vars, Life!Accept, Life!Refuse, Life!Drop, Life!Lose
<1>9. CASE onOpenHandshakeTimeout
  BY <1>9 DEF onOpenHandshakeTimeout, dropConnection, Where, UpOrClosed,
  SubscribedWhileUp, endVars, peerVars, Life!Next, Life!vars, Life!Accept,
  Life!Refuse, Life!Drop, Life!Lose
<1>10. CASE Disconnect
  BY <1>10 DEF Disconnect, connectionLost, Where, UpOrClosed,
  SubscribedWhileUp, endVars, peerVars, Life!Next, Life!vars, Life!Accept,
  Life!Refuse, Life!Drop, Life!Lose
<1>11. CASE Send
  BY <1>11 DEF Send, Where, UpOrClosed, SubscribedWhileUp, endVars, peerVars,
  Life!Next, Life!vars, Life!Accept, Life!Refuse, Life!Drop, Life!Lose
<1>12. CASE Broadcast
  BY <1>12 DEF Broadcast, Where, UpOrClosed, SubscribedWhileUp, endVars,
  peerVars, Life!Next, Life!vars, Life!Accept, Life!Refuse, Life!Drop,
  Life!Lose
<1>13. CASE Drain
  BY <1>13 DEF Drain, Where, UpOrClosed, SubscribedWhileUp, endVars, peerVars,
  Life!Next, Life!vars, Life!Accept, Life!Refuse, Life!Drop, Life!Lose
<1>14. CASE PeerGone
  BY <1>14 DEF PeerGone, connectionLost, Where, UpOrClosed, SubscribedWhileUp,
  endVars, peerVars, Life!Next, Life!vars, Life!Accept, Life!Refuse,
  Life!Drop, Life!Lose
<1> QED BY <1>1, <1>2, <1>o, <1>3, <1>4, <1>5, <1>6, <1>7, <1>8, <1>9, <1>10,
    <1>11, <1>12, <1>13, <1>14 DEF Next, ReactorStep

(* A connection lives as ConnectionLife says: a member from its acceptance   *)
(* until it is lost.                                                         *)
THEOREM LifeSpecHolds == Spec => LifeSpec
<1>1. Init => Life!Init /\ SubscribedWhileUp
  BY Zenon DEF Init, Life!Init, SubscribedWhileUp
<1>2. CloseInv /\ SubscribedWhileUp /\ [Next]_vars =>
        SubscribedWhileUp' /\ [Life!Next]_Life!vars
  <2>1. CASE CloseInv /\ SubscribedWhileUp /\ Next
    BY <2>1, SubscribedStep, LifeStep DEF CloseInv
  <2>2. CASE CloseInv /\ SubscribedWhileUp /\ UNCHANGED vars
    BY <2>2 DEF vars, SubscribedWhileUp, Life!vars
  <2> QED BY <2>1, <2>2
<1> QED BY <1>1, <1>2, CloseInvHolds, PTL DEF Spec, LifeSpec, Life!Spec

-----------------------------------------------------------------------------
(* A stream as FramesOnlyWhileOpen has it, and one that has not ended.       *)
InFrame(s) ==
  \A i \in 1..Len(s) :
    /\ i = 1 => s[i] \in {"101", "error"}
    /\ s[i] = "101" => i = 1
    /\ s[i] \in {"error", "close"} => i = Len(s)

GoesOn(s) ==
  s # <<>> /\ \A i \in 1..Len(s) : s[i] \notin {"error", "close"}

(* A response begins a stream; a 101 lets it go on. *)
LEMMA StreamBegins ==
  ASSUME NEW x \in {"101", "error"}
  PROVE  InFrame(<<x>>) /\ (x = "101" => GoesOn(<<x>>))
BY DEF InFrame, GoesOn

(* A frame or an error can be appended to a stream that goes on. *)
LEMMA StreamGrows ==
  ASSUME NEW s \in Seq(Sent), InFrame(s), GoesOn(s),
         NEW x \in Sent \ {"101"}
  PROVE  /\ InFrame(Append(s, x))
         /\ x \in {"message", "pong"} => GoesOn(Append(s, x))
<1>1. /\ Len(s) \in Nat /\ Len(s) # 0 /\ Len(Append(s, x)) = Len(s) + 1
      /\ Append(s, x)[Len(s) + 1] = x
      /\ \A i \in 1..Len(s) : Append(s, x)[i] = s[i]
  BY DEF GoesOn
<1>2. ASSUME NEW i \in 1..Len(Append(s, x))
      PROVE  /\ i = 1 => Append(s, x)[i] \in {"101", "error"}
             /\ Append(s, x)[i] = "101" => i = 1
             /\ Append(s, x)[i] \in {"error", "close"} => i = Len(s) + 1
             /\ \/ Append(s, x)[i] \notin {"error", "close"}
                \/ i = Len(s) + 1
  <2>1. CASE i = Len(s) + 1
    BY <1>1, <2>1
  <2>2. CASE i \in 1..Len(s)
    BY <1>1, <2>2 DEF InFrame, GoesOn
  <2> QED BY <1>1, <2>1, <2>2
<1>3. Append(s, x) # <<>>
  BY <1>1
<1>4. InFrame(Append(s, x))
  BY <1>1, <1>2 DEF InFrame
<1>5. x \in {"message", "pong"} => GoesOn(Append(s, x))
  BY <1>1, <1>2, <1>3 DEF GoesOn
<1> QED BY <1>4, <1>5

(* What has left the buffer is a stream by itself. *)
LEMMA StreamCut ==
  ASSUME NEW s \in Seq(Sent), NEW t \in Seq(Sent), InFrame(s \o t)
  PROVE  InFrame(s)
<1>1. /\ Len(s \o t) = Len(s) + Len(t) /\ Len(s) \in Nat /\ Len(t) \in Nat
      /\ \A i \in 1..Len(s) : (s \o t)[i] = s[i]
  OBVIOUS
<1>2. ASSUME NEW i \in 1..Len(s)
      PROVE  /\ i = 1 => s[i] \in {"101", "error"}
             /\ s[i] = "101" => i = 1
             /\ s[i] \in {"error", "close"} => i = Len(s)
  BY <1>1 DEF InFrame
<1> QED BY <1>2 DEF InFrame

(* Writing appends to all that was written. *)
LEMMA WrittenAppend ==
  ASSUME NEW s \in Seq(Sent), NEW t \in Seq(Sent), NEW x \in Sent
  PROVE  s \o Append(t, x) = Append(s \o t, x)
OBVIOUS

(* What leaves the buffer is still written. *)
LEMMA WrittenDrain ==
  ASSUME NEW s \in Seq(Sent), NEW t \in Seq(Sent), t # <<>>
  PROVE  Append(s, Head(t)) \o Tail(t) = s \o t
OBVIOUS

(* The response is the first thing written. *)
LEMMA WrittenFirst ==
  ASSUME NEW x PROVE <<>> \o Append(<<>>, x) = <<x>>
OBVIOUS

(* What has been written tells the state. *)
WrittenTellsState ==
  /\ state = "CONNECTING" => buffer = <<>> /\ out = <<>>
  /\ state = "OPEN" => GoesOn(written)

FrameInv == InFrame(written) /\ WrittenTellsState

(* What a step writes. *)
Silent == /\ written' = written
          /\ state' \in {state, "CLOSED"}
          /\ state = "CONNECTING" => UNCHANGED <<buffer, out>>

Begin == /\ written' = <<"101">> /\ state' = "OPEN"

Refuse == written' = <<"error">> /\ state' = "CLOSED"

GoOn == /\ state = "OPEN" /\ state' = "OPEN"
        /\ \E x \in {"message", "pong"} : written' = Append(written, x)

End == /\ state = "OPEN" /\ state' = "CLOSED"
       /\ \E x \in {"error", "close"} : written' = Append(written, x)

Cut == written' = out /\ state' = "CLOSED"

(* Every step writes in one of these ways. *)
LEMMA StepWrites ==
  ASSUME Queues, WrittenTellsState, Next
  PROVE  Silent \/ Begin \/ Refuse \/ GoOn \/ End \/ Cut
<1>1. CASE AwaitHeader
  BY <1>1 DEF AwaitHeader, Silent, written
<1>2. CASE RefuseRequest
  <2>1. /\ buffer = <<>> /\ out = <<>> /\ out' = out /\ state' = "CLOSED"
        /\ buffer' = Append(buffer, "error")
    BY <1>2 DEF RefuseRequest, failHandshake, dropConnection, WrittenTellsState
  <2> QED BY <2>1, WrittenFirst DEF Refuse, written
<1>o. CASE RefuseOffer
  <2>1. /\ buffer = <<>> /\ out = <<>> /\ out' = out /\ state' = "CLOSED"
        /\ buffer' = Append(buffer, "error")
    BY <1>o DEF RefuseOffer, failHandshake, dropConnection, WrittenTellsState
  <2> QED BY <2>1, WrittenFirst DEF Refuse, written
<1>3. CASE succeedHandshake
  <2>1. /\ buffer = <<>> /\ out = <<>> /\ out' = out /\ state' = "OPEN"
        /\ buffer' = Append(buffer, "101")
    BY <1>3 DEF succeedHandshake, WrittenTellsState
  <2> QED BY <2>1, WrittenFirst DEF Begin, written
<1>4. CASE ConsumeText
  <2>1. out \o Append(buffer, "message") = Append(written, "message")
    BY WrittenAppend DEF Queues, Sent, written
  <2>2. /\ state = "OPEN" /\ state' = "OPEN" /\ out' = out
        /\ buffer' \in {buffer, Append(buffer, "message")}
    BY <1>4 DEF ConsumeText, Consuming
  <2> QED BY <2>1, <2>2 DEF Silent, GoOn, written
<1>5. CASE ConsumePing
  <2>1. out \o Append(buffer, "pong") = Append(written, "pong")
    BY WrittenAppend DEF Queues, Sent, written
  <2>2. /\ state = "OPEN" /\ state' = "OPEN" /\ out' = out
        /\ buffer' \in {buffer, Append(buffer, "pong")}
    BY <1>5 DEF ConsumePing, Consuming
  <2> QED BY <2>1, <2>2 DEF Silent, GoOn, written
<1>6. CASE ConsumeClose
  <2>1. out \o Append(buffer, "close") = Append(written, "close")
    BY WrittenAppend DEF Queues, Sent, written
  <2>2. /\ state = "OPEN" /\ state' = "CLOSED" /\ out' = out
        /\ buffer' = Append(buffer, "close")
    BY <1>6 DEF ConsumeClose, Consuming, dropConnection
  <2> QED BY <2>1, <2>2 DEF End, written
<1>7. CASE ConsumeViolation
  BY <1>7 DEF ConsumeViolation, Consuming, dropConnection, Silent, written
<1>8. CASE ConsumeRaising
  <2>1. out \o Append(buffer, "error") = Append(written, "error")
    BY WrittenAppend DEF Queues, Sent, written
  <2>2. /\ state = "OPEN" /\ state' = "CLOSED" /\ out' = out
        /\ buffer' = Append(buffer, "error") \/ buffer' = <<>>
    BY <1>8
       DEF ConsumeRaising, Consuming, failHandshake, dropConnection,
           connectionLost
  <2>3. out \o <<>> = out
    BY DEF Queues
  <2> QED BY <2>1, <2>2, <2>3 DEF End, Cut, written
<1>9. CASE onOpenHandshakeTimeout
  BY <1>9 DEF onOpenHandshakeTimeout, dropConnection, Silent, written
<1>10. CASE Disconnect
  <2>1. out' = out /\ buffer' = <<>> /\ state' = "CLOSED"
    BY <1>10 DEF Disconnect, connectionLost
  <2>2. out \o <<>> = out
    BY DEF Queues
  <2> QED BY <2>1, <2>2 DEF Cut, written
<1>11. CASE Send
  BY <1>11 DEF Send, Silent, written
<1>12. CASE Broadcast
  <2>1. out \o Append(buffer, "message") = Append(written, "message")
    BY WrittenAppend DEF Queues, Sent, written
  <2>2. /\ state' = state /\ out' = out
        /\ \/ state = "OPEN" /\ buffer' = Append(buffer, "message")
           \/ buffer' = buffer
    BY <1>12 DEF Broadcast
  <2> QED BY <2>1, <2>2 DEF Silent, GoOn, written
<1>13. CASE Drain
  <2>1. /\ buffer # <<>> /\ state' = state
        /\ out' = Append(out, Head(buffer)) /\ buffer' = Tail(buffer)
    BY <1>13 DEF Drain
  <2>2. Append(out, Head(buffer)) \o Tail(buffer) = out \o buffer
    BY <2>1, WrittenDrain DEF Queues
  <2>3. state # "CONNECTING"
    BY <2>1 DEF WrittenTellsState
  <2> QED BY <2>1, <2>2, <2>3 DEF Silent, written
<1>14. CASE PeerGone
  <2>1. out' = out /\ buffer' = <<>> /\ state' = "CLOSED"
    BY <1>14 DEF PeerGone, connectionLost
  <2>2. out \o <<>> = out
    BY DEF Queues
  <2> QED BY <2>1, <2>2 DEF Cut, written
<1> QED BY <1>1, <1>2, <1>o, <1>3, <1>4, <1>5, <1>6, <1>7, <1>8, <1>9, <1>10,
    <1>11, <1>12, <1>13, <1>14 DEF Next, ReactorStep

(* Each of them keeps to the invariant. *)
LEMMA FrameStep ==
  ASSUME Where, Queues, Queues', FrameInv, Next
  PROVE  FrameInv'
<1>0. /\ InFrame(written) /\ WrittenTellsState /\ written \in Seq(Sent)
      /\ {"message", "pong", "error", "close"} \subseteq Sent \ {"101"}
  BY DEF FrameInv, Queues, written, Sent
<1>1. CASE Silent
  BY <1>0, <1>1 DEF Silent, FrameInv, WrittenTellsState, Where
<1>2. CASE Begin
  BY <1>2, StreamBegins DEF Begin, FrameInv, WrittenTellsState
<1>3. CASE Refuse
  BY <1>3, StreamBegins DEF Refuse, FrameInv, WrittenTellsState
<1>4. CASE GoOn
  BY <1>0, <1>4, StreamGrows DEF GoOn, FrameInv, WrittenTellsState
<1>5. CASE End
  BY <1>0, <1>5, StreamGrows DEF End, FrameInv, WrittenTellsState
<1>6. CASE Cut
  <2>1. InFrame(out)
    BY <1>0, StreamCut DEF Queues, written
  <2> QED BY <1>6, <2>1 DEF Cut, FrameInv, WrittenTellsState
<1> QED BY <1>0, <1>1, <1>2, <1>3, <1>4, <1>5, <1>6, StepWrites

(* The client gets one response first, and frames only between a 101 and a   *)
(* close or an error.                                                        *)
THEOREM FramesOnlyWhileOpenHolds == Spec => []FramesOnlyWhileOpen
<1>1. Init => FrameInv
  BY DEF Init, FrameInv, InFrame, WrittenTellsState, written
<1>2. CloseInv /\ CloseInv' /\ FrameInv /\ [Next]_vars => FrameInv'
  <2>1. CASE CloseInv /\ CloseInv' /\ FrameInv /\ Next
    BY <2>1, FrameStep DEF CloseInv
  <2>2. CASE FrameInv /\ UNCHANGED vars
    BY <2>2 DEF vars, FrameInv, InFrame, GoesOn, WrittenTellsState, written
  <2> QED BY <2>1, <2>2
<1>3. FrameInv => FramesOnlyWhileOpen
  BY DEF FrameInv, InFrame, FramesOnlyWhileOpen
<1> QED BY <1>1, <1>2, <1>3, CloseInvHolds, PTL DEF Spec
=============================================================================
