------------------------------ MODULE Connection ------------------------------
(***************************************************************************)
(* One connection of the WebSocket server, from accept to connectionLost:  *)
(* the vendored autobahn (websocket/protocol.py, twisted/websocket.py)     *)
(* with the options LibreSocketFactory leaves at their defaults (failByDrop*)
(* and no automatic pings), and the TCP transport of twisted below it.     *)
(*                                                                         *)
(* What arrives is a sequence of units: the halves of the opening request, *)
(* then frames.  What is sent is a sequence of responses and frames.       *)
(* dataReceived is one call, but it can process many units; pc says where  *)
(* it stands, and nothing else happens in the reactor until it is done.    *)
(* The daemon never starts a closing handshake, so STATE_CLOSING is passed *)
(* through within a step only.                                             *)
(***************************************************************************)
EXTENDS Naturals, Sequences

CONSTANTS MaxUnits, (* bound: units the client sends             *)
          MaxFeed   (* bound: broadcasts caused by somebody else *)

ASSUME ConnectionAssumption == MaxUnits \in Nat /\ MaxFeed \in Nat

VARIABLES
  state,      (* "CONNECTING", "OPEN" or "CLOSED"                            *)
  transport,  (* "up", "losing", "aborting" or "lost"                        *)
  pc,         (* "idle", "data", or "handshake": data that came with the     *)
              (* request is consumed within succeedHandshake                 *)
  data,       (* units received and not consumed                             *)
  openTimer,  (* is openHandshakeTimeoutCall pending?                        *)
  subscribed, (* is the connection one of the subscribers?                   *)
  buffer,     (* what was written and has not left the transport's buffer    *)
  out,        (* what has left it                                            *)
  resolved,   (* how often is_closed was resolved                            *)
  closes,     (* how often onClose was called                                *)
  units,      (* units the client has sent; bounds the model                 *)
  requested,  (* has the client sent the end of its request?                 *)
  fed         (* broadcasts caused by somebody else; bounds the model        *)

endVars  == <<openTimer, resolved, closes>>
peerVars == <<units, requested, fed>>
vars == <<state, transport, pc, data, subscribed, buffer, out, endVars,
          peerVars>>

(* "part" is the beginning of a request; what completes it is good, offers   *)
(* an extension with parameters that do not parse, lacks the right           *)
(* credentials, or is no opening request.  A text is a command the daemon    *)
(* answers, or one that makes onMessage raise.                               *)
Requests == {"good", "badOffer", "unauthorised", "malformed"}
Frames   == {"text", "raising", "ping", "close", "violation"}
Sent     == {"101", "error", "message", "pong", "close"}

TypeOK ==
  /\ state \in {"CONNECTING", "OPEN", "CLOSED"}
  /\ transport \in {"up", "losing", "aborting", "lost"}
  /\ pc \in {"idle", "data", "handshake"}
  /\ data \in Seq(Requests \union Frames \union {"part"})
  /\ openTimer \in BOOLEAN /\ subscribed \in BOOLEAN
  /\ requested \in BOOLEAN
  /\ buffer \in Seq(Sent) /\ out \in Seq(Sent)
  /\ resolved \in 0..1 /\ closes \in 0..1
  /\ units \in 0..MaxUnits /\ fed \in 0..MaxFeed

(* Mutant: the timer of the opening handshake is started for the connection  *)
(* only when its request has come.                                           *)
InitWithoutTimer ==
  /\ state = "CONNECTING" /\ transport = "up" /\ pc = "idle"
  /\ data = <<>> /\ buffer = <<>> /\ out = <<>>
  /\ openTimer = FALSE /\ subscribed = FALSE
  /\ resolved = 0 /\ closes = 0
  /\ units = 0 /\ requested = FALSE /\ fed = 0

(* _connectionMade *)
Init ==
  /\ state = "CONNECTING" /\ transport = "up" /\ pc = "idle"
  /\ data = <<>> /\ buffer = <<>> /\ out = <<>>
  /\ openTimer = TRUE /\ subscribed = FALSE
  /\ resolved = 0 /\ closes = 0
  /\ units = 0 /\ requested = FALSE /\ fed = 0

-----------------------------------------------------------------------------
(* Mutant: the transport is not told to close. *)
dropConnectionForgets(abort) ==
  /\ pc' = "idle"
  /\ state' = "CLOSED"
  /\ resolved' = IF state = "CLOSED" THEN resolved ELSE resolved + 1
  /\ UNCHANGED transport

(* loseConnection lets the buffer drain, abortConnection drops it.  Both     *)
(* stop reading.                                                             *)
dropConnection(abort) ==
  /\ pc' = "idle"
  /\ IF state = "CLOSED"
     THEN UNCHANGED <<state, resolved, transport>>
     ELSE /\ state' = "CLOSED"
          /\ resolved' = resolved + 1
          /\ transport' = IF abort THEN "aborting" ELSE "losing"

(* Mutant: the client is not taken off the list of subscribers. *)
connectionLostKeeps ==
  /\ transport' = "lost"
  /\ state' = "CLOSED"
  /\ resolved' = IF state = "CLOSED" THEN resolved ELSE resolved + 1
  /\ closes' = closes + 1
  /\ pc' = "idle"
  /\ buffer' = <<>>
  /\ UNCHANGED subscribed

(* onClose is called whatever happened before, and takes the client off the  *)
(* list of subscribers if it is on it.  The timer is left pending.           *)
connectionLost ==
  /\ transport' = "lost"
  /\ state' = "CLOSED"
  /\ resolved' = IF state = "CLOSED" THEN resolved ELSE resolved + 1
  /\ closes' = closes + 1
  /\ pc' = "idle"
  /\ buffer' = <<>>
  /\ subscribed' = FALSE

-----------------------------------------------------------------------------
(* What the client sends arrives in segments of one or more units. *)
Speaks(unit) ==
  IF requested THEN unit \in Frames ELSE unit \in Requests \union {"part"}

Send ==
  /\ transport = "up" /\ pc = "idle"
  /\ units < MaxUnits
  /\ \E unit \in Requests \union Frames \union {"part"} :
       /\ Speaks(unit)
       /\ data' = Append(data, unit)
       /\ requested' = (requested \/ unit \in Requests)
       /\ pc' \in {"data", "idle"}
  /\ units' = units + 1
  /\ UNCHANGED <<state, transport, subscribed, buffer, out, endVars, fed>>

(* processHandshake waits for the end of the header. *)
AwaitHeader ==
  /\ pc = "data" /\ state = "CONNECTING"
  /\ ~requested
  /\ pc' = "idle"
  /\ UNCHANGED <<state, transport, data, subscribed, buffer, out, endVars,
                 peerVars>>

Header    == CHOOSE i \in 1..Len(data) : data[i] \in Requests
AfterHead == SubSeq(data, Header + 1, Len(data))

(* failHandshake: the response is an HTTP error. *)
failHandshake ==
  /\ buffer' = Append(buffer, "error")
  /\ dropConnection(FALSE)

RefuseRequest ==
  /\ pc = "data" /\ state = "CONNECTING"
  /\ requested
  /\ data[Header] \in {"unauthorised", "malformed"}
  /\ data' = AfterHead
  /\ failHandshake
  /\ UNCHANGED <<subscribed, out, openTimer, closes, peerVars>>

(* succeedHandshake gives up where an offer does not parse: onConnect has    *)
(* added the client by then, and the handshake fails.                        *)
RefuseOffer ==
  /\ pc = "data" /\ state = "CONNECTING"
  /\ requested
  /\ data[Header] = "badOffer"
  /\ data' = AfterHead
  /\ subscribed' = TRUE
  /\ failHandshake
  /\ UNCHANGED <<out, openTimer, closes, peerVars>>

(* onConnect adds the client, succeedHandshake opens the connection unless   *)
(* it is stopped by RefuseOffer, and consumes what came with the request.    *)
succeedHandshake ==
  /\ pc = "data" /\ state = "CONNECTING"
  /\ requested
  /\ data[Header] = "good"
  /\ data' = AfterHead
  /\ subscribed' = TRUE
  /\ buffer' = Append(buffer, "101")
  /\ state' = "OPEN"
  /\ openTimer' = FALSE
  /\ pc' = IF AfterHead = <<>> THEN "idle" ELSE "handshake"
  /\ UNCHANGED <<transport, out, resolved, closes, peerVars>>

-----------------------------------------------------------------------------
(* consumeData: one frame after the other while the connection is open. *)

Consuming(frame) ==
  /\ pc \in {"data", "handshake"} /\ state = "OPEN"
  /\ data # <<>>
  /\ Head(data) = frame
  /\ data' = Tail(data)

Continue == pc' = IF Len(data) > 1 THEN pc ELSE "idle"

(* A command the daemon answers: the answer is broadcast, and the connection *)
(* is one of the subscribers.                                                *)
ConsumeText ==
  /\ Consuming("text")
  /\ buffer' = IF subscribed THEN Append(buffer, "message") ELSE buffer
  /\ Continue
  /\ UNCHANGED <<state, transport, subscribed, out, endVars, peerVars>>

ConsumePing ==
  /\ Consuming("ping")
  /\ buffer' = Append(buffer, "pong")
  /\ Continue
  /\ UNCHANGED <<state, transport, subscribed, out, endVars, peerVars>>

(* onCloseFrame: reply, and drop the connection when the reply has left. *)
ConsumeClose ==
  /\ Consuming("close")
  /\ buffer' = Append(buffer, "close")
  /\ dropConnection(FALSE)
  /\ UNCHANGED <<subscribed, out, openTimer, closes, peerVars>>

(* protocolViolation, invalidPayload: failByDrop. *)
ConsumeViolation ==
  /\ Consuming("violation")
  /\ dropConnection(TRUE)
  /\ UNCHANGED <<subscribed, buffer, out, openTimer, closes, peerVars>>

(* onMessage raises.  Out of dataReceived the exception goes to the reactor, *)
(* which disconnects the client; within succeedHandshake it is caught by the *)
(* errback of onConnect, which fails the handshake.                          *)
ConsumeRaising ==
  /\ Consuming("raising")
  /\ IF pc = "handshake"
     THEN failHandshake /\ UNCHANGED <<subscribed, closes>>
     ELSE connectionLost
  /\ UNCHANGED <<out, openTimer, peerVars>>

-----------------------------------------------------------------------------
(* Other callbacks of the reactor. *)

(* Mutant: the state is not looked at when the timer fires. *)
onOpenHandshakeTimeoutAlways ==
  /\ pc = "idle" /\ openTimer
  /\ openTimer' = FALSE
  /\ state' = "CLOSED"
  /\ resolved' = resolved + 1
  /\ transport' = IF transport = "lost" THEN "lost" ELSE "aborting"
  /\ UNCHANGED <<pc, data, subscribed, buffer, out, closes, peerVars>>

(* The timer is still pending after a failed handshake and after the loss of *)
(* the connection; it must do nothing then.                                  *)
onOpenHandshakeTimeout ==
  /\ pc = "idle" /\ openTimer
  /\ openTimer' = FALSE
  /\ IF state = "CONNECTING"
     THEN dropConnection(TRUE)
     ELSE UNCHANGED <<state, resolved, transport, pc>>
  /\ UNCHANGED <<data, subscribed, buffer, out, closes, peerVars>>

(* Mutant: sendMessage does not look at the state. *)
BroadcastToClosed ==
  /\ pc = "idle" /\ subscribed
  /\ fed < MaxFeed
  /\ fed' = fed + 1
  /\ buffer' = Append(buffer, "message")
  /\ UNCHANGED <<state, transport, pc, data, subscribed, out, endVars, units,
                 requested>>

(* A line of the Arduino, or an answer to another client. *)
Broadcast ==
  /\ pc = "idle" /\ subscribed
  /\ fed < MaxFeed
  /\ fed' = fed + 1
  /\ buffer' = IF state = "OPEN" THEN Append(buffer, "message") ELSE buffer
  /\ UNCHANGED <<state, transport, pc, data, subscribed, out, endVars, units,
                 requested>>

(* The client reads: something leaves the buffer. *)
Drain ==
  /\ pc = "idle" /\ transport \in {"up", "losing"}
  /\ buffer # <<>>
  /\ out' = Append(out, Head(buffer))
  /\ buffer' = Tail(buffer)
  /\ UNCHANGED <<state, transport, pc, data, subscribed, endVars, peerVars>>

(* The buffer of a connection that is to be dropped is empty, or it was      *)
(* aborted.                                                                  *)
Disconnect ==
  /\ pc = "idle"
  /\ transport = "aborting" \/ (transport = "losing" /\ buffer = <<>>)
  /\ connectionLost
  /\ UNCHANGED <<data, out, openTimer, peerVars>>

(* The client, or the network, ends the connection. *)
PeerGone ==
  /\ pc = "idle" /\ transport \in {"up", "losing"}
  /\ connectionLost
  /\ UNCHANGED <<data, out, openTimer, peerVars>>

ReactorStep ==
  \/ AwaitHeader \/ RefuseRequest \/ RefuseOffer \/ succeedHandshake
  \/ ConsumeText \/ ConsumePing \/ ConsumeClose \/ ConsumeViolation
  \/ ConsumeRaising

Next ==
  \/ ReactorStep \/ onOpenHandshakeTimeout \/ Disconnect
  \/ Send \/ Broadcast \/ Drain \/ PeerGone

Spec == Init /\ [][Next]_vars

(* The reactor runs, and its timers fire.  The client owes nothing.          *)
FairSpec ==
  /\ Spec
  /\ WF_vars(ReactorStep)
  /\ WF_vars(onOpenHandshakeTimeout)
  /\ WF_vars(Disconnect)

-----------------------------------------------------------------------------
written == out \o buffer

(* is_closed is resolved when the connection is closed and never again,      *)
(* onClose is called when it is lost and never again, whichever of timer,    *)
(* failed handshake, close frame, exception and loss come together, in       *)
(* whichever order (protocol.py 906-986, 1204-1247).  TypeOK has the bounds  *)
(* of both counts.                                                           *)
ClosedOnce ==
  /\ TypeOK
  /\ resolved = (IF state = "CLOSED" THEN 1 ELSE 0)
  /\ closes = (IF transport = "lost" THEN 1 ELSE 0)
  /\ state = "OPEN" => transport = "up" /\ ~openTimer

(* What the client is sent begins with one response to its request, before   *)
(* which and after an error of which there is no frame, though lines of the  *)
(* Arduino may come at any time; nothing follows a close frame (protocol.py  *)
(* 2438-2448, 3210-3331).  An error can follow 101 and frames, however: when *)
(* a command that came with the request raises, failHandshake is called for  *)
(* a handshake that has succeeded (twisted/websocket.py 203-212), although   *)
(* its comment has it called "During opening handshake" (protocol.py:3325).  *)
FramesOnlyWhileOpen ==
  \A i \in 1..Len(written) :
    /\ i = 1 => written[i] \in {"101", "error"}
    /\ written[i] = "101" => i = 1
    /\ written[i] \in {"error", "close"} => i = Len(written)

(* A connection joins the subscribers when onConnect lets it in and leaves   *)
(* them when it is lost, whatever it sends and however it ends, also when    *)
(* its handshake fails after that, for an offer that does not parse or for   *)
(* the exception of a command (websocket.py 16-32, 65-70, protocol.py        *)
(* 3157-3165, 3291-3331).                                                    *)
Life == INSTANCE ConnectionLife WITH
          conn <- IF transport = "lost" THEN "lost"
                  ELSE IF state = "CONNECTING" THEN "new"
                  ELSE IF state = "OPEN" THEN "open"
                  ELSE IF subscribed THEN "dropped" ELSE "denied",
          member <- subscribed

LifeSpec == Life!Spec

(* A client that never finishes its request is got rid of (protocol.py       *)
(* 906-921, 1197-1198).                                                      *)
HandshakeEnds == state = "CONNECTING" ~> state # "CONNECTING"

(* A connection the server has closed is lost in the end, and not kept among *)
(* the subscribers: at once when it was aborted, and when the client goes on *)
(* reading otherwise (abstract.py 386-409, tcp.py 148-162).                  *)
ClosedIsLost ==
  /\ transport = "aborting" ~> transport = "lost"
  /\ ([]<><<Drain>>_vars \/ []<>(buffer = <<>>)) =>
       (state = "CLOSED" ~> transport = "lost")
=============================================================================
