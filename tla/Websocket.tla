------------------------------ MODULE Websocket ------------------------------
(***************************************************************************)
(* The Websocket thread of the daemon: the Twisted reactor with the        *)
(* WebSocket server on it (linuino/websocket.py, linuino/security.py and   *)
(* what they use of the vendored autobahn and twisted).                    *)
(*                                                                         *)
(* Everything here runs in one thread, in two alternating phases: the      *)
(* reactor first runs the calls other threads had left in its              *)
(* threadCallQueue when the phase began (RunCalls, RunCall), then serves   *)
(* its connections (OnConnect .. ConnectionLost).                          *)
(*                                                                         *)
(* A Client is one connection.  A message is a number: line n of the       *)
(* serial port is n, an answer of the daemon itself is Reply.  Which text  *)
(* it is does not matter here, only whether broadcast can encode it.       *)
(* The other thread is the environment here (callFromThread); module Data  *)
(* models it, module Linuino puts the two together.                        *)
(***************************************************************************)
EXTENDS Naturals, Sequences

CONSTANTS Client,     (* the connections                                     *)
          MaxLines,   (* bound: the lines handed over are among 1..MaxLines  *)
          MaxReplies, (* bound: how often the daemon itself answers          *)
          NonAscii    (* lines that are not ASCII: str.encode raises on them *)

ASSUME WebsocketAssumption ==
  MaxLines \in Nat /\ MaxReplies \in Nat /\ NonAscii \subseteq Nat \ {0}

VARIABLES
  reactor,     (* "off", "running" or "failed" (listenTCP raised)            *)
  batch,       (* calls of this phase the reactor has still to run           *)
  conn,        (* per connection: its state, see Conn                        *)
  subscribers, (* LibreSocketFactory.subscribers: a list without duplicates  *)
  sent,        (* per connection: messages sendMessage put on the transport  *)
  feed,        (* history: messages broadcast so far                         *)
  joined,      (* history: per connection, length of feed when it joined     *)
  replies,     (* number of answers so far; only bounds the model            *)
  handed,      (* lines handed to callFromThread, in order                   *)
  ran          (* how many of handed have been run; the rest is the          *)
               (* threadCallQueue                                            *)

socketVars == <<reactor, batch, conn, subscribers, sent, feed, joined, replies>>
vars == <<reactor, batch, conn, subscribers, sent, feed, joined, replies,
          handed, ran>>

(* "new": handshake not received; "open": STATE_OPEN; "dropped": STATE_CLOSED *)
(* after onConnect has added the client; "denied": STATE_CLOSED without       *)
(* having been added; "lost": connectionLost was called.                      *)
Conn  == {"new", "open", "dropped", "denied", "lost"}
Reply == 0
Message == 0..MaxLines

TypeOK ==
  /\ reactor \in {"off", "running", "failed"}
  /\ batch \in Nat
  /\ conn \in [Client -> Conn]
  /\ subscribers \in SUBSET Client
  /\ sent \in [Client -> Seq(Message)]
  /\ feed \in Seq(Message)
  /\ joined \in [Client -> Nat]
  /\ replies \in 0..MaxReplies
  /\ handed \in Seq(1..MaxLines)
  /\ ran \in 0..Len(handed)

Init ==
  /\ reactor = "off"
  /\ batch = 0
  /\ conn = [c \in Client |-> "new"]
  /\ subscribers = {}
  /\ sent = [c \in Client |-> <<>>]
  /\ feed = <<>>
  /\ joined = [c \in Client |-> 0]
  /\ replies = 0
  /\ handed = <<>>
  /\ ran = 0

-----------------------------------------------------------------------------
(* listenTCP may raise: the exception is printed and the thread ends. *)
Run ==
  /\ reactor = "off"
  /\ reactor' \in {"running", "failed"}
  /\ UNCHANGED <<batch, conn, subscribers, sent, feed, joined, replies,
                 handed, ran>>

(* Mutant: sendMessage does not look at the state of the connection. *)
sendAlways(m, receivers) ==
  sent' = [c \in Client |-> IF c \in receivers THEN Append(sent[c], m)
                                               ELSE sent[c]]

(* sendMessage returns silently unless the connection is open. *)
sendMessage(m, receivers) ==
  sent' = [c \in Client |-> IF c \in receivers /\ conn[c] = "open"
                            THEN Append(sent[c], m)
                            ELSE sent[c]]

(* Encoding is the first thing the loop body does: it raises before anything *)
(* is sent to anybody.                                                       *)
broadcast(m) ==
  IF m \in NonAscii
  THEN UNCHANGED <<sent, feed>>
  ELSE sendMessage(m, subscribers) /\ feed' = Append(feed, m)

add_client(c) == subscribers' = subscribers \union {c}

(* Mutant: clients are never removed. *)
keep_client(c) == UNCHANGED subscribers

remove_client(c) == subscribers' = subscribers \ {c}

-----------------------------------------------------------------------------
(* First phase: runUntilCurrent runs the calls present when it begins; what  *)
(* comes in meanwhile waits for the next round.                              *)
RunCalls ==
  /\ reactor = "running"
  /\ batch = 0
  /\ ran < Len(handed)
  /\ batch' = Len(handed) - ran
  /\ UNCHANGED <<reactor, conn, subscribers, sent, feed, joined, replies,
                 handed, ran>>

(* Mutant: a call takes the next one off the queue as well. *)
RunCallTakesTwo ==
  /\ reactor = "running"
  /\ batch > 0
  /\ batch' = batch - 1
  /\ ran' = ran + 2
  /\ broadcast(handed[ran + 1])
  /\ UNCHANGED <<reactor, conn, subscribers, joined, replies, handed>>

(* Mutant: a call that raises ends the loop and stays in the queue. *)
RunCallGivesUp ==
  /\ reactor = "running"
  /\ batch > 0
  /\ broadcast(handed[ran + 1])
  /\ IF handed[ran + 1] \in NonAscii
     THEN batch' = 0 /\ UNCHANGED ran
     ELSE batch' = batch - 1 /\ ran' = ran + 1
  /\ UNCHANGED <<reactor, conn, subscribers, joined, replies, handed>>

(* An exception of the call is logged and the loop goes on. *)
RunCall ==
  /\ reactor = "running"
  /\ batch > 0
  /\ batch' = batch - 1
  /\ ran' = ran + 1
  /\ broadcast(handed[ran + 1])
  /\ UNCHANGED <<reactor, conn, subscribers, joined, replies, handed>>

-----------------------------------------------------------------------------
(* Second phase: the connections. *)

Serving == reactor = "running" /\ batch = 0

(* The authentication headers: absent, wrong or right. *)
Header  == {"absent", "wrong", "right"}
Headers == [user : Header, password : Header]

auth_status(h) ==
  /\ h.user # "absent" /\ h.password # "absent"
  /\ h.user = "right"
  /\ h.password = "right"

(* onConnect raises HttpException: the handshake fails with 401. *)
Deny(c) ==
  /\ conn' = [conn EXCEPT ![c] = "denied"]
  /\ UNCHANGED <<subscribers, joined>>

(* The compression extension the client offers, if any.  Its parameters are  *)
(* only looked at in succeedHandshake; when they do not parse, the handshake *)
(* fails there.                                                              *)
Offers == {"none", "parses", "broken"}

Accepted(offer) == IF offer = "broken" THEN "dropped" ELSE "open"

(* Mutant: onConnect forgets add_client. *)
AcceptOnly(c, offer) ==
  /\ conn' = [conn EXCEPT ![c] = Accepted(offer)]
  /\ joined' = [joined EXCEPT ![c] = Len(feed)]
  /\ UNCHANGED subscribers

(* onConnect has returned, and succeedHandshake follows in the same call: it *)
(* opens the connection, or fails the handshake of the client just added.    *)
Accept(c, offer) ==
  /\ add_client(c)
  /\ conn' = [conn EXCEPT ![c] = Accepted(offer)]
  /\ joined' = [joined EXCEPT ![c] = Len(feed)]

onConnect(c, h, offer) ==
  /\ Serving
  /\ conn[c] = "new"
  /\ IF auth_status(h) THEN Accept(c, offer) ELSE Deny(c)
  /\ UNCHANGED <<reactor, batch, sent, feed, replies, handed, ran>>

(* A text message that ends in a broadcast: an error message, or the result  *)
(* of a command the daemon executes itself.  A binary message and a command  *)
(* for the Arduino change nothing here.                                      *)
onMessage(c) ==
  /\ Serving
  /\ conn[c] = "open"
  /\ replies < MaxReplies
  /\ replies' = replies + 1
  /\ broadcast(Reply)
  /\ UNCHANGED <<reactor, batch, conn, subscribers, joined, handed, ran>>

(* connectionLost calls onClose, whatever the state of the connection. *)
Lose(c) ==
  /\ conn' = [conn EXCEPT ![c] = "lost"]
  /\ remove_client(c)

(* The result of the command cannot be encoded (delete_log yields None, a    *)
(* log may hold non-ASCII text): the exception leaves dataReceived, and the  *)
(* reactor disconnects the client that sent the command.                     *)
OnMessageRaises(c) ==
  /\ Serving
  /\ conn[c] = "open"
  /\ Lose(c)
  /\ UNCHANGED <<reactor, batch, sent, feed, joined, replies, handed, ran>>

(* A close frame or a protocol violation of the client: the connection is    *)
(* closed, but remains a subscriber until connectionLost.                    *)
DropConnection(c) ==
  /\ Serving
  /\ conn[c] = "open"
  /\ conn' = [conn EXCEPT ![c] = "dropped"]
  /\ UNCHANGED <<reactor, batch, subscribers, sent, feed, joined, replies,
                 handed, ran>>

(* The opening handshake fails before onConnect is asked: the request is not *)
(* a WebSocket handshake, or its timer runs out (protocol.py 906-921).        *)
FailHandshake(c) ==
  /\ Serving
  /\ conn[c] = "new"
  /\ Deny(c)
  /\ UNCHANGED <<reactor, batch, sent, feed, replies, handed, ran>>

ConnectionLost(c) ==
  /\ Serving
  /\ conn[c] # "lost"
  /\ Lose(c)
  /\ UNCHANGED <<reactor, batch, sent, feed, joined, replies, handed, ran>>

Serve(c) ==
  \/ \E h \in Headers, offer \in Offers : onConnect(c, h, offer)
  \/ FailHandshake(c)
  \/ onMessage(c)
  \/ OnMessageRaises(c)
  \/ DropConnection(c)
  \/ ConnectionLost(c)

ReactorNext == Run \/ RunCalls \/ RunCall \/ \E c \in Client : Serve(c)

-----------------------------------------------------------------------------
(* Environment: another thread hands over the next line it has read.         *)
LastHanded == IF handed = <<>> THEN 0 ELSE handed[Len(handed)]

callFromThread ==
  /\ \E n \in LastHanded + 1 .. MaxLines : handed' = Append(handed, n)
  /\ UNCHANGED <<socketVars, ran>>

Next == ReactorNext \/ callFromThread

Spec == Init /\ [][Next]_vars

(* The reactor thread is scheduled.  Nothing obliges a client to do anything. *)
Fairness == WF_vars(RunCalls) /\ WF_vars(RunCall)

FairSpec == Spec /\ Fairness

-----------------------------------------------------------------------------
(* The subscribers are the authenticated connections that are not lost yet,  *)
(* whether their handshake succeeded or not and whichever way they end       *)
(* (websocket.py 16-32, 65-70, 88-105, protocol.py 3157-3165).               *)
SubscribersAreConnections ==
  subscribers = {c \in Client : conn[c] \in {"open", "dropped"}}

(* Every client sees one and the same feed: what a client was sent is a      *)
(* gap-free stretch of it that starts where the client joined and, while the *)
(* connection is open, reaches to the end (websocket.py 107-112).            *)
EveryClientSeesTheFeed ==
  \A c \in Client :
    /\ joined[c] + Len(sent[c]) <= Len(feed)
    /\ \A i \in 1..Len(sent[c]) : sent[c][i] = feed[joined[c] + i]
    /\ conn[c] = "open" => joined[c] + Len(sent[c]) = Len(feed)
    /\ conn[c] \in {"new", "denied"} => sent[c] = <<>>

(* The calls of a phase are in the queue, so runUntilCurrent never takes     *)
(* what is not there, however the other thread appends (base.py 790-806).    *)
BatchInQueue == batch <= Len(handed) - ran

(* A broadcast reaches exactly the connections that are open at that moment: *)
(* none that has not shown its credentials, none that was closed or refused  *)
(* but is still a subscriber, and no open one is left out; a broadcast that  *)
(* fails reaches nobody (websocket.py 30-32, 65-70, 107-112).                *)
BroadcastReachesTheOpen ==
  [][\A c \in Client :
       sent'[c] # sent[c] <=> feed' # feed /\ conn[c] = "open"]_vars

(* A running reactor gets round to every call handed over, even when clients *)
(* keep it busy and other calls keep coming (websocket.py 145-149, base.py   *)
(* 787-806).                                                                 *)
EveryCallRuns ==
  \A i \in 1..MaxLines :
    reactor = "running" /\ i <= Len(handed) ~> ran >= i

(* Each connection lives the life of module ConnectionLife, which module     *)
(* Connection shows autobahn to give it: however refusals, closings, lost     *)
(* connections and broadcasts interleave, a client is a member from its only *)
(* acceptance, be it in vain, to its loss (websocket.py 16-32, 65-70,        *)
(* 88-105, protocol.py 3157-3165).                                           *)
Life(c) == INSTANCE ConnectionLife WITH conn <- conn[c],
                                        member <- (c \in subscribers)

EachLives ==
  /\ \A c \in Client : Life(c)!Init
  /\ [][\A c \in Client : Life(c)!Next \/ UNCHANGED Life(c)!vars]_vars

(* The lines go through callFromThread as module ThreadCalls has it, and     *)
(* module Reactor shows twisted to implement: the calls run once each and in *)
(* order, whatever the clients make the reactor do in between (websocket.py  *)
(* 145-149, base.py 787-806).                                                *)
Calls == INSTANCE ThreadCalls WITH Call <- 1..MaxLines

LinesAreCalls == Calls!Spec
=============================================================================
