-------------------------------- MODULE Hub --------------------------------
(***************************************************************************)
(* The WebSocket side of one replica (adapters/websocket): the hub, the    *)
(* bounded queue of each connection and the goroutines around them.  The   *)
(* goroutine that reads Redis delivers stored messages; the read pumps of  *)
(* other connections deliver typing hints.  Both call Deliver, which takes *)
(* the connections of the recipients under the hub's lock and then puts the*)
(* event into each queue without it: what a connection was when it was     *)
(* chosen need not hold when its turn comes.                               *)
(*                                                                         *)
(* A slot for a connection is used again once no goroutine knows it.       *)
(***************************************************************************)
EXTENDS Naturals, Sequences

CONSTANTS
  Clients,    \* slots for connections
  Messages,   \* messages that may be on their way at once
  Senders,    \* goroutines that call Deliver
  Bus,        \* the one that reads Redis; the others are read pumps
  Typing,     \* an ephemeral event
  NoClient,
  QueueSize

ASSUME HubAssumption ==
  /\ Bus \in Senders
  /\ Typing \notin Messages
  /\ NoClient \notin Clients
  /\ QueueSize \in Nat \ {0}

VARIABLES
  up,         \* the process lives
  registered, \* Hub.clients
  conn,       \* the socket of each connection, "quiet" when its peer sends no more
  queue,      \* Client.send
  closed,     \* the clients whose closeOnce is closed
  writer,     \* the write pump of each connection
  targets,    \* Deliver: the clients a goroutine has still to serve
  event,      \* Deliver: the event
  pc,         \* where a goroutine is in Enqueue and closeSlow
  slow,       \* closeSlow: the client
  due         \* history: the messages chosen for a connection and not written

client == <<registered, conn, closed, writer>>
sender == <<targets, event, pc, slow>>
vars   == <<up, client, queue, sender, due>>

Events == Messages \union {Typing}
-----------------------------------------------------------------------------
Init ==
  /\ up         = TRUE
  /\ registered = {}
  /\ conn       = [c \in Clients |-> "none"]
  /\ queue      = [c \in Clients |-> <<>>]
  /\ closed     = {}
  /\ writer     = [c \in Clients |-> "none"]
  /\ targets    = [s \in Senders |-> {}]
  /\ event      = [s \in Senders |-> Typing]
  /\ pc         = [s \in Senders |-> "enqueue"]
  /\ slow       = [s \in Senders |-> NoClient]
  /\ due        = [c \in Clients |-> {}]

Forgotten(c) == conn[c] = "none" /\ \A s \in Senders : c \notin targets[s]

Open(c) == conn[c] \in {"open", "quiet"}

Shut(c) == [conn EXCEPT ![c] = "shut"]

(***************************************************************************)
(* ServeHTTP, once the ticket is redeemed: a new client, registered, with a*)
(* write pump.  Its "ready" event is the delivery of a read pump.          *)
(***************************************************************************)
Connect(c) ==
  /\ up
  /\ Forgotten(c)
  /\ conn'       = [conn EXCEPT ![c] = "open"]
  /\ registered' = registered \union {c}
  /\ closed'     = closed \ {c}
  /\ writer'     = [writer EXCEPT ![c] = "running"]
  /\ queue'      = [queue EXCEPT ![c] = <<>>]
  /\ UNCHANGED <<up, sender, due>>

\* The peer goes away or breaks the rules of readPump: Read fails.
PeerLeaves(c) ==
  /\ Open(c)
  /\ conn' = Shut(c)
  /\ UNCHANGED <<up, registered, closed, writer, queue, sender, due>>

\* From here on the peer sends no frame on this connection, though it may stay.
PeerQuiet(c) ==
  /\ conn[c] = "open"
  /\ conn' = [conn EXCEPT ![c] = "quiet"]
  /\ UNCHANGED <<up, registered, closed, writer, queue, sender, due>>

(***************************************************************************)
(* No data frame for the length of the read deadline, whatever the write   *)
(* pump does.  Each frame starts the deadline again.                       *)
(***************************************************************************)
ReadTimeout_None(c) == FALSE /\ UNCHANGED vars
ReadTimeout(c) ==
  /\ Open(c)
  /\ conn' = Shut(c)
  /\ UNCHANGED <<up, registered, closed, writer, queue, sender, due>>

\* readPump returns: the deferred calls cancel the write pump, and unregister.
ReadEnds(c) ==
  /\ c \in registered
  /\ conn[c] = "shut"
  /\ registered' = registered \ {c}
  /\ conn'   = [conn EXCEPT ![c] = "none"]
  /\ writer' = [writer EXCEPT ![c] = "none"]
  /\ due'    = [due EXCEPT ![c] = {}]
  /\ UNCHANGED <<up, closed, queue, sender>>
-----------------------------------------------------------------------------
(***************************************************************************)
(* writePump.                                                              *)
(***************************************************************************)
Write(c) ==
  /\ writer[c] = "running"
  /\ Open(c)
  /\ queue[c] # <<>>
  /\ queue' = [queue EXCEPT ![c] = Tail(queue[c])]
  /\ due'   = [due EXCEPT ![c] = due[c] \ {Head(queue[c])}]
  /\ UNCHANGED <<up, client, sender>>

\* A write that fails or times out closes the socket.
WriteFails(c) ==
  /\ writer[c] = "running"
  /\ queue[c] # <<>>
  /\ queue'  = [queue EXCEPT ![c] = Tail(queue[c])]
  /\ writer' = [writer EXCEPT ![c] = "stopped"]
  /\ conn'   = Shut(c)
  /\ UNCHANGED <<up, registered, closed, sender, due>>

\* No pong in time: the pump returns, and neither the socket nor readPump knows.
PingFails(c) ==
  /\ writer[c] = "running"
  /\ writer' = [writer EXCEPT ![c] = "stopped"]
  /\ UNCHANGED <<up, registered, conn, closed, queue, sender, due>>

WriterStops(c) ==
  /\ writer[c] = "running"
  /\ c \in closed
  /\ writer' = [writer EXCEPT ![c] = "stopped"]
  /\ UNCHANGED <<up, registered, conn, closed, queue, sender, due>>
-----------------------------------------------------------------------------
(***************************************************************************)
(* Deliver.  Only the goroutine of the bus delivers messages.              *)
(***************************************************************************)
Undelivered(m) == \A c \in Clients : m \notin due[c]

DeliverStart(s, e, chosen) ==
  /\ up
  /\ targets[s] = {}
  /\ chosen # {} /\ chosen \subseteq registered
  /\ IF s = Bus THEN e \in Messages /\ Undelivered(e) ELSE e = Typing
  /\ targets' = [targets EXCEPT ![s] = chosen]
  /\ event'   = [event EXCEPT ![s] = e]
  /\ due'     = [c \in Clients |-> IF c \in chosen THEN due[c] \union ({e} \ {Typing})
                                                   ELSE due[c]]
  /\ UNCHANGED <<up, client, queue, pc, slow>>

\* The goroutine is done with client c.
Served(s, c) ==
  /\ targets' = [targets EXCEPT ![s] = @ \ {c}]
  /\ pc'      = [pc EXCEPT ![s] = "enqueue"]
  /\ slow'    = [slow EXCEPT ![s] = NoClient]
  /\ UNCHANGED event

HasRoom_OffByOne(c) == Len(queue[c]) <= QueueSize
HasRoom(c) == Len(queue[c]) < QueueSize

\* The select of Enqueue takes any of its cases that is ready, the default else.
EnqueueSkip(s, c) ==
  /\ pc[s] = "enqueue" /\ c \in targets[s]
  /\ c \in closed
  /\ Served(s, c)
  /\ UNCHANGED <<up, client, queue, due>>

EnqueuePut(s, c) ==
  /\ pc[s] = "enqueue" /\ c \in targets[s]
  /\ HasRoom(c)
  /\ queue' = [queue EXCEPT ![c] = Append(queue[c], event[s])]
  /\ Served(s, c)
  /\ UNCHANGED <<up, client, due>>

EnqueueFull_Drops(s, c) ==
  /\ pc[s] = "enqueue" /\ c \in targets[s]
  /\ c \notin closed /\ ~HasRoom(c)
  /\ Served(s, c)
  /\ UNCHANGED <<up, client, queue, due>>
EnqueueFull(s, c) ==
  /\ pc[s] = "enqueue" /\ c \in targets[s]
  /\ c \notin closed /\ ~HasRoom(c)
  /\ pc'   = [pc EXCEPT ![s] = "check"]
  /\ slow' = [slow EXCEPT ![s] = c]
  /\ UNCHANGED <<up, client, queue, targets, event, due>>

(***************************************************************************)
(* closeSlow: a look at closeOnce, then its close, which panics when it is *)
(* closed already, then the end of the connection.                         *)
(***************************************************************************)
CloseCheck(s) ==
  /\ pc[s] = "check"
  /\ \/ slow[s] \in closed /\ Served(s, slow[s])
     \/ /\ slow[s] \notin closed
        /\ pc' = [pc EXCEPT ![s] = "close"]
        /\ UNCHANGED <<targets, event, slow>>
  /\ UNCHANGED <<up, client, queue, due>>

CloseOnce(s) ==
  /\ pc[s] = "close"
  /\ slow[s] \notin closed
  /\ closed' = closed \union {slow[s]}
  /\ pc' = [pc EXCEPT ![s] = "disconnect"]
  /\ UNCHANGED <<up, registered, conn, writer, queue, targets, event, slow, due>>

Disconnect_Nothing(s) ==
  /\ pc[s] = "disconnect"
  /\ Served(s, slow[s])
  /\ UNCHANGED <<up, client, queue, due>>
Disconnect_WaitsForPeer(s) ==
  /\ pc[s] = "disconnect"
  /\ ~Open(slow[s])
  /\ Served(s, slow[s])
  /\ UNCHANGED <<up, client, queue, due>>
Disconnect(s) ==
  /\ pc[s] = "disconnect"
  /\ conn' = IF Open(slow[s]) THEN Shut(slow[s]) ELSE conn
  /\ Served(s, slow[s])
  /\ UNCHANGED <<up, registered, closed, writer, queue, due>>

DoubleClose(s) == pc[s] = "close" /\ slow[s] \in closed

\* net/http recovers a panic of a read pump, whose connection then ends.
PumpPanics(s) ==
  /\ s # Bus
  /\ DoubleClose(s)
  /\ targets' = [targets EXCEPT ![s] = {}]
  /\ pc'      = [pc EXCEPT ![s] = "enqueue"]
  /\ slow'    = [slow EXCEPT ![s] = NoClient]
  /\ UNCHANGED <<up, client, queue, event, due>>

\* Nothing recovers a panic of the goroutine of the bus: the process dies.
BusPanics ==
  /\ DoubleClose(Bus)
  /\ up'         = FALSE
  /\ registered' = {}
  /\ conn'       = [c \in Clients |-> "none"]
  /\ queue'      = [c \in Clients |-> <<>>]
  /\ closed'     = {}
  /\ writer'     = [c \in Clients |-> "none"]
  /\ targets'    = [s \in Senders |-> {}]
  /\ event'      = [s \in Senders |-> Typing]
  /\ pc'         = [s \in Senders |-> "enqueue"]
  /\ slow'       = [s \in Senders |-> NoClient]
  /\ due'        = [c \in Clients |-> {}]

Restart ==
  /\ ~up
  /\ up' = TRUE
  /\ UNCHANGED <<client, queue, sender, due>>
-----------------------------------------------------------------------------
Pump(c) == Write(c) \/ WriteFails(c) \/ WriterStops(c)

Enqueue(s) ==
  \/ \E c \in Clients : EnqueueSkip(s, c) \/ EnqueuePut(s, c) \/ EnqueueFull(s, c)
  \/ CloseCheck(s) \/ CloseOnce(s) \/ Disconnect(s) \/ PumpPanics(s)

Next ==
  \/ \E c \in Clients : Connect(c) \/ ReadEnds(c)
  \/ \E c \in Clients : PeerLeaves(c) \/ PeerQuiet(c) \/ ReadTimeout(c)
  \/ \E c \in Clients : Pump(c) \/ PingFails(c)
  \/ \E s \in Senders, e \in Events : \E chosen \in SUBSET registered :
       DeliverStart(s, e, chosen)
  \/ \E s \in Senders : Enqueue(s)
  \/ BusPanics
  \/ Restart

Spec == Init /\ [][Next]_vars

(***************************************************************************)
(* Goroutines that can run do run.  What the peer does is its own choice:  *)
(* the read deadline is certain to pass only on one that has gone quiet,   *)
(* since every frame of another starts it again.                           *)
(***************************************************************************)
FairSpec ==
  /\ Spec
  /\ \A c \in Clients : /\ WF_vars(Pump(c)) /\ WF_vars(ReadEnds(c))
                        /\ WF_vars(conn[c] = "quiet" /\ ReadTimeout(c))
  /\ \A s \in Senders : WF_vars(Enqueue(s))
  /\ WF_vars(BusPanics)
-----------------------------------------------------------------------------
TypeOK ==
  /\ up \in BOOLEAN
  /\ registered \subseteq Clients /\ closed \subseteq Clients
  /\ conn    \in [Clients -> {"none", "open", "quiet", "shut"}]
  /\ queue   \in [Clients -> Seq(Events)]
  /\ \A c \in Clients : Len(queue[c]) <= QueueSize
  /\ writer  \in [Clients -> {"none", "running", "stopped"}]
  /\ targets \in [Senders -> SUBSET Clients]
  /\ event   \in [Senders -> Events]
  /\ pc      \in [Senders -> {"enqueue", "check", "close", "disconnect"}]
  /\ slow    \in [Senders -> Clients \union {NoClient}]
  /\ due     \in [Clients -> SUBSET Messages]

(***************************************************************************)
(* client.go: "a full queue means the client cannot keep up, so it is      *)
(* dropped": a message chosen for a connection is still to be queued, in   *)
(* the queue, or the connection is ending.  No event is skipped for a      *)
(* connection that stays: what is in its queue is written in its order, or *)
(* waits there for a write pump that has given up (MessageLeaves).         *)
(***************************************************************************)
Ending(c) ==
  \/ c \in closed \/ ~Open(c)
  \/ \E s \in Senders : slow[s] = c

LostOnlyWithTheConnection ==
  \A c \in Clients : \A m \in due[c] :
    \/ c \in targets[Bus] /\ event[Bus] = m
    \/ \E i \in 1 .. Len(queue[c]) : queue[c][i] = m
    \/ Ending(c)

(***************************************************************************)
(* TestSlowClientIsDroppedInsteadOfBlockingTheHub: a delivery ends whatever*)
(* the connections do, one that never reads included.  In the end, not at  *)
(* once: Disconnect stands for conn.Close, which the delivering goroutine  *)
(* calls itself and which waits some seconds for the peer's close frame.   *)
(* (A delivery whose process dies is over too: SlowHurtsNobodyElse is about*)
(* that.)                                                                  *)
(***************************************************************************)
DeliveryEnds == \A s \in Senders : targets[s] # {} ~> targets[s] = {}

(***************************************************************************)
(* A client that could not keep up is off the hub in the end, although the *)
(* goroutine that closes it is not the one that unregisters it.            *)
(***************************************************************************)
SlowIsDropped == \A c \in Clients : c \in closed \intersect registered ~> c \notin registered

(***************************************************************************)
(* A message chosen for a connection does not stay in its queue for good:  *)
(* it is written, or the connection ends, although a write pump that gave  *)
(* up on a ping (client.go:87) tells nobody.  The exception is what the    *)
(* code leaves open: the peer of such a connection goes on sending frames, *)
(* each of which starts the read deadline again (handler.go:95), so that   *)
(* nothing but an overflow of the queue or the peer itself ends it.        *)
(***************************************************************************)
Abandoned(c) == conn[c] = "open" /\ writer[c] = "stopped" /\ c \notin closed

MessageLeaves ==
  \A c \in Clients, m \in Messages : m \in due[c] ~> m \notin due[c] \/ Abandoned(c)

(***************************************************************************)
(* README: "un consumidor lento nunca degrada al resto": a queue that      *)
(* overflows costs that connection and nothing else, least of all the      *)
(* process that holds them all.                                            *)
(***************************************************************************)
SlowHurtsNobodyElse == up
=============================================================================
