----------------------------- MODULE Hub_proofs -----------------------------
(***************************************************************************)
(* What a connection may miss, for any number of connections, goroutines   *)
(* and messages, and any size of the queues.                               *)
(***************************************************************************)
EXTENDS Hub, TLAPS

\* A goroutine in closeSlow is about one of the clients it has to serve.
SlowOK(s) ==
  /\ IF pc[s] = "enqueue" THEN slow[s] = NoClient ELSE slow[s] \in targets[s]
  /\ pc[s] = "disconnect" => slow[s] \in closed

\* Nothing is due on a connection that is over, and the hub has forgotten it.
OverOK(c) == conn[c] = "none" => due[c] = {} /\ c \notin registered

\* A message due on a connection is still to be queued, in the queue, or lost with it.
Kept(c, m) ==
  \/ c \in targets[Bus] /\ event[Bus] = m
  \/ \E i \in 1 .. Len(queue[c]) : queue[c][i] = m
  \/ Ending(c)

HInv ==
  /\ TypeOK
  /\ \A s \in Senders : SlowOK(s)
  /\ \A c \in Clients : OverOK(c) /\ \A m \in due[c] : Kept(c, m)

LEMMA HTyped ==
  ASSUME HInv, NEW c \in Clients
  PROVE  /\ TypeOK /\ queue[c] \in Seq(Events) /\ Len(queue[c]) \in Nat /\ OverOK(c)
         /\ due[c] \subseteq Messages /\ \A m \in due[c] : Kept(c, m)
BY DEF HInv, TypeOK

\* The goroutine s is done with a client: it was taken from its targets.
LEMMA ServedTyped ==
  ASSUME TypeOK, NEW s \in Senders, NEW c, Served(s, c)
  PROVE  /\ targets' \in [Senders -> SUBSET Clients] /\ targets'[s] = targets[s] \ {c}
         /\ pc' \in [Senders -> {"enqueue", "check", "close", "disconnect"}] /\ pc'[s] = "enqueue"
         /\ slow' \in [Senders -> Clients \union {NoClient}] /\ slow'[s] = NoClient
         /\ event' = event
         /\ \A z \in Senders \ {s} : targets'[z] = targets[z] /\ pc'[z] = pc[z] /\ slow'[z] = slow[z]
BY DEF Served, TypeOK

(***************************************************************************)
(* The steps of a connection: only c changes, and no goroutine.            *)
(***************************************************************************)
LEMMA ConnStep ==
  ASSUME HInv, NEW c \in Clients, UNCHANGED <<targets, event, pc, slow>>,
         TypeOK', \A d \in Clients \ {c} : /\ conn'[d] = conn[d] /\ queue'[d] = queue[d] /\ due'[d] = due[d]
                                           /\ d \in registered' <=> d \in registered
                                           /\ d \in closed' <=> d \in closed,
         c \in closed /\ c \notin closed' => \A s \in Senders : c \notin targets[s],
         OverOK(c)', \A m \in due'[c] : Kept(c, m)'
  PROVE  HInv'
<1>1. ASSUME NEW s \in Senders
      PROVE  SlowOK(s)'
  <2>1. SlowOK(s) /\ TypeOK
    BY DEF HInv
  <2>2. pc[s] = "disconnect" => slow[s] \in Clients /\ slow[s] \in closed /\ slow[s] \in targets[s]
    BY <2>1 DEF SlowOK, TypeOK
  <2> QED BY <2>1, <2>2 DEF SlowOK
<1>2. ASSUME NEW d \in Clients, d # c
      PROVE  OverOK(d)' /\ \A m \in due'[d] : Kept(d, m)'
  BY <1>2, HTyped DEF OverOK, Kept, Ending, Open
<1> QED BY <1>1, <1>2 DEF HInv

LEMMA ConnSteps ==
  ASSUME HInv, NEW c \in Clients,
         \/ Connect(c) \/ PeerLeaves(c) \/ PeerQuiet(c) \/ ReadTimeout(c) \/ ReadEnds(c)
         \/ Pump(c) \/ PingFails(c)
  PROVE  HInv'
<1> TypeOK /\ OverOK(c) /\ queue[c] \in Seq(Events) /\ \A m \in due[c] : Kept(c, m)
  BY HTyped
<1>1. CASE Connect(c)
  <2>1. /\ conn[c] = "none" /\ (\A s \in Senders : c \notin targets[s]) /\ due' = due
        /\ conn' = [conn EXCEPT ![c] = "open"] /\ UNCHANGED <<targets, event, pc, slow>>
        /\ registered' = registered \union {c} /\ closed' = closed \ {c}
        /\ queue' = [queue EXCEPT ![c] = <<>>]
    BY <1>1 DEF Connect, Forgotten, sender
  <2>2. TypeOK'
    BY <1>1, <2>1, HubAssumption DEF Connect, TypeOK
  <2>3. OverOK(c)' /\ due'[c] = {}
    BY <2>1 DEF OverOK, TypeOK
  <2>4. \A d \in Clients \ {c} : /\ conn'[d] = conn[d] /\ queue'[d] = queue[d]
    BY <2>1 DEF TypeOK
  <2> QED BY <2>1, <2>2, <2>3, <2>4, ConnStep
<1>2. CASE PeerLeaves(c) \/ ReadTimeout(c)
  <2>1. /\ conn' = [conn EXCEPT ![c] = "shut"] /\ UNCHANGED <<up, registered, closed, writer, queue, due>>
        /\ UNCHANGED <<targets, event, pc, slow>>
    BY <1>2 DEF PeerLeaves, ReadTimeout, Shut, sender
  <2>2. TypeOK' /\ conn'[c] = "shut" /\ \A d \in Clients \ {c} : conn'[d] = conn[d]
    BY <2>1 DEF TypeOK
  <2>3. OverOK(c)' /\ \A m \in due'[c] : Kept(c, m)'
    BY <2>2 DEF OverOK, Kept, Ending, Open
  <2> QED BY <2>1, <2>2, <2>3, ConnStep
<1>3. CASE ReadEnds(c)
  <2>1. /\ conn' = [conn EXCEPT ![c] = "none"] /\ registered' = registered \ {c}
        /\ due' = [due EXCEPT ![c] = {}] /\ writer' = [writer EXCEPT ![c] = "none"]
        /\ UNCHANGED <<up, closed, queue, targets, event, pc, slow>>
    BY <1>3 DEF ReadEnds, sender
  <2>2. /\ TypeOK' /\ conn'[c] = "none" /\ due'[c] = {}
        /\ \A d \in Clients \ {c} : conn'[d] = conn[d] /\ due'[d] = due[d]
    BY <2>1 DEF TypeOK
  <2>3. OverOK(c)'
    BY <2>1, <2>2 DEF OverOK
  <2> QED BY <2>1, <2>2, <2>3, ConnStep
<1>4. CASE Write(c)
  <2>1. /\ queue[c] # <<>> /\ queue' = [queue EXCEPT ![c] = Tail(queue[c])]
        /\ due' = [due EXCEPT ![c] = due[c] \ {Head(queue[c])}]
        /\ UNCHANGED <<up, registered, conn, closed, writer, targets, event, pc, slow>>
    BY <1>4 DEF Write, client, sender
  <2>2. /\ Tail(queue[c]) \in Seq(Events) /\ Len(Tail(queue[c])) = Len(queue[c]) - 1
        /\ \A i \in 1 .. Len(queue[c]) : i = 1 \/ Tail(queue[c])[i - 1] = queue[c][i]
        /\ Head(queue[c]) = queue[c][1] /\ Len(queue[c]) \in Nat
    BY <2>1
  <2>3. /\ queue'[c] = Tail(queue[c]) /\ due'[c] = due[c] \ {Head(queue[c])}
        /\ \A d \in Clients \ {c} : queue'[d] = queue[d] /\ due'[d] = due[d]
    BY <2>1 DEF TypeOK
  <2>4. TypeOK'
    <3>1. queue' \in [Clients -> Seq(Events)] /\ due' \in [Clients -> SUBSET Messages]
      BY <2>1, <2>2 DEF TypeOK
    <3>2. \A d \in Clients : Len(queue'[d]) <= QueueSize
      <4>1. Len(queue'[c]) <= Len(queue[c]) /\ Len(queue'[c]) \in Nat /\ Len(queue[c]) \in Nat
        BY <2>1, <2>3
      <4>2. Len(queue[c]) <= QueueSize /\ \A d \in Clients \ {c} : Len(queue'[d]) <= QueueSize
        BY <2>3 DEF TypeOK
      <4> QED BY <4>1, <4>2, HubAssumption
    <3> QED BY <2>1, <3>1, <3>2 DEF TypeOK
  <2>5. OverOK(c)'
    BY <2>1, <2>3 DEF OverOK
  <2>6. ASSUME NEW m \in due'[c]
        PROVE  Kept(c, m)'
    <3>1. m \in due[c] /\ m # queue[c][1]
      BY <2>2, <2>3, <2>6
    <3>2. CASE \E i \in 1 .. Len(queue[c]) : queue[c][i] = m
      <4>1. PICK i \in 1 .. Len(queue[c]) : queue[c][i] = m /\ i # 1
        BY <3>1, <3>2
      <4>2. i - 1 \in 1 .. Len(queue'[c]) /\ queue'[c][i - 1] = m
        BY <2>2, <2>3, <4>1
      <4> QED BY <4>2 DEF Kept
    <3>3. CASE (c \in targets[Bus] /\ event[Bus] = m) \/ Ending(c)
      BY <2>1, <3>3 DEF Kept, Ending, Open
    <3> QED BY <3>1, <3>2, <3>3 DEF Kept
  <2> QED BY <2>1, <2>3, <2>4, <2>5, <2>6, ConnStep
<1>5. CASE WriteFails(c)
  <2>1. /\ queue[c] # <<>> /\ queue' = [queue EXCEPT ![c] = Tail(queue[c])]
        /\ writer' = [writer EXCEPT ![c] = "stopped"] /\ conn' = [conn EXCEPT ![c] = "shut"]
        /\ UNCHANGED <<up, registered, closed, due, targets, event, pc, slow>>
    BY <1>5 DEF WriteFails, Shut, sender
  <2>2. Tail(queue[c]) \in Seq(Events) /\ Len(Tail(queue[c])) = Len(queue[c]) - 1 /\ Len(queue[c]) \in Nat
    BY <2>1
  <2>3. /\ queue'[c] = Tail(queue[c]) /\ conn'[c] = "shut"
        /\ \A d \in Clients \ {c} : queue'[d] = queue[d] /\ conn'[d] = conn[d]
    BY <2>1 DEF TypeOK
  <2>4. TypeOK'
    <3>1. queue' \in [Clients -> Seq(Events)] /\ conn' \in [Clients -> {"none", "open", "quiet", "shut"}]
      BY <2>1, <2>2 DEF TypeOK
    <3>2. \A d \in Clients : Len(queue'[d]) <= QueueSize
      <4>1. Len(queue'[c]) <= Len(queue[c]) /\ Len(queue'[c]) \in Nat /\ Len(queue[c]) \in Nat
        BY <2>1, <2>2, <2>3
      <4>2. Len(queue[c]) <= QueueSize /\ \A d \in Clients \ {c} : Len(queue'[d]) <= QueueSize
        BY <2>3 DEF TypeOK
      <4> QED BY <4>1, <4>2, HubAssumption
    <3> QED BY <2>1, <3>1, <3>2 DEF TypeOK
  <2>5. OverOK(c)' /\ \A m \in due'[c] : Kept(c, m)'
    BY <2>3 DEF OverOK, Kept, Ending, Open
  <2> QED BY <2>1, <2>3, <2>4, <2>5, ConnStep
<1>6. CASE PingFails(c) \/ WriterStops(c)
  <2>1. /\ writer' \in [Clients -> {"none", "running", "stopped"}]
        /\ UNCHANGED <<up, registered, conn, closed, queue, due, targets, event, pc, slow>>
    BY <1>6 DEF PingFails, WriterStops, sender, TypeOK
  <2>2. TypeOK'
    BY <2>1 DEF TypeOK
  <2>3. OverOK(c)' /\ \A m \in due'[c] : Kept(c, m)'
    BY <2>1 DEF OverOK, Kept, Ending, Open
  <2> QED BY <2>1, <2>2, <2>3, ConnStep
<1>7. CASE PeerQuiet(c)
  <2>1. /\ conn[c] = "open" /\ conn' = [conn EXCEPT ![c] = "quiet"]
        /\ UNCHANGED <<up, registered, closed, writer, queue, due, targets, event, pc, slow>>
    BY <1>7 DEF PeerQuiet, sender
  <2>2. TypeOK' /\ conn'[c] = "quiet" /\ \A d \in Clients \ {c} : conn'[d] = conn[d]
    BY <2>1 DEF TypeOK
  <2>3. OverOK(c)' /\ \A m \in due'[c] : Kept(c, m)'
    BY <2>1, <2>2 DEF OverOK, Kept, Ending, Open
  <2> QED BY <2>1, <2>2, <2>3, ConnStep
<1> QED BY <1>1, <1>2, <1>3, <1>4, <1>5, <1>6, <1>7 DEF Pump

(***************************************************************************)
(* The steps of a goroutine that delivers.                                 *)
(***************************************************************************)
LEMMA DeliverStarts ==
  ASSUME HInv, NEW s \in Senders, NEW e \in Events, NEW chosen \in SUBSET registered,
         DeliverStart(s, e, chosen)
  PROVE  HInv'
<1>1. TypeOK /\ SlowOK(s)
  BY DEF HInv
<1>2. /\ targets[s] = {} /\ targets' = [targets EXCEPT ![s] = chosen]
      /\ event' = [event EXCEPT ![s] = e] /\ (s = Bus => e \in Messages) /\ (s # Bus => e = Typing)
      /\ due' = [c \in Clients |-> IF c \in chosen THEN due[c] \union ({e} \ {Typing}) ELSE due[c]]
      /\ UNCHANGED <<up, registered, conn, closed, writer, queue, pc, slow>>
  BY DEF DeliverStart, client
<1>3. /\ targets'[s] = chosen /\ event'[s] = e
      /\ \A z \in Senders \ {s} : targets'[z] = targets[z] /\ event'[z] = event[z]
  BY <1>1, <1>2 DEF TypeOK
<1>4. \A c \in Clients : due'[c] = IF c \in chosen THEN due[c] \union ({e} \ {Typing}) ELSE due[c]
  BY <1>2
<1>5. TypeOK'
  <2>1. due' \in [Clients -> SUBSET Messages]
    BY <1>1, <1>2 DEF TypeOK, Events
  <2>2. targets' \in [Senders -> SUBSET Clients] /\ event' \in [Senders -> Events]
    BY <1>1, <1>2 DEF TypeOK
  <2> QED BY <1>1, <1>2, <2>1, <2>2 DEF TypeOK
<1>6. ASSUME NEW z \in Senders
      PROVE  SlowOK(z)'
  <2>1. SlowOK(z)
    BY DEF HInv
  <2>2. z # s => targets'[z] = targets[z]
    BY <1>3
  <2>3. pc[s] = "enqueue"
    BY <1>1, <1>2 DEF SlowOK
  <2> QED BY <1>2, <2>1, <2>2, <2>3 DEF SlowOK
<1>7. ASSUME NEW c \in Clients
      PROVE  OverOK(c)'
  BY <1>2, <1>4, HTyped DEF OverOK
<1>8. ASSUME NEW c \in Clients, NEW m \in due'[c]
      PROVE  Kept(c, m)'
  <2>1. CASE m \in due[c]
    <3>1. c \in targets[Bus] => s # Bus
      BY <1>2
    <3>2. (c \in targets[Bus] /\ event[Bus] = m) => (c \in targets'[Bus] /\ event'[Bus] = m)
      BY <1>3, <3>1, HubAssumption
    <3> QED BY <1>2, <2>1, <3>2, HTyped DEF Kept, Ending, Open
  <2>2. CASE m \notin due[c]
    <3>1. c \in chosen /\ m = e /\ m # Typing
      BY <1>4, <1>8, <2>2
    <3>2. s = Bus
      BY <1>2, <3>1
    <3> QED BY <1>3, <3>1, <3>2 DEF Kept
  <2> QED BY <2>1, <2>2
<1> QED BY <1>5, <1>6, <1>7, <1>8 DEF HInv

\* The goroutine s is done with the client c, which has the event or is ending.
LEMMA Serves ==
  ASSUME HInv, NEW s \in Senders, NEW c \in Clients, Served(s, c), TypeOK',
         UNCHANGED <<registered, closed, due>>,
         \A d \in Clients : conn'[d] = conn[d] \/ (conn[d] # "none" /\ conn'[d] = "shut"),
         \A d \in Clients : \A m \in Messages :
           (\E i \in 1 .. Len(queue[d]) : queue[d][i] = m) => \E i \in 1 .. Len(queue'[d]) : queue'[d][i] = m,
         slow[s] \in {c, NoClient},
         \/ c \in closed \/ ~Open(c)'
         \/ pc[s] = "enqueue" /\ slow[s] # c /\ \E i \in 1 .. Len(queue'[c]) : queue'[c][i] = event[s]
  PROVE  HInv'
<1>1. /\ targets'[s] = targets[s] \ {c} /\ pc'[s] = "enqueue" /\ slow'[s] = NoClient /\ event' = event
      /\ \A z \in Senders \ {s} : targets'[z] = targets[z] /\ pc'[z] = pc[z] /\ slow'[z] = slow[z]
  BY ServedTyped DEF HInv
<1>2. ASSUME NEW z \in Senders
      PROVE  SlowOK(z)'
  <2>1. SlowOK(z)
    BY DEF HInv
  <2> QED BY <1>1, <2>1 DEF SlowOK
<1>3. ASSUME NEW d \in Clients
      PROVE  OverOK(d)'
  BY HTyped DEF OverOK
<1>4. ASSUME NEW d \in Clients, NEW m \in due'[d]
      PROVE  Kept(d, m)'
  <2>1. Kept(d, m) /\ m \in Messages
    BY <1>4, HTyped
  <2>2. CASE \E i \in 1 .. Len(queue[d]) : queue[d][i] = m
    BY <2>1, <2>2 DEF Kept
  <2>3. CASE d \in closed \/ ~Open(d)
    BY <2>3 DEF Kept, Ending, Open
  <2>4. CASE d \in targets[Bus] /\ event[Bus] = m
    <3>1. CASE s = Bus /\ d = c
      BY <1>1, <2>4, <3>1 DEF Kept, Ending, Open
    <3>2. CASE s # Bus \/ d # c
      BY <1>1, <2>4, <3>2, HubAssumption DEF Kept
    <3> QED BY <3>1, <3>2
  <2>5. ASSUME NEW z \in Senders, slow[z] = d
        PROVE  Kept(d, m)'
    <3>1. CASE z = s
      <4>1. d = c
        BY <2>5, <3>1, HubAssumption
      <4> QED BY <2>5, <3>1, <4>1 DEF Kept, Ending, Open
    <3>2. CASE z # s
      BY <1>1, <2>5, <3>2 DEF Kept, Ending, Open
    <3> QED BY <3>1, <3>2
  <2> QED BY <2>1, <2>2, <2>3, <2>4, <2>5 DEF Kept, Ending, Open
<1> QED BY <1>2, <1>3, <1>4 DEF HInv

\* In closeSlow: the goroutine goes on with its client.
LEMMA ClosesOn ==
  ASSUME HInv, NEW s \in Senders, NEW c \in targets[s], NEW to \in {"check", "close", "disconnect"},
         pc' = [pc EXCEPT ![s] = to], slow' = [slow EXCEPT ![s] = c], slow[s] \in {c, NoClient},
         closed \subseteq closed', closed' \subseteq closed \union {c}, to = "disconnect" => c \in closed',
         UNCHANGED <<up, registered, conn, writer, queue, targets, event, due>>
  PROVE  HInv'
<1>1. TypeOK /\ c \in Clients
  BY DEF HInv, TypeOK
<1>2. TypeOK' /\ pc'[s] = to /\ slow'[s] = c
      /\ \A z \in Senders \ {s} : pc'[z] = pc[z] /\ slow'[z] = slow[z]
  BY <1>1 DEF TypeOK
<1>3. ASSUME NEW z \in Senders
      PROVE  SlowOK(z)'
  <2>1. SlowOK(z)
    BY DEF HInv
  <2> QED BY <1>2, <2>1 DEF SlowOK
<1>4. ASSUME NEW d \in Clients
      PROVE  OverOK(d)' /\ \A m \in due'[d] : Kept(d, m)'
  <2>1. OverOK(d) /\ \A m \in due[d] : Kept(d, m)
    BY HTyped
  <2>2. Ending(d) => Ending(d)'
    <3>1. ASSUME NEW z \in Senders, slow[z] = d
          PROVE  slow'[z] = d
      BY <1>2, <3>1, HubAssumption
    <3> QED BY <3>1 DEF Ending, Open
  <2> QED BY <2>1, <2>2 DEF OverOK, Kept
<1> QED BY <1>2, <1>3, <1>4 DEF HInv

LEMMA EnqueueSteps ==
  ASSUME HInv, NEW s \in Senders, Enqueue(s)
  PROVE  HInv'
<1>1. TypeOK /\ SlowOK(s)
  BY DEF HInv
<1>2. ASSUME NEW c \in Clients, EnqueueSkip(s, c)
      PROVE  HInv'
  <2>1. /\ c \in closed /\ pc[s] = "enqueue" /\ Served(s, c)
        /\ UNCHANGED <<up, registered, conn, closed, writer, queue, due>>
    BY <1>2 DEF EnqueueSkip, client
  <2>2. TypeOK'
    BY <1>1, <2>1, ServedTyped DEF TypeOK
  <2> QED BY <1>1, <2>1, <2>2, Serves DEF SlowOK
<1>3. ASSUME NEW c \in Clients, EnqueuePut(s, c)
      PROVE  HInv'
  <2>1. /\ pc[s] = "enqueue" /\ Served(s, c) /\ Len(queue[c]) < QueueSize
        /\ queue' = [queue EXCEPT ![c] = Append(queue[c], event[s])]
        /\ UNCHANGED <<up, registered, conn, closed, writer, due>>
    BY <1>3 DEF EnqueuePut, HasRoom, client
  <2>2. PICK q, e : q = queue[c] /\ e = event[s]
    OBVIOUS
  <2>3. q \in Seq(Events) /\ e \in Events
    BY <1>1, <2>2 DEF TypeOK
  <2>4. /\ Append(q, e) \in Seq(Events) /\ Len(Append(q, e)) = Len(q) + 1 /\ Len(q) \in Nat
        /\ Append(q, e)[Len(q) + 1] = e /\ \A i \in 1 .. Len(q) : Append(q, e)[i] = q[i]
    BY <2>3
  <2>5. queue'[c] = Append(q, e) /\ \A d \in Clients \ {c} : queue'[d] = queue[d]
    BY <1>1, <2>1, <2>2 DEF TypeOK
  <2>6. TypeOK'
    <3>1. queue' \in [Clients -> Seq(Events)]
      BY <1>1, <2>1, <2>2, <2>4 DEF TypeOK
    <3>2. ASSUME NEW d \in Clients
          PROVE  Len(queue'[d]) <= QueueSize
      <4>1. CASE d = c
        BY <2>1, <2>2, <2>4, <2>5, <4>1, HubAssumption
      <4>2. CASE d # c
        BY <1>1, <2>5, <4>2 DEF TypeOK
      <4> QED BY <4>1, <4>2
    <3> QED BY <1>1, <2>1, <3>1, <3>2, ServedTyped DEF TypeOK
  <2>7. ASSUME NEW d \in Clients, NEW m, NEW i \in 1 .. Len(queue[d]), queue[d][i] = m
        PROVE  \E j \in 1 .. Len(queue'[d]) : queue'[d][j] = m
    <3>1. CASE d = c
      <4>1. i \in 1 .. Len(queue'[d]) /\ queue'[d][i] = m
        BY <2>2, <2>4, <2>5, <2>7, <3>1
      <4> QED BY <4>1
    <3>2. CASE d # c
      BY <2>5, <2>7, <3>2
    <3> QED BY <3>1, <3>2
  <2>8. \E i \in 1 .. Len(queue'[c]) : queue'[c][i] = event[s]
    <3>1. Len(q) + 1 \in 1 .. Len(queue'[c])
      BY <2>4, <2>5
    <3> QED BY <2>2, <2>4, <2>5, <3>1
  <2>9. slow[s] = NoClient /\ slow[s] # c
    BY <1>1, <2>1, HubAssumption DEF SlowOK
  <2> QED BY <2>1, <2>6, <2>7, <2>8, <2>9, Serves
<1>4. ASSUME NEW c \in Clients, EnqueueFull(s, c)
      PROVE  HInv'
  <2>1. /\ c \in targets[s] /\ pc[s] = "enqueue"
        /\ pc' = [pc EXCEPT ![s] = "check"] /\ slow' = [slow EXCEPT ![s] = c]
        /\ UNCHANGED <<up, registered, conn, closed, writer, queue, targets, event, due>>
    BY <1>4 DEF EnqueueFull, client
  <2> QED BY <1>1, <2>1, ClosesOn DEF SlowOK
<1>5. ASSUME pc[s] # "enqueue"
      PROVE  slow[s] \in targets[s] /\ slow[s] \in Clients /\ slow = [slow EXCEPT ![s] = slow[s]]
  BY <1>1, <1>5 DEF SlowOK, TypeOK
<1>6. CASE CloseCheck(s) /\ slow[s] \notin closed
  <2>1. /\ pc[s] = "check" /\ pc' = [pc EXCEPT ![s] = "close"]
        /\ UNCHANGED <<up, registered, conn, closed, writer, queue, targets, event, slow, due>>
    BY <1>6 DEF CloseCheck, client
  <2> QED BY <1>5, <2>1, ClosesOn
<1>7. CASE CloseCheck(s) /\ slow[s] \in closed
  <2>1. /\ pc[s] = "check" /\ Served(s, slow[s])
        /\ UNCHANGED <<up, registered, conn, closed, writer, queue, due>>
    BY <1>7 DEF CloseCheck, client
  <2>2. TypeOK'
    BY <1>1, <2>1, ServedTyped DEF TypeOK
  <2> QED BY <1>5, <1>7, <2>1, <2>2, Serves
<1>8. CASE CloseOnce(s)
  <2>1. /\ pc[s] = "close" /\ pc' = [pc EXCEPT ![s] = "disconnect"] /\ closed' = closed \union {slow[s]}
        /\ UNCHANGED <<up, registered, conn, writer, queue, targets, event, slow, due>>
    BY <1>8 DEF CloseOnce
  <2> QED BY <1>5, <2>1, ClosesOn
<1>9. CASE Disconnect(s)
  <2>1. /\ pc[s] = "disconnect" /\ Served(s, slow[s])
        /\ conn' = IF Open(slow[s]) THEN [conn EXCEPT ![slow[s]] = "shut"] ELSE conn
        /\ UNCHANGED <<up, registered, closed, writer, queue, due>>
    BY <1>9 DEF Disconnect, Shut
  <2>2. PICK c \in Clients : c = slow[s]
    BY <1>5, <2>1
  <2>3. /\ conn' \in [Clients -> {"none", "open", "quiet", "shut"}] /\ ~Open(c)'
        /\ \A d \in Clients : conn'[d] = conn[d] \/ (conn[d] # "none" /\ conn'[d] = "shut")
    BY <1>1, <2>1, <2>2 DEF TypeOK, Open
  <2>4. TypeOK'
    BY <1>1, <2>1, <2>3, ServedTyped DEF TypeOK
  <2> QED BY <2>1, <2>2, <2>3, <2>4, Serves
<1>10. CASE PumpPanics(s)
  <2>1. /\ s # Bus /\ pc[s] = "close" /\ slow[s] \in closed
        /\ targets' = [targets EXCEPT ![s] = {}] /\ pc' = [pc EXCEPT ![s] = "enqueue"]
        /\ slow' = [slow EXCEPT ![s] = NoClient]
        /\ UNCHANGED <<up, registered, conn, closed, writer, queue, event, due>>
    BY <1>10 DEF PumpPanics, DoubleClose, client
  <2>2. /\ TypeOK' /\ targets'[s] = {} /\ pc'[s] = "enqueue" /\ slow'[s] = NoClient
        /\ \A z \in Senders \ {s} : targets'[z] = targets[z] /\ pc'[z] = pc[z] /\ slow'[z] = slow[z]
    BY <1>1, <2>1 DEF TypeOK
  <2>3. ASSUME NEW z \in Senders
        PROVE  SlowOK(z)'
    <3>1. SlowOK(z)
      BY DEF HInv
    <3> QED BY <2>1, <2>2, <3>1 DEF SlowOK
  <2>4. ASSUME NEW d \in Clients
        PROVE  OverOK(d)' /\ \A m \in due'[d] : Kept(d, m)'
    <3>1. OverOK(d) /\ \A m \in due[d] : Kept(d, m)
      BY HTyped
    <3>2. Ending(d) => Ending(d)'
      BY <2>1, <2>2 DEF Ending, Open
    <3>3. targets'[Bus] = targets[Bus]
      BY <2>1, <2>2, HubAssumption
    <3> QED BY <2>1, <3>1, <3>2, <3>3 DEF OverOK, Kept
  <2> QED BY <2>2, <2>3, <2>4 DEF HInv
<1> QED BY <1>2, <1>3, <1>4, <1>6, <1>7, <1>8, <1>9, <1>10 DEF Enqueue, CloseCheck

(***************************************************************************)
(* The invariant holds in every state.                                     *)
(***************************************************************************)
LEMMA Fresh ==
  ASSUME up \in BOOLEAN, registered = {}, closed = {}, conn = [c \in Clients |-> "none"],
         queue = [c \in Clients |-> <<>>], writer = [c \in Clients |-> "none"],
         targets = [s \in Senders |-> {}], event = [s \in Senders |-> Typing],
         pc = [s \in Senders |-> "enqueue"], slow = [s \in Senders |-> NoClient],
         due = [c \in Clients |-> {}]
  PROVE  HInv
<1>1. TypeOK
  <2>1. queue \in [Clients -> Seq(Events)] /\ \A c \in Clients : Len(queue[c]) <= QueueSize
    BY HubAssumption
  <2> QED BY <2>1 DEF TypeOK, Events
<1>2. \A s \in Senders : SlowOK(s)
  BY DEF SlowOK
<1>3. \A c \in Clients : OverOK(c) /\ due[c] = {}
  BY DEF OverOK
<1> QED BY <1>1, <1>2, <1>3 DEF HInv

LEMMA FreshNext ==
  ASSUME BusPanics
  PROVE  HInv'
<1>1. TypeOK'
  <2>1. queue' \in [Clients -> Seq(Events)] /\ \A c \in Clients : Len(queue'[c]) <= QueueSize
    BY HubAssumption DEF BusPanics
  <2> QED BY <2>1 DEF BusPanics, TypeOK, Events
<1>2. \A s \in Senders : SlowOK(s)'
  BY DEF BusPanics, SlowOK
<1>3. \A c \in Clients : OverOK(c)' /\ due'[c] = {}
  BY DEF BusPanics, OverOK
<1> QED BY <1>1, <1>2, <1>3 DEF HInv

LEMMA HStep ==
  ASSUME HInv, [Next]_vars
  PROVE  HInv'
<1>1. ASSUME NEW c \in Clients,
             \/ Connect(c) \/ PeerLeaves(c) \/ PeerQuiet(c) \/ ReadTimeout(c) \/ ReadEnds(c)
             \/ Pump(c) \/ PingFails(c)
      PROVE  HInv'
  BY <1>1, ConnSteps
<1>2. ASSUME NEW s \in Senders, NEW e \in Events, NEW chosen \in SUBSET registered,
             DeliverStart(s, e, chosen)
      PROVE  HInv'
  BY <1>2, DeliverStarts
<1>3. ASSUME NEW s \in Senders, Enqueue(s)
      PROVE  HInv'
  BY <1>3, EnqueueSteps
<1>4. ASSUME UNCHANGED vars \/ Restart
      PROVE  HInv'
  <2>1. up' \in BOOLEAN
        /\ UNCHANGED <<registered, conn, closed, writer, queue, targets, event, pc, slow, due>>
    BY <1>4 DEF vars, Restart, client, sender, HInv, TypeOK
  <2>2. TypeOK'
    BY <2>1 DEF HInv, TypeOK
  <2>3. \A s \in Senders : SlowOK(s)'
    BY <2>1 DEF HInv, SlowOK
  <2>4. \A c \in Clients : OverOK(c)' /\ \A m \in due'[c] : Kept(c, m)'
    BY <2>1 DEF HInv, OverOK, Kept, Ending, Open
  <2> QED BY <2>2, <2>3, <2>4 DEF HInv
<1> QED BY <1>1, <1>2, <1>3, <1>4, FreshNext DEF Next

LEMMA HAlways == Spec => []HInv
<1>1. Init => HInv
  BY Fresh DEF Init
<1>2. HInv /\ [Next]_vars => HInv'
  BY HStep
<1> QED BY <1>1, <1>2, PTL DEF Spec

(***************************************************************************)
(* The type of the state: a queue never holds more than sendQueueSize.     *)
(***************************************************************************)
THEOREM HubTyped == Spec => []TypeOK
BY HAlways, PTL DEF HInv

(***************************************************************************)
(* Enqueue and closeSlow: a message is missed only by a connection that    *)
(* ends, whichever goroutines deliver to it, close it or use its slot again*)
(***************************************************************************)
THEOREM LostWithTheConnection == Spec => []LostOnlyWithTheConnection
<1>1. HInv => LostOnlyWithTheConnection
  BY DEF HInv, Kept, LostOnlyWithTheConnection
<1> QED BY <1>1, HAlways, PTL
=============================================================================
