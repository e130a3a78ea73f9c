-------------------------------- MODULE Hub --------------------------------
(***************************************************************************)
(* The websocket fan-out of the API process (websocket/hub.go, client.go   *)
(* and ServeWs): the hub's loop, its listener on the Redis channel, and    *)
(* the two pumps of each connection.                                       *)
(*                                                                         *)
(* A message is the number of the broadcast that carries it.  Everything   *)
(* the loop does in one iteration is one action: it holds hub.mu, never    *)
(* blocks and is the only user of the map and the only sender and closer   *)
(* of the clients' channels.  WritePump shares its channel with the loop,  *)
(* so each receive and each len(c.send) is an action.                      *)
(***************************************************************************)
EXTENDS Integers, Sequences

CONSTANTS
  Clients,       \* connections, each served once
  Capacity,      \* capacity of Client.send (256 in the code)
  MaxMessages,   \* bound on the broadcasts
  Cancellable    \* whether the context of Run can be cancelled

ASSUME HubAssumption ==
  /\ Capacity \in Nat \ {0}
  /\ MaxMessages \in Nat
  /\ Cancellable \in BOOLEAN

VARIABLES
  running,       \* the loop of Run has not returned
  ctxDone,       \* its context is cancelled
  listener,      \* the goroutine listenRedis
  count,         \* broadcasts taken by the loop so far
  clients,       \* the map Hub.clients
  send,          \* buffer of each Client.send
  closes,        \* how often each Client.send was closed
  joined,        \* value of count when the client was registered
  conn,          \* each connection, as seen by the server
  reader,        \* ServeWs, then the goroutine ReadPump
  writer,        \* the goroutine WritePump
  batch,         \* messages WritePump still has to receive for its frame
  frame,         \* the frame under construction
  delivered      \* messages of the frames written to the connection

hubVars    == <<running, ctxDone>>
mapVars    == <<clients, closes>>
writerVars == <<writer, batch, frame, delivered>>
vars == <<hubVars, listener, count, mapVars, send, joined, conn, reader, writerVars>>

Init ==
  /\ running = TRUE /\ ctxDone = FALSE
  /\ listener = "reading"
  /\ count = 0
  /\ clients = {}
  /\ send = [c \in Clients |-> <<>>]
  /\ closes = [c \in Clients |-> 0]
  /\ joined = [c \in Clients |-> 0]
  /\ conn = [c \in Clients |-> "open"]
  /\ reader = [c \in Clients |-> "none"]
  /\ writer = [c \in Clients |-> "none"]
  /\ batch = [c \in Clients |-> 0]
  /\ frame = [c \in Clients |-> <<>>]
  /\ delivered = [c \in Clients |-> <<>>]

\* delete(h.clients, c); close(c.send), for each client in S.
Drop(S) ==
  /\ clients' = clients \ S
  /\ closes' = [c \in Clients |-> IF c \in S THEN closes[c] + 1 ELSE closes[c]]

-----------------------------------------------------------------------------
(* The loop of Run.  Its channels are unbuffered: a send and its receive   *)
(* are one step.                                                           *)

\* case client := <-h.register
Register(c) ==
  /\ running /\ reader[c] = "registering"
  /\ clients' = clients \cup {c}
  /\ joined' = [joined EXCEPT ![c] = count]
  /\ reader' = [reader EXCEPT ![c] = "registered"]
  /\ UNCHANGED <<hubVars, listener, count, closes, send, conn, writerVars>>

\* Mutation: the channel is closed without looking the client up.
Unregister_NoLookup(c) ==
  /\ running /\ reader[c] = "leaving"
  /\ Drop({c})
  /\ reader' = [reader EXCEPT ![c] = "done"]
  /\ conn' = [conn EXCEPT ![c] = "closed"]
  /\ UNCHANGED <<hubVars, listener, count, send, joined, writerVars>>

\* case client := <-h.unregister; ReadPump then closes the connection.
Unregister(c) ==
  /\ running /\ reader[c] = "leaving"
  /\ Drop({c} \cap clients)
  /\ reader' = [reader EXCEPT ![c] = "done"]
  /\ conn' = [conn EXCEPT ![c] = "closed"]
  /\ UNCHANGED <<hubVars, listener, count, send, joined, writerVars>>

Full(c) == Len(send[c]) = Capacity

\* Mutation: a client whose buffer is full misses the message and stays.
Broadcast_SkipsSlow ==
  /\ running /\ listener = "holding"
  /\ count' = count + 1
  /\ send' = [c \in Clients |->
                IF c \in clients /\ ~Full(c) THEN Append(send[c], count + 1)
                                             ELSE send[c]]
  /\ listener' = "reading"
  /\ UNCHANGED <<hubVars, mapVars, joined, conn, reader, writerVars>>

\* Mutation: the message is queued for the clients it drops too.
Broadcast_SendsDropped ==
  /\ running /\ listener = "holding"
  /\ count' = count + 1
  /\ Drop({c \in clients : Full(c)})
  /\ send' = [c \in Clients |-> IF c \in clients THEN Append(send[c], count + 1)
                                                 ELSE send[c]]
  /\ listener' = "reading"
  /\ UNCHANGED <<hubVars, joined, conn, reader, writerVars>>

\* case msg := <-h.broadcast
Broadcast ==
  /\ running /\ listener = "holding"
  /\ count' = count + 1
  /\ Drop({c \in clients : Full(c)})
  /\ send' = [c \in Clients |-> IF c \in clients' THEN Append(send[c], count + 1)
                                                  ELSE send[c]]
  /\ listener' = "reading"
  /\ UNCHANGED <<hubVars, joined, conn, reader, writerVars>>

\* Mutation: the clients are forgotten, their channels left open.
Shutdown_LeavesOpen ==
  /\ running /\ ctxDone
  /\ running' = FALSE
  /\ clients' = {}
  /\ UNCHANGED <<ctxDone, listener, count, closes, send, joined, conn, reader, writerVars>>

\* case <-ctx.Done()
Shutdown ==
  /\ running /\ ctxDone
  /\ running' = FALSE
  /\ Drop(clients)
  /\ UNCHANGED <<ctxDone, listener, count, send, joined, conn, reader, writerVars>>

Cancel ==
  /\ Cancellable /\ ~ctxDone
  /\ ctxDone' = TRUE
  /\ UNCHANGED <<running, listener, count, mapVars, send, joined, conn, reader, writerVars>>

-----------------------------------------------------------------------------
(* The goroutine listenRedis.                                              *)

Listen(from, to) ==
  /\ listener = from
  /\ listener' = to
  /\ UNCHANGED <<hubVars, count, mapVars, send, joined, conn, reader, writerVars>>

\* A message of the subscription; what is published while there is none is lost.
Receive == count < MaxMessages /\ Listen("reading", "holding")

\* The subscription's channel is closed, and opened again a second later.
LoseSubscription == Listen("reading", "reconnecting")
Resubscribe      == ~ctxDone /\ Listen("reconnecting", "reading")

StopListening ==
  /\ ctxDone
  /\ Listen("holding", "done") \/ Listen("reconnecting", "done") \/ Listen("reading", "done")

-----------------------------------------------------------------------------
(* ServeWs and ReadPump.                                                   *)

Move(c, from, to) ==
  /\ reader[c] = from
  /\ reader' = [reader EXCEPT ![c] = to]
  /\ UNCHANGED <<hubVars, listener, count, mapVars, send, joined, conn>>

\* ServeWs: the connection is upgraded, and HubRegister called.
Upgrade(c) == Move(c, "none", "registering") /\ UNCHANGED writerVars

\* go client.WritePump(); go client.ReadPump()
StartPumps(c) ==
  /\ Move(c, "registered", "reading")
  /\ writer' = [writer EXCEPT ![c] = "waiting"]
  /\ UNCHANGED <<batch, frame, delivered>>

\* ReadMessage fails: the peer left, sent too much or kept silent, or the
\* connection was closed by WritePump.
ReadError(c) == Move(c, "reading", "leaving") /\ UNCHANGED writerVars

-----------------------------------------------------------------------------
(* WritePump.                                                              *)

Write(c, from, to) ==
  /\ writer[c] = from
  /\ writer' = [writer EXCEPT ![c] = to]
  /\ UNCHANGED <<hubVars, listener, count, mapVars, joined, reader>>

\* One message is received from c.send and written to the frame.
ReceiveOne(c) ==
  /\ send[c] # <<>>
  /\ send' = [send EXCEPT ![c] = Tail(@)]
  /\ frame' = [frame EXCEPT ![c] = Append(@, Head(send[c]))]

\* The first message of a frame; NextWriter succeeds.
OpenFrame(c) ==
  /\ conn[c] = "open"
  /\ Write(c, "waiting", "opened")
  /\ ReceiveOne(c)
  /\ UNCHANGED <<conn, batch, delivered>>

\* Mutation: the capacity is taken for the number of queued messages.
CountQueued_Cap(c) ==
  /\ Write(c, "opened", "batching")
  /\ batch' = [batch EXCEPT ![c] = Capacity]
  /\ UNCHANGED <<send, conn, frame, delivered>>

\* n := len(c.send)
CountQueued(c) ==
  /\ Write(c, "opened", "batching")
  /\ batch' = [batch EXCEPT ![c] = Len(send[c])]
  /\ UNCHANGED <<send, conn, frame, delivered>>

AddQueued(c) ==
  /\ batch[c] > 0
  /\ Write(c, "batching", "batching")
  /\ ReceiveOne(c)
  /\ batch' = [batch EXCEPT ![c] = @ - 1]
  /\ UNCHANGED <<conn, delivered>>

\* w.Close() writes the frame to the connection.
Flush(c) ==
  /\ conn[c] = "open" /\ batch[c] = 0
  /\ Write(c, "batching", "waiting")
  /\ delivered' = [delivered EXCEPT ![c] = @ \o frame[c]]
  /\ frame' = [frame EXCEPT ![c] = <<>>]
  /\ UNCHANGED <<send, conn, batch>>

\* Mutation: the deferred conn.Close is missing.
EndWrite_KeepsConn(c) ==
  /\ frame' = [frame EXCEPT ![c] = <<>>]
  /\ UNCHANGED <<conn, batch, delivered>>

\* WritePump returns, and closes the connection on its way out.
EndWrite(c) ==
  /\ conn' = [conn EXCEPT ![c] = "closed"]
  /\ frame' = [frame EXCEPT ![c] = <<>>]
  /\ UNCHANGED <<batch, delivered>>

\* The channel is closed and drained.
SendClosed(c) ==
  /\ send[c] = <<>> /\ closes[c] > 0
  /\ Write(c, "waiting", "done")
  /\ EndWrite(c)
  /\ UNCHANGED send

\* A write fails: NextWriter after a receive, whose message is lost, ...
OpenError(c) ==
  /\ send[c] # <<>>
  /\ Write(c, "waiting", "done")
  /\ send' = [send EXCEPT ![c] = Tail(@)]
  /\ EndWrite(c)

\* ... w.Close() ...
FlushError(c) ==
  /\ batch[c] = 0
  /\ Write(c, "batching", "done")
  /\ EndWrite(c)
  /\ UNCHANGED send

\* ... or a ping.
PingError(c) ==
  /\ Write(c, "waiting", "done")
  /\ EndWrite(c)
  /\ UNCHANGED send

-----------------------------------------------------------------------------
HubStep(c)  == Register(c) \/ Unregister(c)
ReadStep(c) == Upgrade(c) \/ StartPumps(c) \/ ReadError(c)

WriteStep(c) ==
  \/ OpenFrame(c) \/ CountQueued(c) \/ AddQueued(c) \/ Flush(c)
  \/ SendClosed(c) \/ OpenError(c) \/ FlushError(c)

Next ==
  \/ \E c \in Clients : HubStep(c) \/ ReadStep(c) \/ WriteStep(c) \/ PingError(c)
  \/ Broadcast \/ Shutdown \/ Cancel
  \/ Receive \/ LoseSubscription \/ Resubscribe \/ StopListening

Spec == Init /\ [][Next]_vars

\* Goroutines that can run do.  An iteration of the loop never blocks, so no
\* request waits for ever behind others.  A write ends within writeWait, with
\* or without an error.  A peer need never hang up, but ReadMessage and the
\* periodic ping fail once the connection is closed.
FairSpec ==
  /\ Spec
  /\ WF_vars(Broadcast) /\ WF_vars(Shutdown)
  /\ \A c \in Clients :
       /\ WF_vars(HubStep(c)) /\ WF_vars(StartPumps(c)) /\ WF_vars(WriteStep(c))
       /\ WF_vars(conn[c] = "closed" /\ (ReadError(c) \/ PingError(c)))

-----------------------------------------------------------------------------
\* The values of the variables; buffers are bounded by the capacity of the
\* channels, and a channel is closed at most once.
TypeOK ==
  /\ running \in BOOLEAN /\ ctxDone \in BOOLEAN
  /\ listener \in {"reading", "holding", "reconnecting", "done"}
  /\ count \in 0..MaxMessages
  /\ clients \subseteq Clients
  /\ send \in [Clients -> Seq(1..MaxMessages)]
  /\ \A c \in Clients : Len(send[c]) <= Capacity
  /\ closes \in [Clients -> 0..1]
  /\ joined \in [Clients -> 0..MaxMessages]
  /\ conn \in [Clients -> {"open", "closed"}]
  /\ reader \in [Clients -> {"none", "registering", "registered", "reading", "leaving", "done"}]
  /\ writer \in [Clients -> {"none", "waiting", "opened", "batching", "done"}]
  /\ batch \in [Clients -> 0..Capacity]
  /\ frame \in [Clients -> Seq(1..MaxMessages)]
  /\ delivered \in [Clients -> Seq(1..MaxMessages)]

\* What WritePump has written, is writing and will still find in its channel.
Outgoing(c) ==
  delivered[c] \o frame[c] \o (IF writer[c] = "done" THEN <<>> ELSE send[c])

\* A client sees an uninterrupted run of the hub's broadcasts, in their order,
\* from the one that follows its registration, whatever the batches and
\* whenever it is dropped; and nothing is missing while it is registered and
\* its WritePump alive.
InOrderNoGaps ==
  \A c \in Clients :
    LET out == Outgoing(c) IN
    /\ out = [i \in 1..Len(out) |-> joined[c] + i]
    /\ c \in clients /\ writer[c] # "done" => joined[c] + Len(out) = count

\* The hub implements the feed: the loop, the pumps and their connections, however
\* they race, subscribe a client once, queue every broadcast for each client they
\* do not drop with it, queue nothing for one that is off the map, and write what
\* is queued in whole frames.
Feed == INSTANCE BroadcastFeed WITH
  published  <- count,
  served     <- {c \in Clients : reader[c] \notin {"none", "registering"}},
  subscribed <- clients,
  online     <- {c \in Clients : writer[c] # "done"},
  pending    <- [c \in Clients |->
                   frame[c] \o (IF writer[c] = "done" THEN <<>> ELSE send[c])],
  seen       <- delivered

ImplementsFeed == Feed!Spec

\* The channel of a registered client is open, and no channel is closed twice:
\* the hub, which both drops slow clients and unregisters those that left,
\* never panics on a close or on a send.
ClosedOnce ==
  \A c \in Clients : closes[c] <= (IF c \in clients THEN 0 ELSE 1)

\* The messages that WritePump counted are there: it never blocks inside a
\* batch, nor writes the zero value of a closed channel.
BatchNeverBlocks ==
  \A c \in Clients : writer[c] = "batching" => batch[c] <= Len(send[c])

\* A client whose channel is closed or whose connection is gone, such as a slow
\* one, leaves for good, unless Run ends first: it is off the map and its pumps
\* return.
Left(c) ==
  c \notin clients /\ conn[c] = "closed" /\ reader[c] = "done" /\ writer[c] = "done"

DroppedClientLeaves ==
  \A c \in Clients : closes[c] > 0 \/ conn[c] = "closed" ~> Left(c) \/ ~running

\* The end of Run releases the WritePump of every client.
ShutdownEndsWriters ==
  \A c \in Clients :
    ~running /\ writer[c] # "none" ~> writer[c] = "done"

=============================================================================
