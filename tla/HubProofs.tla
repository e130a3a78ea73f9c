------------------------------ MODULE HubProofs ------------------------------
(***************************************************************************)
(* Proofs about the hub, for every set of clients, capacity of their       *)
(* channels and number of broadcasts: no channel is closed twice, a client *)
(* sees an uninterrupted run of the broadcasts, and the hub with its pumps *)
(* implements the feed of module BroadcastFeed.                            *)
(***************************************************************************)
EXTENDS Hub, SequenceTheorems, TLAPS

Messages == 1..MaxMessages

\* Before it is registered nobody knows the client, and its pumps start later.
Fresh ==
  \A c \in Clients :
    /\ reader[c] \in {"none", "registering"} =>
         /\ c \notin clients /\ closes[c] = 0
         /\ send[c] = <<>> /\ frame[c] = <<>> /\ delivered[c] = <<>>
    /\ reader[c] \in {"none", "registering", "registered"} => writer[c] = "none"

\* The bound on the broadcasts.
Held == listener = "holding" => count < MaxMessages

BaseInv == TypeOK /\ ClosedOnce /\ Fresh /\ Held

\* The steps of the goroutines, grouped by what they touch.
ListenStep == Receive \/ LoseSubscription \/ Resubscribe \/ StopListening

-----------------------------------------------------------------------------
(* Closing the channels.                                                   *)

\* Dropping clients closes their channels, which were open.
LEMMA DropCloses ==
  ASSUME closes \in [Clients -> 0..1], ClosedOnce, clients \subseteq Clients,
         NEW S \in SUBSET clients, Drop(S)
  PROVE  ClosedOnce' /\ closes' \in [Clients -> 0..1]
<1>1. ASSUME NEW c \in Clients
      PROVE  /\ closes'[c] \in 0..1
             /\ closes'[c] <= (IF c \in clients' THEN 0 ELSE 1)
  <2>1. closes[c] \in 0..1 /\ closes[c] <= (IF c \in clients THEN 0 ELSE 1)
    BY DEF ClosedOnce
  <2>2. /\ clients' = clients \ S
        /\ closes'[c] = IF c \in S THEN closes[c] + 1 ELSE closes[c]
    BY DEF Drop
  <2>3. CASE c \in S
    BY <2>1, <2>2, <2>3
  <2>4. CASE c \notin S
    BY <2>1, <2>2, <2>4
  <2> QED BY <2>3, <2>4
<1> QED BY <1>1 DEF ClosedOnce, Drop

\* Only the loop closes a channel, and takes its client off the map with it.
LEMMA CloseStep == ASSUME BaseInv, [Next]_vars PROVE ClosedOnce'
<1> USE DEF BaseInv, TypeOK, ClosedOnce
<1>1. CASE UNCHANGED <<clients, closes>>
  BY <1>1
<1>2. ASSUME NEW c \in Clients, Register(c) PROVE ClosedOnce'
  BY <1>2 DEF Register, Fresh
<1>3. ASSUME NEW S \in SUBSET clients, Drop(S) PROVE ClosedOnce'
  BY <1>3, DropCloses
<1>4. ASSUME NEW c \in Clients, Unregister(c) PROVE ClosedOnce'
  BY <1>3, <1>4 DEF Unregister
<1>5. CASE Broadcast
  BY <1>3, <1>5 DEF Broadcast
<1>6. CASE Shutdown
  BY <1>3, <1>6 DEF Shutdown
<1> QED
  BY <1>1, <1>2, <1>4, <1>5, <1>6
     DEF Next, vars, mapVars, HubStep, ReadStep, WriteStep, Upgrade, StartPumps, ReadError,
         Move, OpenFrame, CountQueued, AddQueued, Flush, SendClosed, OpenError, FlushError,
         PingError, Write, Cancel, Receive, LoseSubscription, Resubscribe, StopListening,
         Listen

\* Nothing reaches a client before it is registered.
LEMMA FreshStep == ASSUME BaseInv, [Next]_vars PROVE Fresh'
<1> USE DEF BaseInv, TypeOK, Fresh
<1>1. CASE UNCHANGED vars
  BY <1>1 DEF vars, mapVars, writerVars
<1>2. ASSUME NEW c \in Clients, Register(c) PROVE Fresh'
  BY <1>2 DEF Register, writerVars
<1>3. ASSUME NEW c \in Clients, Unregister(c) PROVE Fresh'
  BY <1>3 DEF Unregister, Drop, writerVars
<1>4. CASE Broadcast
  BY <1>4 DEF Broadcast, Drop, writerVars
<1>5. CASE Shutdown \/ Cancel
  BY <1>5 DEF Shutdown, Cancel, Drop, mapVars, writerVars
<1>6. CASE ListenStep
  BY <1>6 DEF ListenStep, Receive, LoseSubscription, Resubscribe, StopListening, Listen,
              mapVars, writerVars
<1>7. ASSUME NEW c \in Clients, ReadStep(c) PROVE Fresh'
  BY <1>7 DEF ReadStep, Upgrade, StartPumps, ReadError, Move, mapVars, writerVars
<1>8. ASSUME NEW c \in Clients, WriteStep(c) \/ PingError(c) PROVE Fresh'
  <2>1. /\ writer[c] # "none" /\ UNCHANGED <<clients, closes, reader>>
        /\ \A d \in Clients \ {c} :
             /\ writer'[d] = writer[d] /\ send'[d] = send[d]
             /\ frame'[d] = frame[d] /\ delivered'[d] = delivered[d]
    BY <1>8 DEF WriteStep, OpenFrame, CountQueued, AddQueued, Flush, SendClosed, OpenError,
                FlushError, PingError, Write, EndWrite, ReceiveOne, mapVars
  <2> QED BY <2>1
<1> QED
  BY <1>1, <1>2, <1>3, <1>4, <1>5, <1>6, <1>7, <1>8 DEF Next, HubStep, ListenStep

\* The listener waits with a message only while one more broadcast is to come.
LEMMA HeldStep == ASSUME BaseInv, [Next]_vars PROVE Held'
<1> USE DEF BaseInv, Held
<1>1. CASE Receive
  BY <1>1 DEF Receive, Listen
<1>2. CASE Broadcast \/ LoseSubscription \/ Resubscribe \/ StopListening
  BY <1>2 DEF Broadcast, LoseSubscription, Resubscribe, StopListening, Listen
<1>3. CASE UNCHANGED <<listener, count>>
  BY <1>3
<1> QED
  BY <1>1, <1>2, <1>3
     DEF Next, vars, HubStep, ReadStep, WriteStep, Register, Unregister, Upgrade, StartPumps,
         ReadError, Move, OpenFrame, CountQueued, AddQueued, Flush, SendClosed, OpenError,
         FlushError, PingError, Write, Cancel, Shutdown

-----------------------------------------------------------------------------
(* Types.                                                                  *)

\* ReceiveOne moves a message from the channel to the frame.
LEMMA ReceiveTypes ==
  ASSUME TypeOK, NEW c \in Clients, ReceiveOne(c)
  PROVE  /\ send' \in [Clients -> Seq(Messages)]
         /\ frame' \in [Clients -> Seq(Messages)]
         /\ \A d \in Clients : Len(send'[d]) <= Capacity
<1>1. send[c] \in Seq(Messages) /\ frame[c] \in Seq(Messages) /\ send[c] # <<>>
  BY DEF TypeOK, ReceiveOne, Messages
<1>2. /\ Head(send[c]) \in Messages /\ Tail(send[c]) \in Seq(Messages)
      /\ Len(Tail(send[c])) = Len(send[c]) - 1
  BY <1>1, HeadTailProperties
<1>3. Append(frame[c], Head(send[c])) \in Seq(Messages)
  BY <1>1, <1>2
<1>4. /\ send' = [send EXCEPT ![c] = Tail(send[c])]
      /\ frame' = [frame EXCEPT ![c] = Append(frame[c], Head(send[c]))]
  BY DEF ReceiveOne
<1>5. /\ send \in [Clients -> Seq(Messages)] /\ frame \in [Clients -> Seq(Messages)]
      /\ \A d \in Clients : Len(send[d]) <= Capacity
  BY DEF TypeOK, Messages
<1>6. Len(send[c]) \in Nat /\ Capacity \in Nat
  BY <1>1, HubAssumption
<1> QED BY <1>2, <1>3, <1>4, <1>5, <1>6

\* What the loop and the listener do to their variables.
LEMMA LoopTypes ==
  ASSUME BaseInv,
         \/ Broadcast \/ Shutdown \/ Cancel \/ ListenStep
         \/ \E c \in Clients : HubStep(c)
  PROVE  TypeOK'
<1> USE HubAssumption DEF BaseInv
<1>1. ASSUME NEW c \in Clients, Register(c) PROVE TypeOK'
  BY <1>1 DEF TypeOK, Register, hubVars, writerVars
<1>2. ASSUME NEW c \in Clients, Unregister(c) PROVE TypeOK'
  <2>1. clients' \subseteq Clients /\ closes' \in [Clients -> 0..1]
    <3>1. Drop({c} \cap clients)
      BY <1>2 DEF Unregister
    <3>2. clients \subseteq Clients /\ closes \in [Clients -> 0..1]
      BY DEF TypeOK
    <3>3. {c} \cap clients \in SUBSET clients
      OBVIOUS
    <3> QED BY <3>1, <3>2, <3>3, DropCloses DEF Drop
  <2> QED BY <1>2, <2>1 DEF TypeOK, Unregister, hubVars, writerVars
<1>3. CASE Broadcast
  <2>1. clients' \subseteq Clients /\ closes' \in [Clients -> 0..1]
    <3>1. Drop({c \in clients : Full(c)})
      BY <1>3 DEF Broadcast
    <3>2. {c \in clients : Full(c)} \in SUBSET clients
      OBVIOUS
    <3>3. clients \subseteq Clients /\ closes \in [Clients -> 0..1]
      BY DEF TypeOK
    <3> QED BY <3>1, <3>2, <3>3, DropCloses DEF Drop
  <2>2. count + 1 \in Messages /\ count' = count + 1
    BY <1>3 DEF Broadcast, Held, TypeOK, Messages
  <2>3. ASSUME NEW c \in Clients
        PROVE  send'[c] \in Seq(Messages) /\ Len(send'[c]) <= Capacity
    <3>1. send[c] \in Seq(Messages) /\ Len(send[c]) \in Nat /\ Len(send[c]) <= Capacity
      BY DEF TypeOK, Messages
    <3>2. CASE c \in clients'
      <4>1. Len(send[c]) # Capacity
        BY <1>3, <3>2 DEF Broadcast, Drop, Full
      <4>2. send'[c] = Append(send[c], count + 1)
        BY <1>3, <3>2 DEF Broadcast
      <4> QED BY <2>2, <3>1, <4>1, <4>2
    <3>3. CASE c \notin clients'
      BY <1>3, <3>1, <3>3 DEF Broadcast
    <3> QED BY <3>2, <3>3
  <2>4. send' \in [Clients -> Seq(Messages)]
    BY <1>3, <2>3 DEF Broadcast
  <2> QED
    BY <1>3, <2>1, <2>2, <2>3, <2>4 DEF TypeOK, Broadcast, hubVars, writerVars, Messages
<1>4. CASE Shutdown
  <2>1. clients' \subseteq Clients /\ closes' \in [Clients -> 0..1]
    <3>1. Drop(clients)
      BY <1>4 DEF Shutdown
    <3>2. clients \subseteq Clients /\ closes \in [Clients -> 0..1]
      BY DEF TypeOK
    <3> QED BY <3>1, <3>2, DropCloses DEF Drop
  <2> QED BY <1>4, <2>1 DEF TypeOK, Shutdown, writerVars
<1>5. CASE Cancel \/ ListenStep
  BY <1>5 DEF TypeOK, Cancel, ListenStep, Receive, LoseSubscription, Resubscribe,
              StopListening, Listen, hubVars, mapVars, writerVars
<1> QED BY <1>1, <1>2, <1>3, <1>4, <1>5 DEF HubStep

\* What the pumps of a client do to theirs.
LEMMA PumpTypes ==
  ASSUME BaseInv, NEW c \in Clients, ReadStep(c) \/ WriteStep(c) \/ PingError(c)
  PROVE  TypeOK'
<1> USE DEF BaseInv
<1>1. CASE ReadStep(c)
  BY <1>1 DEF TypeOK, ReadStep, Upgrade, StartPumps, ReadError, Move, hubVars, mapVars,
              writerVars
<1>2. CASE OpenFrame(c)
  <2>1. /\ send' \in [Clients -> Seq(Messages)] /\ frame' \in [Clients -> Seq(Messages)]
        /\ \A d \in Clients : Len(send'[d]) <= Capacity
    BY <1>2, ReceiveTypes DEF OpenFrame
  <2> QED BY <1>2, <2>1 DEF TypeOK, OpenFrame, Write, hubVars, mapVars, Messages
<1>3. CASE AddQueued(c)
  <2>1. /\ send' \in [Clients -> Seq(Messages)] /\ frame' \in [Clients -> Seq(Messages)]
        /\ \A d \in Clients : Len(send'[d]) <= Capacity
    BY <1>3, ReceiveTypes DEF AddQueued
  <2>2. batch' \in [Clients -> 0..Capacity]
    BY <1>3, HubAssumption DEF AddQueued, TypeOK
  <2> QED BY <1>3, <2>1, <2>2 DEF TypeOK, AddQueued, Write, hubVars, mapVars, Messages
<1>4. CASE CountQueued(c)
  <2>1. batch' \in [Clients -> 0..Capacity]
    BY <1>4, HubAssumption DEF CountQueued, TypeOK
  <2> QED BY <1>4, <2>1 DEF TypeOK, CountQueued, Write, hubVars, mapVars
<1>5. CASE Flush(c)
  <2>1. delivered[c] \o frame[c] \in Seq(Messages)
    BY DEF TypeOK, Messages
  <2>2. delivered' \in [Clients -> Seq(Messages)] /\ frame' \in [Clients -> Seq(Messages)]
    BY <1>5, <2>1, EmptySeq DEF Flush, TypeOK, Messages
  <2> QED BY <1>5, <2>2 DEF TypeOK, Flush, Write, hubVars, mapVars, Messages
<1>6. CASE SendClosed(c) \/ OpenError(c) \/ FlushError(c) \/ PingError(c)
  <2>1. /\ send' \in [Clients -> Seq(Messages)]
        /\ \A d \in Clients : Len(send'[d]) <= Capacity
    <3>1. CASE UNCHANGED send
      BY <3>1 DEF TypeOK, Messages
    <3>2. CASE OpenError(c)
      <4>1. send[c] \in Seq(Messages) /\ send[c] # <<>>
        BY <3>2 DEF OpenError, TypeOK, Messages
      <4>2. Tail(send[c]) \in Seq(Messages) /\ Len(Tail(send[c])) = Len(send[c]) - 1
        BY <4>1, HeadTailProperties
      <4>3. send' = [send EXCEPT ![c] = Tail(send[c])]
        BY <3>2 DEF OpenError
      <4>4. /\ send \in [Clients -> Seq(Messages)] /\ Len(send[c]) \in Nat
            /\ \A d \in Clients : Len(send[d]) <= Capacity
        BY DEF TypeOK, Messages
      <4> QED BY <4>2, <4>3, <4>4, HubAssumption
    <3> QED BY <1>6, <3>1, <3>2 DEF SendClosed, FlushError, PingError
  <2>2. /\ frame' = [frame EXCEPT ![c] = <<>>] /\ conn' = [conn EXCEPT ![c] = "closed"]
        /\ writer' = [writer EXCEPT ![c] = "done"]
        /\ UNCHANGED <<hubVars, listener, count, mapVars, joined, reader, batch, delivered>>
    BY <1>6 DEF SendClosed, OpenError, FlushError, PingError, Write, EndWrite
  <2>3. frame' \in [Clients -> Seq(Messages)]
    BY <2>2, EmptySeq DEF TypeOK, Messages
  <2> QED BY <2>1, <2>2, <2>3 DEF TypeOK, hubVars, mapVars, Messages
<1> QED BY <1>1, <1>2, <1>3, <1>4, <1>5, <1>6 DEF WriteStep

\* Every step keeps these facts.
LEMMA BaseStep == ASSUME BaseInv, [Next]_vars PROVE BaseInv'
<1>1. CASE UNCHANGED vars
  <2>1. TypeOK'
    BY <1>1 DEF BaseInv, TypeOK, vars, hubVars, mapVars, writerVars
  <2> QED BY <2>1, CloseStep, FreshStep, HeldStep DEF BaseInv
<1>2. CASE Next
  <2>1. TypeOK'
    BY <1>2, LoopTypes, PumpTypes DEF Next, ListenStep
  <2> QED BY <2>1, CloseStep, FreshStep, HeldStep DEF BaseInv
<1> QED BY <1>1, <1>2

\* They hold of an empty hub.
LEMMA BaseStart == ASSUME Init PROVE BaseInv
<1>1. running \in BOOLEAN /\ ctxDone \in BOOLEAN
  BY Zenon DEF Init
<1>2. TypeOK
  BY <1>1, HubAssumption, EmptySeq DEF Init, TypeOK
<1>3. ClosedOnce /\ Fresh /\ Held
  BY DEF Init, ClosedOnce, Fresh, Held
<1> QED BY <1>2, <1>3 DEF BaseInv

\* They hold in every reachable state.
LEMMA Base == Spec => []BaseInv
BY BaseStart, BaseStep, PTL DEF Spec

-----------------------------------------------------------------------------
(* The order of the messages.                                              *)

RunFrom(q, n) == \A i \in 1..Len(q) : q[i] = n + i

\* Written, framed and queued messages follow each other without a gap.
Ordered(c) ==
  /\ RunFrom(delivered[c], joined[c])
  /\ RunFrom(frame[c], joined[c] + Len(delivered[c]))
  /\ writer[c] = "done" => frame[c] = <<>>
  /\ writer[c] # "done" =>
       /\ RunFrom(send[c], joined[c] + Len(delivered[c]) + Len(frame[c]))
       /\ c \in clients => joined[c] + Len(delivered[c]) + Len(frame[c]) + Len(send[c]) = count

\* A run of consecutive messages goes on with the next one.
LEMMA RunAppend ==
  ASSUME NEW q \in Seq(Messages), NEW n \in Nat, NEW x \in Messages,
         RunFrom(q, n), x = n + Len(q) + 1
  PROVE  RunFrom(Append(q, x), n) /\ Len(Append(q, x)) = Len(q) + 1
BY DEF RunFrom

\* Its first message is taken off it.
LEMMA RunHead ==
  ASSUME NEW q \in Seq(Messages), q # <<>>, NEW n \in Nat, RunFrom(q, n)
  PROVE  /\ Head(q) = n + 1 /\ Head(q) \in Messages
         /\ RunFrom(Tail(q), n + 1) /\ Len(Tail(q)) = Len(q) - 1
<1>1. /\ Len(Tail(q)) = Len(q) - 1 /\ Head(q) \in Messages
      /\ \A i \in 1..Len(Tail(q)) : Tail(q)[i] = q[i + 1]
  BY HeadTailProperties
<1>2. Len(q) \in Nat /\ Len(q) > 0
  BY EmptySeq
<1>3. Head(q) = q[1]
  BY <1>2
<1> QED BY <1>1, <1>2, <1>3 DEF RunFrom

\* Two runs, one after the other, are a run.
LEMMA RunConcat ==
  ASSUME NEW q \in Seq(Messages), NEW r \in Seq(Messages), NEW n \in Nat,
         RunFrom(q, n), RunFrom(r, n + Len(q))
  PROVE  RunFrom(q \o r, n) /\ Len(q \o r) = Len(q) + Len(r) /\ q \o r \in Seq(Messages)
<1>1. /\ q \o r \in Seq(Messages) /\ Len(q \o r) = Len(q) + Len(r)
      /\ \A i \in 1..(Len(q) + Len(r)) :
           (q \o r)[i] = IF i <= Len(q) THEN q[i] ELSE r[i - Len(q)]
  BY ConcatProperties
<1>2. Len(q) \in Nat /\ Len(r) \in Nat
  BY LenProperties
<1>3. ASSUME NEW i \in 1..Len(q \o r) PROVE (q \o r)[i] = n + i
  <2>1. CASE i <= Len(q)
    BY <1>1, <1>2, <1>3, <2>1 DEF RunFrom
  <2>2. CASE i > Len(q)
    <3>1. i - Len(q) \in 1..Len(r)
      BY <1>1, <1>2, <1>3, <2>2
    <3>2. r[i - Len(q)] = n + Len(q) + (i - Len(q))
      BY <3>1 DEF RunFrom
    <3> QED BY <1>1, <1>2, <1>3, <2>2, <3>1, <3>2
  <2> QED BY <1>2, <1>3, <2>1, <2>2
<1> QED BY <1>1, <1>3 DEF RunFrom

\* The types of one client.
LEMMA ClientTypes ==
  ASSUME TypeOK, NEW c \in Clients
  PROVE  /\ send[c] \in Seq(Messages) /\ frame[c] \in Seq(Messages)
         /\ delivered[c] \in Seq(Messages) /\ joined[c] \in Nat /\ count \in Nat
         /\ Len(send[c]) \in Nat /\ Len(frame[c]) \in Nat /\ Len(delivered[c]) \in Nat
BY HubAssumption DEF TypeOK, Messages

\* A step that leaves the messages of a client alone.
LEMMA OrderKept ==
  ASSUME NEW c \in Clients, Ordered(c),
         delivered'[c] = delivered[c], frame'[c] = frame[c], send'[c] = send[c],
         joined'[c] = joined[c], count' = count, c \in clients' => c \in clients,
         writer'[c] = "done" <=> writer[c] = "done"
  PROVE  Ordered(c)'
BY DEF Ordered, RunFrom

\* A client joins after the broadcasts there were.
LEMMA OrderRegister ==
  ASSUME BaseInv, NEW d \in Clients, Ordered(d), NEW c \in Clients, Register(c)
  PROVE  Ordered(d)'
<1>1. UNCHANGED <<count, send, writer, frame, delivered>>
  BY DEF Register, writerVars
<1>2. CASE d = c
  <2>1. /\ send[d] = <<>> /\ frame[d] = <<>> /\ delivered[d] = <<>> /\ writer[d] = "none"
        /\ joined'[d] = count
    BY <1>2 DEF Register, BaseInv, Fresh, TypeOK
  <2>2. count \in Nat
    BY ClientTypes DEF BaseInv
  <2> QED BY <1>1, <2>1, <2>2 DEF Ordered, RunFrom
<1>3. CASE d # c
  <2>1. joined'[d] = joined[d] /\ (d \in clients' => d \in clients)
    BY <1>3 DEF Register, BaseInv, TypeOK
  <2> QED BY <1>1, <2>1, OrderKept
<1> QED BY <1>2, <1>3

\* A broadcast reaches the buffer, or the client leaves the map.
LEMMA OrderBroadcast ==
  ASSUME BaseInv, NEW c \in Clients, Ordered(c), Broadcast PROVE Ordered(c)'
<1>1. /\ UNCHANGED <<joined, writer, frame, delivered>> /\ count' = count + 1
      /\ c \in clients' => c \in clients
  BY DEF Broadcast, Drop, writerVars
<1>2. CASE c \in clients'
  <2>1. send'[c] = Append(send[c], count + 1)
    BY <1>2 DEF Broadcast
  <2>2. count + 1 \in Messages
    <3>1. count < MaxMessages
      BY DEF Broadcast, BaseInv, Held
    <3>2. count \in 0..MaxMessages
      BY DEF BaseInv, TypeOK
    <3> QED BY <3>1, <3>2, HubAssumption DEF Messages
  <2>3. CASE writer[c] = "done"
    BY <1>1, <2>3 DEF Ordered, RunFrom
  <2>4. CASE writer[c] # "done"
    <3> DEFINE n == joined[c] + Len(delivered[c]) + Len(frame[c])
    <3>1. n \in Nat /\ send[c] \in Seq(Messages) /\ Len(send[c]) \in Nat
      BY ClientTypes DEF BaseInv
    <3>2. RunFrom(send[c], n) /\ n + Len(send[c]) = count
      BY <1>1, <1>2, <2>4 DEF Ordered
    <3> HIDE DEF n
    <3>3. RunFrom(Append(send[c], count + 1), n)
          /\ Len(Append(send[c], count + 1)) = Len(send[c]) + 1
      BY <2>2, <3>1, <3>2, RunAppend
    <3>4. RunFrom(send'[c], n) /\ n + Len(send'[c]) = count'
      BY <1>1, <2>1, <3>1, <3>2, <3>3
    <3> QED BY <1>1, <2>4, <3>4 DEF Ordered, RunFrom, n
  <2> QED BY <2>3, <2>4
<1>3. CASE c \notin clients'
  <2>1. send'[c] = send[c]
    BY <1>3 DEF Broadcast
  <2> QED BY <1>1, <1>3, <2>1 DEF Ordered, RunFrom
<1> QED BY <1>2, <1>3

\* WritePump takes a message from its channel.
LEMMA OrderReceive ==
  ASSUME BaseInv, NEW c \in Clients, Ordered(c), ReceiveOne(c), writer[c] # "done",
         writer'[c] # "done", UNCHANGED <<clients, count, joined, delivered>>
  PROVE  Ordered(c)'
<1> DEFINE n == joined[c] + Len(delivered[c])
           m == n + Len(frame[c])
<1>1. /\ send[c] \in Seq(Messages) /\ frame[c] \in Seq(Messages)
      /\ n \in Nat /\ Len(frame[c]) \in Nat /\ Len(send[c]) \in Nat /\ send[c] # <<>>
  BY ClientTypes DEF BaseInv, ReceiveOne
<1>2. /\ RunFrom(frame[c], n) /\ RunFrom(send[c], m)
      /\ c \in clients => m + Len(send[c]) = count
  BY DEF Ordered
<1>3. send'[c] = Tail(send[c]) /\ frame'[c] = Append(frame[c], Head(send[c]))
  BY DEF ReceiveOne, BaseInv, TypeOK
<1> HIDE DEF n
<1>4. m \in Nat
  BY <1>1
<1> HIDE DEF m
<1>5. /\ Head(send[c]) = m + 1 /\ Head(send[c]) \in Messages
      /\ RunFrom(Tail(send[c]), m + 1) /\ Len(Tail(send[c])) = Len(send[c]) - 1
  BY <1>1, <1>2, <1>4, RunHead
<1>6. Head(send[c]) = n + Len(frame[c]) + 1
  BY <1>5 DEF m
<1>7. RunFrom(frame'[c], n) /\ Len(frame'[c]) = Len(frame[c]) + 1
  BY <1>1, <1>2, <1>3, <1>5, <1>6, RunAppend
<1>8. n + Len(frame'[c]) = m + 1
  BY <1>1, <1>7 DEF m
<1>9. RunFrom(send'[c], n + Len(frame'[c]))
  BY <1>3, <1>5, <1>8
<1>10. c \in clients' => n + Len(frame'[c]) + Len(send'[c]) = count'
  <2>1. n + Len(frame'[c]) + Len(send'[c]) = m + Len(send[c])
    <3>1. Len(send'[c]) = Len(send[c]) - 1
      BY <1>3, <1>5
    <3>2. \A a, b \in Nat : (a + 1) + (b - 1) = a + b
      OBVIOUS
    <3>3. (m + 1) + (Len(send[c]) - 1) = m + Len(send[c])
      BY <1>1, <1>4, <3>2
    <3> QED BY <1>8, <3>1, <3>3
  <2> QED BY <1>2, <2>1
<1> QED BY <1>7, <1>9, <1>10 DEF Ordered, n

\* What is written follows what was written before.
LEMMA OrderFlush ==
  ASSUME BaseInv, NEW c \in Clients, Ordered(c), Flush(c) PROVE Ordered(c)'
<1> DEFINE d == delivered[c]
           f == frame[c]
<1>1. /\ delivered'[c] = d \o f /\ frame'[c] = <<>>
      /\ send'[c] = send[c] /\ joined'[c] = joined[c] /\ count' = count /\ clients' = clients
      /\ writer[c] # "done" /\ writer'[c] # "done"
  BY DEF Flush, Write, BaseInv, TypeOK, mapVars
<1>2. /\ f \in Seq(Messages) /\ d \in Seq(Messages) /\ joined[c] \in Nat
      /\ Len(d) \in Nat /\ Len(f) \in Nat /\ Len(send[c]) \in Nat
  BY ClientTypes DEF BaseInv
<1>3. /\ RunFrom(d, joined[c]) /\ RunFrom(f, joined[c] + Len(d))
      /\ RunFrom(send[c], joined[c] + Len(d) + Len(f))
      /\ c \in clients => joined[c] + Len(d) + Len(f) + Len(send[c]) = count
  BY <1>1 DEF Ordered
<1> HIDE DEF d, f
<1>4. RunFrom(d \o f, joined[c]) /\ Len(d \o f) = Len(d) + Len(f)
  BY <1>2, <1>3, RunConcat
<1>5. Len(<<>>) = 0 /\ RunFrom(<<>>, joined[c] + (Len(d) + Len(f)))
  BY DEF RunFrom
<1>6. joined[c] + (Len(d) + Len(f)) + 0 = joined[c] + Len(d) + Len(f)
  BY <1>2
<1> QED BY <1>1, <1>3, <1>4, <1>5, <1>6, Zenon DEF Ordered

\* The pump returns: what it had in hand is lost, nothing after it is written.
LEMMA OrderEnd ==
  ASSUME BaseInv, NEW c \in Clients, Ordered(c), writer' = [writer EXCEPT ![c] = "done"],
         frame' = [frame EXCEPT ![c] = <<>>], UNCHANGED <<joined, delivered>>
  PROVE  Ordered(c)'
<1>1. writer'[c] = "done" /\ frame'[c] = <<>>
  BY DEF BaseInv, TypeOK
<1> QED BY <1>1 DEF Ordered, RunFrom

\* Every step keeps what each client has, is writing and has buffered a run.
LEMMA OrderStep ==
  ASSUME BaseInv, \A c \in Clients : Ordered(c), [Next]_vars, NEW d \in Clients
  PROVE  Ordered(d)'
<1>1. CASE UNCHANGED vars
  BY <1>1, OrderKept DEF vars, mapVars, writerVars
<1>2. ASSUME NEW c \in Clients, HubStep(c) PROVE Ordered(d)'
  <2>1. CASE Register(c)
    BY <2>1, OrderRegister
  <2>2. CASE Unregister(c)
    BY <2>2, OrderKept DEF Unregister, Drop, writerVars
  <2> QED BY <1>2, <2>1, <2>2 DEF HubStep
<1>3. CASE Broadcast
  BY <1>3, OrderBroadcast
<1>4. CASE Shutdown \/ Cancel \/ ListenStep
  BY <1>4, OrderKept
     DEF Shutdown, Cancel, ListenStep, Receive, LoseSubscription, Resubscribe, StopListening,
         Listen, Drop, mapVars, writerVars
<1>5. ASSUME NEW c \in Clients, ReadStep(c) PROVE Ordered(d)'
  <2>1. CASE StartPumps(c)
    <3>1. c = d => writer[c] # "done"
      BY <2>1 DEF StartPumps, Move, BaseInv, Fresh
    <3> QED BY <2>1, <3>1, OrderKept DEF StartPumps, Move, BaseInv, TypeOK, mapVars
  <2>2. CASE Upgrade(c) \/ ReadError(c)
    BY <2>2, OrderKept DEF Upgrade, ReadError, Move, mapVars, writerVars
  <2> QED BY <1>5, <2>1, <2>2 DEF ReadStep
<1>6. ASSUME NEW c \in Clients, WriteStep(c) \/ PingError(c), d # c PROVE Ordered(d)'
  <2>1. /\ UNCHANGED <<clients, count, joined>>
        /\ writer'[d] = writer[d] /\ send'[d] = send[d]
        /\ frame'[d] = frame[d] /\ delivered'[d] = delivered[d]
    BY <1>6
       DEF WriteStep, OpenFrame, CountQueued, AddQueued, Flush, SendClosed, OpenError,
           FlushError, PingError, Write, EndWrite, ReceiveOne, mapVars, BaseInv, TypeOK
  <2> QED BY <2>1, OrderKept
<1>7. CASE WriteStep(d) \/ PingError(d)
  <2>1. CASE OpenFrame(d) \/ AddQueued(d)
    <3>1. /\ ReceiveOne(d) /\ writer[d] # "done" /\ writer'[d] # "done"
          /\ UNCHANGED <<clients, count, joined, delivered>>
      BY <2>1 DEF OpenFrame, AddQueued, Write, mapVars, BaseInv, TypeOK
    <3> QED BY <3>1, OrderReceive
  <2>2. CASE CountQueued(d)
    BY <2>2, OrderKept DEF CountQueued, Write, mapVars, BaseInv, TypeOK
  <2>3. CASE Flush(d)
    BY <2>3, OrderFlush
  <2>4. CASE SendClosed(d) \/ OpenError(d) \/ FlushError(d) \/ PingError(d)
    BY <2>4, OrderEnd
       DEF SendClosed, OpenError, FlushError, PingError, Write, EndWrite
  <2> QED BY <1>7, <2>1, <2>2, <2>3, <2>4 DEF WriteStep
<1> QED BY <1>1, <1>2, <1>3, <1>4, <1>5, <1>6, <1>7 DEF Next, ListenStep

\* What is ordered piece by piece is ordered when put together.
LEMMA OrderWhole ==
  ASSUME BaseInv, \A c \in Clients : Ordered(c) PROVE InOrderNoGaps
<1> SUFFICES ASSUME NEW c \in Clients
    PROVE  /\ Outgoing(c) = [i \in 1..Len(Outgoing(c)) |-> joined[c] + i]
           /\ c \in clients /\ writer[c] # "done" => joined[c] + Len(Outgoing(c)) = count
  BY DEF InOrderNoGaps
<1> DEFINE d == delivered[c]
           f == frame[c]
           q == IF writer[c] = "done" THEN <<>> ELSE send[c]
<1>1. /\ d \in Seq(Messages) /\ f \in Seq(Messages) /\ q \in Seq(Messages)
      /\ joined[c] \in Nat /\ Len(d) \in Nat /\ Len(f) \in Nat /\ Len(q) \in Nat
  BY ClientTypes, EmptySeq DEF BaseInv
<1>2. RunFrom(d, joined[c]) /\ RunFrom(f, joined[c] + Len(d))
  BY DEF Ordered
<1>3. RunFrom(q, joined[c] + Len(d) + Len(f))
  <2>1. CASE writer[c] = "done"
    BY <2>1 DEF RunFrom
  <2>2. CASE writer[c] # "done"
    BY <2>2 DEF Ordered
  <2> QED BY <2>1, <2>2
<1>4. c \in clients /\ writer[c] # "done" =>
        joined[c] + Len(d) + Len(f) + Len(q) = count
  BY DEF Ordered
<1>5. Outgoing(c) = d \o f \o q
  BY DEF Outgoing
<1> DEFINE df  == d \o f
           out == df \o q
<1> HIDE DEF d, f, q
<1>6. RunFrom(df, joined[c]) /\ Len(df) = Len(d) + Len(f) /\ df \in Seq(Messages)
  BY <1>1, <1>2, RunConcat
<1>7. joined[c] + Len(df) = joined[c] + Len(d) + Len(f)
  BY <1>1, <1>6
<1>8. RunFrom(q, joined[c] + Len(df))
  BY <1>3, <1>7
<1> HIDE DEF df
<1>9. RunFrom(out, joined[c]) /\ out \in Seq(Messages) /\ Len(out) = Len(df) + Len(q)
  BY <1>1, <1>6, <1>8, RunConcat
<1> HIDE DEF out
<1>10. joined[c] + Len(out) = joined[c] + Len(d) + Len(f) + Len(q)
  BY <1>1, <1>7, <1>9
<1>11. out \in [1..Len(out) -> Messages]
  BY <1>9, LenProperties
<1>12. \A i \in 1..Len(out) : out[i] = joined[c] + i
  BY <1>9 DEF RunFrom
<1>13. out = [i \in 1..Len(out) |-> joined[c] + i]
  BY <1>11, <1>12
<1>14. Outgoing(c) = out
  BY <1>5 DEF out, df
<1> QED BY <1>4, <1>13, <1>14, <1>10

\* The buffer is no shorter than the batch that was counted.
LEMMA BatchStep ==
  ASSUME BaseInv, BatchNeverBlocks, [Next]_vars, NEW d \in Clients, writer'[d] = "batching"
  PROVE  batch'[d] <= Len(send'[d])
<1> USE DEF BaseInv
<1>1. send[d] \in Seq(Messages) /\ Len(send[d]) \in Nat /\ batch[d] \in Nat
  BY ClientTypes, HubAssumption DEF TypeOK
<1>2. CASE writer[d] = "batching" /\ batch'[d] = batch[d] /\ send'[d] = send[d]
  BY <1>2 DEF BatchNeverBlocks
<1>3. CASE Broadcast
  <2>1. writer[d] = "batching" /\ batch'[d] = batch[d]
    BY <1>3 DEF Broadcast, writerVars
  <2>2. batch[d] <= Len(send[d])
    BY <2>1 DEF BatchNeverBlocks
  <2>3. send'[d] = Append(send[d], count + 1) \/ send'[d] = send[d]
    BY <1>3 DEF Broadcast
  <2>4. Len(Append(send[d], count + 1)) = Len(send[d]) + 1
    BY <1>1
  <2> QED BY <1>1, <2>1, <2>2, <2>3, <2>4
<1>4. CASE CountQueued(d)
  BY <1>1, <1>4 DEF CountQueued, TypeOK
<1>5. CASE AddQueued(d)
  <2>1. /\ batch[d] <= Len(send[d]) /\ send[d] # <<>>
        /\ batch'[d] = batch[d] - 1 /\ send'[d] = Tail(send[d])
    BY <1>5 DEF BatchNeverBlocks, AddQueued, Write, ReceiveOne, TypeOK
  <2>2. Len(Tail(send[d])) = Len(send[d]) - 1
    BY <1>1, <2>1, HeadTailProperties
  <2> QED BY <1>1, <2>1, <2>2
<1>6. ASSUME NEW c \in Clients, c # d, WriteStep(c) \/ PingError(c)
      PROVE  writer'[d] = writer[d] /\ batch'[d] = batch[d] /\ send'[d] = send[d]
  BY <1>6 DEF WriteStep, OpenFrame, CountQueued, AddQueued, Flush, SendClosed, OpenError,
              FlushError, PingError, Write, EndWrite, ReceiveOne, TypeOK
<1>7. CASE OpenFrame(d) \/ Flush(d) \/ SendClosed(d) \/ OpenError(d) \/ FlushError(d)
           \/ PingError(d)
  BY <1>7 DEF OpenFrame, Flush, SendClosed, OpenError, FlushError, PingError, Write, TypeOK
<1>8. ASSUME NEW c \in Clients, StartPumps(c)
      PROVE  writer[d] = "batching" /\ batch'[d] = batch[d] /\ send'[d] = send[d]
  BY <1>8 DEF StartPumps, Move, TypeOK
<1>9. CASE UNCHANGED <<writer, batch, send>>
  BY <1>2, <1>9
<1> QED
  BY <1>2, <1>3, <1>4, <1>5, <1>6, <1>7, <1>8, <1>9
     DEF Next, vars, writerVars, HubStep, ReadStep, WriteStep, Register, Unregister, Upgrade,
         ReadError, Move, Shutdown, Cancel, Receive, LoseSubscription, Resubscribe,
         StopListening, Listen

-----------------------------------------------------------------------------
\* Types, with the buffers within the capacity of their channels.
THEOREM HubTyped == Spec => []TypeOK
BY Base, PTL DEF BaseInv

\* The hub never closes a channel twice, nor sends to a closed one, though it
\* drops slow clients and unregisters those that leave.
THEOREM ChannelsClosedOnce == Spec => []ClosedOnce
BY Base, PTL DEF BaseInv

AllOrdered == \A c \in Clients : Ordered(c)

\* Every client's messages are ordered in every reachable state.
LEMMA Orders == Spec => []AllOrdered
<1>1. Init => AllOrdered
  <2> SUFFICES ASSUME Init, NEW c \in Clients PROVE Ordered(c)
    BY DEF AllOrdered
  <2>1. /\ delivered[c] = <<>> /\ frame[c] = <<>> /\ send[c] = <<>>
        /\ joined[c] = 0 /\ c \notin clients
    BY DEF Init
  <2> QED BY <2>1 DEF Ordered, RunFrom
<1>2. BaseInv /\ AllOrdered /\ [Next]_vars => AllOrdered'
  BY OrderStep DEF AllOrdered
<1> QED BY <1>1, <1>2, Base, PTL DEF Spec

\* A client sees an uninterrupted run of the broadcasts, however they were
\* batched into frames, until it is dropped.
THEOREM ClientsSeeOrder == Spec => []InOrderNoGaps
<1>1. BaseInv /\ AllOrdered => InOrderNoGaps
  BY OrderWhole DEF AllOrdered
<1> QED BY <1>1, Base, Orders, PTL

\* WritePump never waits inside a frame for a message it counted.
THEOREM BatchesNeverBlock == Spec => []BatchNeverBlocks
<1>1. Init => BatchNeverBlocks
  BY DEF Init, BatchNeverBlocks
<1>2. BaseInv /\ BatchNeverBlocks /\ [Next]_vars => BatchNeverBlocks'
  BY BatchStep DEF BatchNeverBlocks
<1> QED BY <1>1, <1>2, Base, PTL DEF Spec

-----------------------------------------------------------------------------
(* The hub implements the feed.                                            *)

\* What is on its way to a client: the frame and what its channel holds.
Buffered(c) == IF writer[c] = "done" THEN <<>> ELSE send[c]
Queued(c)   == frame[c] \o Buffered(c)

LEMMA QueuedType ==
  ASSUME TypeOK, NEW c \in Clients
  PROVE  Buffered(c) \in Seq(Messages) /\ Queued(c) \in Seq(Messages)
BY ClientTypes, EmptySeq DEF Buffered, Queued

\* A sequence that is appended to, moved from or cut, put together again.
LEMMA AppendLast ==
  ASSUME NEW q \in Seq(Messages), NEW r \in Seq(Messages), NEW x \in Messages
  PROVE  q \o Append(r, x) = Append(q \o r, x)
<1>1. /\ Append(r, x) = r \o <<x>> /\ Append(q \o r, x) = (q \o r) \o <<x>>
      /\ <<x>> \in Seq(Messages)
  BY ConcatProperties
<1> QED BY <1>1, ConcatAssociative

LEMMA MoveFirst ==
  ASSUME NEW q \in Seq(Messages), NEW r \in Seq(Messages), r # <<>>
  PROVE  Append(q, Head(r)) \o Tail(r) = q \o r
<1>1. /\ Head(r) \in Messages /\ Tail(r) \in Seq(Messages) /\ Len(Tail(r)) = Len(r) - 1
      /\ \A i \in 1..Len(Tail(r)) : Tail(r)[i] = r[i + 1]
  BY HeadTailProperties
<1>2. <<Head(r)>> \in Seq(Messages) /\ Len(<<Head(r)>>) = 1 /\ Append(q, Head(r)) = q \o <<Head(r)>>
  BY <1>1
<1>3. <<Head(r)>> \o Tail(r) = r
  <2>1. Len(r) \in Nat \ {0} /\ Head(r) = r[1]
    BY EmptySeq
  <2>2. /\ <<Head(r)>> \o Tail(r) \in Seq(Messages) /\ Len(<<Head(r)>> \o Tail(r)) = Len(r)
        /\ \A i \in 1..Len(r) : (<<Head(r)>> \o Tail(r))[i] =
             IF i <= 1 THEN <<Head(r)>>[i] ELSE Tail(r)[i - 1]
    BY <1>1, <1>2, <2>1, ConcatProperties
  <2>3. ASSUME NEW i \in 1..Len(r) PROVE (<<Head(r)>> \o Tail(r))[i] = r[i]
    BY <1>1, <2>1, <2>2, <2>3
  <2> QED BY <2>2, <2>3, SeqEqual
<1> QED BY <1>1, <1>2, <1>3, ConcatAssociative

LEMMA CutFirst ==
  ASSUME NEW q \in Seq(Messages), NEW r \in Seq(Messages)
  PROVE  /\ SubSeq(q \o r, 1, Len(q)) = q
         /\ SubSeq(q \o r, Len(q) + 1, Len(q \o r)) = r
<1>1. /\ q \o r \in Seq(Messages) /\ Len(q \o r) = Len(q) + Len(r)
      /\ Len(q) \in Nat /\ Len(r) \in Nat
      /\ \A i \in 1..(Len(q) + Len(r)) : (q \o r)[i] \in Messages
      /\ \A i \in 1..(Len(q) + Len(r)) :
           (q \o r)[i] = IF i <= Len(q) THEN q[i] ELSE r[i - Len(q)]
  BY ConcatProperties, LenProperties, ElementOfSeq
<1>2. SubSeq(q \o r, 1, Len(q)) = q
  <2> DEFINE t == SubSeq(q \o r, 1, Len(q))
  <2>1. /\ t \in Seq(Messages) /\ Len(t) = Len(q)
        /\ \A i \in 1..Len(q) : t[i] = (q \o r)[i]
    BY <1>1, SubSeqProperties
  <2> QED BY <1>1, <2>1, SeqEqual
<1>3. SubSeq(q \o r, Len(q) + 1, Len(q \o r)) = r
  <2> DEFINE t == SubSeq(q \o r, Len(q) + 1, Len(q) + Len(r))
  <2>1. /\ t \in Seq(Messages) /\ Len(t) = Len(r)
        /\ \A i \in 1..Len(r) : t[i] = (q \o r)[Len(q) + i]
    BY <1>1, SubSeqProperties
  <2>2. \A i \in 1..Len(r) : t[i] = r[i]
    BY <1>1, <2>1
  <2> QED BY <1>1, <2>1, <2>2, SeqEqual
<1> QED BY <1>2, <1>3

\* What the feed sees of a client.
Served(c) == reader[c] \notin {"none", "registering"}
Online(c) == writer[c] # "done"

SameFor(c) ==
  /\ Served(c)' = Served(c) /\ Online(c)' = Online(c)
  /\ Queued(c)' = Queued(c) /\ delivered'[c] = delivered[c]

\* A step the feed does not see.
LEMMA FeedStutters ==
  ASSUME UNCHANGED <<count, clients, delivered>>, \A c \in Clients : SameFor(c)
  PROVE  UNCHANGED Feed!vars
<1>1. [c \in Clients |-> Queued(c)]' = [c \in Clients |-> Queued(c)]
  BY DEF SameFor
<1>2. {c \in Clients : Served(c)}' = {c \in Clients : Served(c)}
  BY DEF SameFor
<1>3. {c \in Clients : Online(c)}' = {c \in Clients : Online(c)}
  BY DEF SameFor
<1> QED BY <1>1, <1>2, <1>3 DEF Feed!vars, Queued, Buffered, Served, Online

\* Registering a client subscribes it.
LEMMA RegisterSubscribes ==
  ASSUME TypeOK, NEW c \in Clients, Register(c) PROVE Feed!Subscribe(c)
<1>1. UNCHANGED <<count, send, writerVars>>
  BY DEF Register
<1>2. ~Served(c) /\ {d \in Clients : Served(d)}' = {d \in Clients : Served(d)} \cup {c}
  BY DEF Register, Served, TypeOK
<1> QED BY <1>1, <1>2 DEF Feed!Subscribe, Register, Served, writerVars

\* Unregistering it, and the end of the loop, drop clients.
LEMMA LeavingDrops ==
  ASSUME TypeOK, Shutdown \/ \E c \in Clients : Unregister(c) PROVE Feed!Drop
<1>1. /\ UNCHANGED <<count, send, writerVars>> /\ clients' \subseteq clients
      /\ \A c \in Clients : Served(c)' = Served(c)
  BY DEF Shutdown, Unregister, Drop, Served, TypeOK
<1>2. {c \in Clients : Served(c)}' = {c \in Clients : Served(c)}
  BY <1>1
<1> QED BY <1>1, <1>2 DEF Feed!Drop, Served, writerVars

\* A broadcast is queued for every client that stays.
LEMMA BroadcastPublishes == ASSUME BaseInv, Broadcast PROVE Feed!Publish
<1>1. /\ count' = count + 1 /\ clients' \subseteq clients
      /\ UNCHANGED <<reader, writer, frame, delivered>>
  BY DEF Broadcast, Drop, writerVars
<1>2. count + 1 \in Messages
  <2>1. count < MaxMessages /\ count \in 0..MaxMessages
    BY DEF Broadcast, BaseInv, Held, TypeOK
  <2> QED BY <2>1, HubAssumption DEF Messages
<1>3. ASSUME NEW c \in Clients
      PROVE  Queued(c)' = IF c \in clients' /\ Online(c) THEN Append(Queued(c), count + 1)
                                                         ELSE Queued(c)
  <2>1. send'[c] = IF c \in clients' THEN Append(send[c], count + 1) ELSE send[c]
    BY DEF Broadcast
  <2>2. send[c] \in Seq(Messages) /\ frame[c] \in Seq(Messages)
    BY ClientTypes DEF BaseInv
  <2>3. frame[c] \o Append(send[c], count + 1) = Append(frame[c] \o send[c], count + 1)
    BY <1>2, <2>2, AppendLast
  <2> QED BY <1>1, <2>1, <2>3 DEF Queued, Buffered, Online
<1>4. [c \in Clients |-> Queued(c)]' =
        [c \in Clients |-> IF c \in clients' \cap {d \in Clients : Online(d)}
                             THEN Append([d \in Clients |-> Queued(d)][c], count')
                             ELSE [d \in Clients |-> Queued(d)][c]]
  BY <1>1, <1>3
<1> QED BY <1>1, <1>4 DEF Feed!Publish, Queued, Buffered, Online

\* Writing a frame delivers it.
LEMMA FlushDelivers ==
  ASSUME TypeOK, NEW c \in Clients, Flush(c)
  PROVE  Feed!Deliver(c) \/ UNCHANGED Feed!vars
<1> DEFINE f == frame[c]
           q == [d \in Clients |-> Queued(d)]
<1>1. /\ UNCHANGED <<count, clients, reader, send>>
      /\ writer[c] # "done" /\ writer' = [writer EXCEPT ![c] = "waiting"]
      /\ delivered' = [delivered EXCEPT ![c] = delivered[c] \o f]
      /\ frame' = [frame EXCEPT ![c] = <<>>]
  BY DEF Flush, Write, mapVars
<1>2. f \in Seq(Messages) /\ send[c] \in Seq(Messages) /\ delivered[c] \in Seq(Messages)
  BY ClientTypes
<1>3. Queued(c) = f \o send[c] /\ Queued(c)' = send[c]
  <2>1. frame'[c] = <<>> /\ writer'[c] # "done" /\ send'[c] = send[c]
    BY <1>1 DEF TypeOK
  <2>2. <<>> \o send[c] = send[c]
    BY <1>2, ConcatEmptySeq
  <2> QED BY <1>1, <2>1, <2>2 DEF Queued, Buffered
<1>4. \A d \in Clients \ {c} : Queued(d)' = Queued(d)
  BY <1>1 DEF Queued, Buffered, TypeOK
<1>5. \A d \in Clients : Served(d)' = Served(d) /\ Online(d)' = Online(d)
  BY <1>1 DEF Served, Online, TypeOK
<1>6. CASE f = <<>>
  <2>1. delivered[c] \o f = delivered[c] /\ f \o send[c] = send[c]
    BY <1>2, <1>6, ConcatEmptySeq
  <2>2. delivered' = delivered
    BY <1>1, <2>1 DEF TypeOK
  <2> QED BY <1>1, <1>3, <1>4, <1>5, <2>1, <2>2, FeedStutters DEF SameFor
<1>7. CASE f # <<>>
  <2>1. Len(f) \in 1..Len(q[c])
    <3>1. Len(f) \in Nat \ {0} /\ Len(send[c]) \in Nat
      BY <1>2, <1>7, EmptySeq, LenProperties
    <3>2. q[c] = f \o send[c]
      BY <1>3
    <3> HIDE DEF q, f
    <3>3. Len(q[c]) = Len(f) + Len(send[c])
      BY <1>2, <3>2, ConcatProperties
    <3> QED BY <3>1, <3>3
  <2>2. SubSeq(q[c], 1, Len(f)) = f /\ SubSeq(q[c], Len(f) + 1, Len(q[c])) = send[c]
    <3>1. q[c] = f \o send[c]
      BY <1>3
    <3> HIDE DEF q, f
    <3> QED BY <1>2, <3>1, CutFirst
  <2>3. [d \in Clients |-> Queued(d)]' =
          [q EXCEPT ![c] = SubSeq(q[c], Len(f) + 1, Len(q[c]))]
    BY <1>3, <1>4, <2>2
  <2>4. delivered' = [delivered EXCEPT ![c] = delivered[c] \o SubSeq(q[c], 1, Len(f))]
    BY <1>1, <2>2
  <2>5. /\ {d \in Clients : Served(d)}' = {d \in Clients : Served(d)}
        /\ {d \in Clients : Online(d)}' = {d \in Clients : Online(d)}
    BY <1>5
  <2>6. c \in {d \in Clients : Online(d)}
    BY <1>1 DEF Online
  <2> QED BY <1>1, <2>1, <2>3, <2>4, <2>5, <2>6
          DEF Feed!Deliver, Queued, Buffered, Served, Online
<1> QED BY <1>6, <1>7

\* When a WritePump returns its client is offline.
LEMMA EndDisconnects ==
  ASSUME TypeOK, NEW c \in Clients, writer' = [writer EXCEPT ![c] = "done"],
         frame' = [frame EXCEPT ![c] = <<>>],
         \A d \in Clients \ {c} : send'[d] = send[d],
         UNCHANGED <<count, clients, reader, delivered>>
  PROVE  Feed!Disconnect(c)
<1> DEFINE q == [d \in Clients |-> Queued(d)]
<1>1. Queued(c)' = <<>>
  <2>1. writer'[c] = "done" /\ frame'[c] = <<>> /\ <<>> \o <<>> = <<>>
    BY DEF TypeOK
  <2> QED BY <2>1 DEF Queued, Buffered
<1>2. \A d \in Clients \ {c} : Queued(d)' = Queued(d)
  BY DEF Queued, Buffered, TypeOK
<1>3. [d \in Clients |-> Queued(d)]' = [q EXCEPT ![c] = <<>>]
  BY <1>1, <1>2
<1>4. {d \in Clients : Online(d)}' = {d \in Clients : Online(d)} \ {c}
  BY DEF Online, TypeOK
<1> QED BY <1>3, <1>4 DEF Feed!Disconnect, Queued, Buffered, Served, Online

\* Every step of the hub and its pumps is a step of the feed or unseen by it.
LEMMA StepFeeds ==
  ASSUME BaseInv, [Next]_vars PROVE [Feed!Next]_Feed!vars
<1> USE DEF BaseInv
<1>1. CASE UNCHANGED <<count, clients, reader, writer, send, frame, delivered>>
  BY <1>1, FeedStutters DEF SameFor, Served, Online, Queued, Buffered
<1>2. ASSUME NEW c \in Clients, HubStep(c) PROVE [Feed!Next]_Feed!vars
  BY <1>2, RegisterSubscribes, LeavingDrops DEF HubStep, Feed!Next
<1>3. CASE Broadcast
  BY <1>3, BroadcastPublishes DEF Feed!Next
<1>4. CASE Shutdown
  BY <1>4, LeavingDrops DEF Feed!Next
<1>5. ASSUME NEW c \in Clients, ReadStep(c) PROVE [Feed!Next]_Feed!vars
  <2>1. UNCHANGED <<count, clients, send, frame, delivered>>
    BY <1>5 DEF ReadStep, Upgrade, StartPumps, ReadError, Move, writerVars, mapVars
  <2>2. \A d \in Clients : Served(d)' = Served(d) /\ Online(d)' = Online(d)
    BY <1>5 DEF ReadStep, Upgrade, StartPumps, ReadError, Move, writerVars, Served, Online,
                TypeOK, Fresh
  <2>3. \A d \in Clients : SameFor(d)
    BY <2>1, <2>2 DEF SameFor, Queued, Buffered, Online
  <2> QED BY <2>1, <2>3, FeedStutters
<1>6. ASSUME NEW c \in Clients, OpenFrame(c) \/ AddQueued(c) PROVE UNCHANGED Feed!vars
  <2>1. /\ UNCHANGED <<count, clients, reader, delivered>>
        /\ writer[c] # "done" /\ writer'[c] # "done" /\ send[c] # <<>>
        /\ send' = [send EXCEPT ![c] = Tail(send[c])]
        /\ frame' = [frame EXCEPT ![c] = Append(frame[c], Head(send[c]))]
        /\ \A d \in Clients \ {c} : writer'[d] = writer[d]
    BY <1>6 DEF OpenFrame, AddQueued, Write, ReceiveOne, mapVars, TypeOK
  <2>2. Append(frame[c], Head(send[c])) \o Tail(send[c]) = frame[c] \o send[c]
    BY <2>1, ClientTypes, MoveFirst
  <2>3. Queued(c)' = Queued(c)
    BY <2>1, <2>2 DEF Queued, Buffered, TypeOK
  <2>4. \A d \in Clients \ {c} : Queued(d)' = Queued(d)
    BY <2>1 DEF Queued, Buffered, TypeOK
  <2>5. \A d \in Clients : SameFor(d)
    BY <2>1, <2>3, <2>4 DEF SameFor, Served, Online
  <2> QED BY <2>1, <2>5, FeedStutters
<1>7. ASSUME NEW c \in Clients, CountQueued(c) PROVE UNCHANGED Feed!vars
  <2>1. /\ UNCHANGED <<count, clients, reader, send, frame, delivered>>
        /\ \A d \in Clients : Online(d)' = Online(d)
    BY <1>7 DEF CountQueued, Write, mapVars, Online, TypeOK
  <2> QED BY <2>1, FeedStutters DEF SameFor, Served, Online, Queued, Buffered
<1>8. ASSUME NEW c \in Clients,
             SendClosed(c) \/ OpenError(c) \/ FlushError(c) \/ PingError(c)
      PROVE  Feed!Disconnect(c)
  BY <1>8, EndDisconnects
     DEF SendClosed, OpenError, FlushError, PingError, Write, EndWrite, mapVars, TypeOK
<1>9. ASSUME NEW c \in Clients, WriteStep(c) \/ PingError(c) PROVE [Feed!Next]_Feed!vars
  BY <1>6, <1>7, <1>8, <1>9, FlushDelivers DEF WriteStep, Feed!Next
<1> QED
  BY <1>1, <1>2, <1>3, <1>4, <1>5, <1>9
     DEF Next, vars, mapVars, writerVars, Cancel, Receive, LoseSubscription, Resubscribe,
         StopListening, Listen

\* An empty hub is an empty feed.
LEMMA InitFeeds == ASSUME Init PROVE Feed!Init
<1>1. ASSUME NEW c \in Clients PROVE ~Served(c) /\ Online(c) /\ Queued(c) = <<>>
  <2>1. <<>> \o <<>> = <<>>
    OBVIOUS
  <2> QED BY <2>1 DEF Init, Served, Online, Queued, Buffered
<1>2. [c \in Clients |-> Queued(c)] = [c \in Clients |-> <<>>]
  BY <1>1
<1>3. {c \in Clients : Served(c)} = {} /\ {c \in Clients : Online(c)} = Clients
  BY <1>1
<1> QED BY <1>2, <1>3 DEF Init, Feed!Init, Queued, Buffered, Served, Online

\* The hub implements the feed: whatever the loop, the pumps, slow readers and
\* broken connections do, each client gets the broadcasts from its registration
\* on in whole frames, none skipped while it stays and none after it was dropped.
THEOREM HubImplementsFeed == Spec => ImplementsFeed
<1>1. BaseInv /\ [Next]_vars => [Feed!Next]_Feed!vars
  BY StepFeeds
<1> QED BY <1>1, InitFeeds, Base, PTL DEF Spec, ImplementsFeed, Feed!Spec

=============================================================================
