---------------------------- MODULE BroadcastFeed ----------------------------
(***************************************************************************)
(* What the hub promises to each connection, with channels, frames,        *)
(* goroutines and their races left out: a subscriber gets the broadcasts   *)
(* from its subscription on, each once and in their order; a subscriber    *)
(* may be dropped, or its connection break, but a message is never skipped *)
(* for one that stays, and none is queued for one that was dropped.        *)
(***************************************************************************)
EXTENDS Naturals, Sequences

CONSTANT Clients

VARIABLES
  published,    \* number of broadcasts so far
  served,       \* connections that have subscribed once
  subscribed,   \* those the next broadcast is for, or drops
  online,       \* connections that can still be written to
  pending,      \* broadcasts on their way to each connection
  seen          \* broadcasts written to each connection

vars == <<published, served, subscribed, online, pending, seen>>

Init ==
  /\ published = 0
  /\ served = {} /\ subscribed = {}
  /\ online = Clients
  /\ pending = [c \in Clients |-> <<>>]
  /\ seen = [c \in Clients |-> <<>>]

\* A connection subscribes once.
Subscribe(c) ==
  /\ c \notin served
  /\ served' = served \cup {c}
  /\ subscribed' = subscribed \cup {c}
  /\ UNCHANGED <<published, online, pending, seen>>

\* Subscribers are dropped: they left, or the hub ends.
Drop ==
  /\ subscribed' \subseteq subscribed
  /\ UNCHANGED <<published, served, online, pending, seen>>

\* A broadcast is for every subscriber that it does not drop.
Publish ==
  /\ published' = published + 1
  /\ subscribed' \subseteq subscribed
  /\ pending' = [c \in Clients |-> IF c \in subscribed' \cap online
                                     THEN Append(pending[c], published')
                                     ELSE pending[c]]
  /\ UNCHANGED <<served, online, seen>>

\* The first n pending messages are written, in one frame.
Deliver(c) ==
  /\ c \in online
  /\ \E n \in 1..Len(pending[c]) :
       /\ seen' = [seen EXCEPT ![c] = @ \o SubSeq(pending[c], 1, n)]
       /\ pending' = [pending EXCEPT ![c] = SubSeq(@, n + 1, Len(@))]
  /\ UNCHANGED <<published, served, subscribed, online>>

\* The connection ends, and what was pending is lost.
Disconnect(c) ==
  /\ online' = online \ {c}
  /\ pending' = [pending EXCEPT ![c] = <<>>]
  /\ UNCHANGED <<published, served, subscribed, seen>>

Next ==
  \/ \E c \in Clients : Subscribe(c) \/ Deliver(c) \/ Disconnect(c)
  \/ Drop \/ Publish

Spec == Init /\ [][Next]_vars

=============================================================================
