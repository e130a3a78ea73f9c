----------------------------- MODULE EventQueue -----------------------------
(***************************************************************************)
(* The queue over Redis Streams (queue/redis/queue.go): one stream per     *)
(* priority, read by one consumer group.  A stream is append-only (XACK    *)
(* does not delete entries), the group keeps the position it has delivered *)
(* up to and the pending entries list of what was delivered and not yet    *)
(* acknowledged.  Nothing in the program claims pending entries again.     *)
(***************************************************************************)
EXTENDS EventState, Infra, Integers, Sequences

CONSTANTS
  Request,      \* the request each event is created from
  MaxMessages   \* bound on the entries of one stream

ASSUME QueueAssumption ==
  /\ Request \in [EventIds -> Requests]
  /\ MaxMessages \in Nat

VARIABLES
  stream,         \* the entries of each stream
  group,          \* whether the consumer group exists
  lastDelivered,  \* position of the group in each stream
  pel             \* <<stream, position>> of delivered, unacknowledged entries

queueVars == <<stream, group, lastDelivered, pel>>

Streams == {"events:high", "events:normal", "events:low"}

StreamOf(e) ==
  CASE Request[e].priority = PriorityHigh   -> "events:high"
    [] Request[e].priority = PriorityNormal -> "events:normal"
    [] OTHER                                -> "events:low"

\* An entry is the marshalled event; the consumer uses its id and its attempt.
Entries == [event : EventIds, attempt : Nat]

Jobs == [event : EventIds, attempt : Nat, queue : Streams, receipt : Nat]

QueueTypeOK ==
  /\ stream \in [Streams -> Seq(Entries)]
  /\ group \in BOOLEAN
  /\ lastDelivered \in [Streams -> Nat]
  /\ pel \subseteq Streams \X Nat

QueueInit ==
  /\ stream = [s \in Streams |-> <<>>]
  /\ group = FALSE
  /\ lastDelivered = [s \in Streams |-> 0]
  /\ pel = {}

-----------------------------------------------------------------------------
\* XGROUP CREATE ... $ MKSTREAM on every stream: a new group starts after the
\* entries already there; an existing one (BUSYGROUP) is left alone.
InitConsumerGroups ==
  /\ group' = TRUE
  /\ lastDelivered' = IF group THEN lastDelivered
                      ELSE [s \in Streams |-> Len(stream[s])]
  /\ UNCHANGED <<stream, pel>>

\* XADD to the stream of the event's priority.
Publish(e, a, res) ==
  \E o \in Outcomes("ok", "live") :
    /\ res = o.res
    /\ o.applied => Len(stream[StreamOf(e)]) < MaxMessages
    /\ stream' = IF o.applied
                 THEN [stream EXCEPT ![StreamOf(e)] =
                         Append(@, [event |-> e, attempt |-> a])]
                 ELSE stream
    /\ UNCHANGED <<group, lastDelivered, pel>>

\* XREADGROUP ... > COUNT 1 finding an entry in stream s.
Deliver(s) ==
  /\ group
  /\ lastDelivered[s] < Len(stream[s])
  /\ lastDelivered' = [lastDelivered EXCEPT ![s] = @ + 1]
  /\ pel' = pel \cup {<<s, lastDelivered[s] + 1>>}
  /\ UNCHANGED <<stream, group>>

\* The job Consume builds from the entry Deliver(s) hands out.
NextJob(s) ==
  LET i == lastDelivered[s] + 1
  IN  [event |-> stream[s][i].event, attempt |-> stream[s][i].attempt,
       queue |-> s, receipt |-> i]

\* XACK: drop the entry from the pending list.
Ack(j, ctx, res) ==
  \E o \in Outcomes("ok", ctx) :
    /\ res = o.res
    /\ pel' = IF o.applied THEN pel \ {<<j.queue, j.receipt>>} ELSE pel
    /\ UNCHANGED <<stream, group, lastDelivered>>

=============================================================================
