------------------------------ MODULE Presence ------------------------------
(***************************************************************************)
(* What the dashboard shows of the worker processes: the pool of workers   *)
(* of one of them, the notices its workers publish when they start and     *)
(* stop, the notices of the other processes, and the page that receives    *)
(* them all.  Every process calls its workers worker-1, worker-2, ...      *)
(* (pool.go), so a name on the page may be a worker of any of them.        *)
(* A notice is published by a goroutine of its own (worker/broadcaster.go),*)
(* which the process does not wait for.  Redis and the hub hand a          *)
(* published notice on or lose it: the subscription or the connection may  *)
(* be down, the client may be slow (module Hub).                           *)
(***************************************************************************)
EXTENDS WorkerPool

CONSTANTS
  Sockets,   \* WebSocket objects of the page
  This,      \* the worker process whose pool is modelled
  Peers,     \* other worker processes: replicas, or this one before a restart
  PeerCount  \* number of workers of each of them, as far as This has that many

ASSUME SocketsAssumption == NULL \notin Sockets

ASSUME PeersAssumption == This \notin Peers /\ PeerCount \in 0..Count

VARIABLES
  up,        \* the worker process runs
  peer,      \* the workers of each other process, by their names
  notices,   \* the goroutines that publish a notice
  mounted, wsRef, ready, handled, timers, connected, activeWorkers

dashVars == <<mounted, wsRef, ready, handled, timers, connected, activeWorkers>>
presenceVars == <<vars, up, peer, notices, dashVars>>

Dash == INSTANCE Dashboard WITH Names <- 1..Count

\* A goroutine of process p; what it publishes is the type and the name only.
Notice(p, type, i) == [from |-> p, type |-> type, worker |-> i]
Notices ==
  [from : Peers \cup {This}, type : {"WORKER_ONLINE", "WORKER_OFFLINE"}, worker : 1..Count]

\* The values of the variables.
PresenceTypeOK ==
  /\ TypeOK
  /\ Dash!DashTypeOK
  /\ up \in BOOLEAN
  /\ peer \in [Peers -> [1..PeerCount -> {"new", "running", "STOPPED", "gone"}]]
  /\ notices \in SUBSET Notices

PresenceInit ==
  /\ Init
  /\ up = TRUE
  /\ peer = [q \in Peers |-> [i \in 1..PeerCount |-> "new"]]
  /\ notices = {}
  /\ Dash!DashInit

-----------------------------------------------------------------------------
\* Worker.Start announces the worker; Broadcast only launches the goroutine.
StartTurn(c) ==
  \/ StartWorker(c) /\ notices' = notices \cup {Notice(This, "WORKER_ONLINE", next)}
  \/ EndStart(c) /\ UNCHANGED notices

\* Mutation: the worker takes its leave before it waits for its goroutines.
StopTurn_Early(i) ==
  \/ StopWorker(i) /\ notices' = notices \cup {Notice(This, "WORKER_OFFLINE", i)}
  \/ WorkerStopped(i) /\ UNCHANGED notices

\* Worker.Stop announces it after it is STOPPED.
StopTurn(i) ==
  \/ StopWorker(i) /\ UNCHANGED notices
  \/ WorkerStopped(i) /\ notices' = notices \cup {Notice(This, "WORKER_OFFLINE", i)}

\* A call of Start or Stop that returns at once, begins or ends.
CallTurn ==
  /\ \/ \E c \in Starters : RefuseStart(c) \/ BeginStart(c)
     \/ \E c \in Stoppers : RefuseStop(c) \/ BeginStop(c) \/ EndStop(c)
  /\ UNCHANGED notices

PoolStep ==
  /\ up
  /\ \/ CallTurn
     \/ \E c \in Starters : StartTurn(c)
     \/ \E i \in 1..Count : StopTurn(i)
  /\ UNCHANGED <<up, peer, dashVars>>

\* A goroutine publishes its notice: the page receives it, or it is lost.
Publish(n) ==
  /\ n \in notices
  /\ notices' = notices \ {n}
  /\ Dash!Receive(n.type, n.worker) \/ UNCHANGED dashVars
  /\ UNCHANGED <<vars, up, peer>>

\* main returns after Pool.Stop, or the process crashes: goroutines that have
\* not published are gone with it.
ProcessEnds ==
  /\ up
  /\ up' = FALSE
  /\ notices' = {n \in notices : n.from # This}
  /\ UNCHANGED <<vars, peer, dashVars>>

\* Another process, of which the page sees no more than this: it starts a
\* worker of each name once, stops it when it runs, and ends.
PeerStarts(q, i) ==
  /\ peer[q][i] = "new"
  /\ peer' = [peer EXCEPT ![q][i] = "running"]
  /\ notices' = notices \cup {Notice(q, "WORKER_ONLINE", i)}

PeerStops(q, i) ==
  /\ peer[q][i] = "running"
  /\ peer' = [peer EXCEPT ![q][i] = "STOPPED"]
  /\ notices' = notices \cup {Notice(q, "WORKER_OFFLINE", i)}

PeerEnds(q) ==
  /\ peer' = [peer EXCEPT ![q] =
                [i \in 1..PeerCount |-> IF peer[q][i] = "STOPPED" THEN "STOPPED" ELSE "gone"]]
  /\ notices' = {n \in notices : n.from # q}

PeerStep ==
  /\ \E q \in Peers :
       \/ \E i \in 1..PeerCount : PeerStarts(q, i) \/ PeerStops(q, i)
       \/ PeerEnds(q)
  /\ UNCHANGED <<vars, up, dashVars>>

PageStep == Dash!ConnectionStep /\ UNCHANGED <<vars, up, peer, notices>>

PresenceNext ==
  \/ PoolStep
  \/ \E n \in notices : Publish(n)
  \/ ProcessEnds
  \/ PeerStep
  \/ PageStep

PresenceSpec == PresenceInit /\ [][PresenceNext]_presenceVars

-----------------------------------------------------------------------------
(* Fairness.  The goroutines of a process that runs go on, and so do those *)
(* that publish; the browser runs its tasks and the server is there to     *)
(* accept connections.  Nothing is promised about calls of Start and Stop, *)
(* crashes or lost connections.                                            *)

PoolTurn == UNCHANGED <<up, peer, dashVars>> /\ up

PoolFairness ==
  /\ \A c \in Starters : WF_presenceVars(PoolTurn /\ StartTurn(c))
  /\ \A c \in Stoppers : WF_presenceVars(PoolTurn /\ EndStop(c) /\ UNCHANGED notices)
  /\ WF_presenceVars(PoolTurn /\ \E i \in 1..Count : StopTurn(i))

PageTask ==
  \/ Dash!Reconnect
  \/ \E s \in Sockets : Dash!Opens(s) \/ Dash!Closes(s)

PageFairness ==
  /\ WF_presenceVars(\E n \in notices : Publish(n))
  /\ WF_presenceVars(PageTask /\ UNCHANGED <<vars, up, peer, notices>>)

FairPresence == PresenceSpec /\ PoolFairness
FairPage     == PresenceSpec /\ PoolFairness /\ PageFairness

-----------------------------------------------------------------------------
OneConnection == Dash!OneConnection
NeverStranded == Dash!NeverStranded

\* Some process has stopped its worker of this name.
HasStopped(i) == stopper[i] = "done" \/ \E q \in Peers : i \in 1..PeerCount /\ peer[q][i] = "STOPPED"

\* A name disappears from the page only when a worker of that name, in this
\* process or another, is done: not while the only ones that were told to stop
\* still finish their jobs, and whatever the order the notices arrive in.
ShownUntilStopped ==
  [][\A i \in activeWorkers \ activeWorkers' : HasStopped(i)]_presenceVars

\* The Stop that stops the pool returns, if the process lives.
StopReturns ==
  \A c \in Stoppers : caller[c] = "waiting" ~> (caller[c] = "returned" \/ ~up)

\* FAILURE_HANDLING.md: the worker that died becomes OFFLINE, on a page that
\* stays open.
DeadShownOffline ==
  \A i \in 1..Count : ~up ~> (i \notin activeWorkers \/ mounted = "unmounted")

=============================================================================
