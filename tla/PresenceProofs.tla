--------------------------- MODULE PresenceProofs ---------------------------
(***************************************************************************)
(* Proofs about the pool and the page of Presence, for every number of     *)
(* workers, callers and sockets.                                           *)
(***************************************************************************)
EXTENDS Presence, TLAPS

\* A goroutine of Stop is done with a worker that no Start will touch again:
\* Stop begins when Start has started them all, or refuses.
PoolInv ==
  /\ TypeOK
  /\ \A c \in Callers : caller[c] = "starting" => startMu = c
  /\ started /\ startMu = NULL => next = Count + 1
  /\ stopped => next = Count + 1
  /\ ~stopped => \A i \in 1..Count : stopper[i] = "none"
  /\ \A i \in 1..Count : stopper[i] = "done" => worker[i] = "STOPPED"

\* The page has one connection or one timer, and its other sockets are closed
\* or closing without an onclose.
PageInv ==
  /\ Dash!DashTypeOK
  /\ mounted # "mounted" => wsRef = NULL /\ timers = 0
  /\ mounted = "mounted" =>
       \/ wsRef # NULL /\ timers = 0 /\ ready[wsRef] # "CLOSED" /\ wsRef \in handled
       \/ wsRef = NULL /\ timers = 1
  /\ \A s \in Sockets : ready[s] \in {"CONNECTING", "OPEN"} => s = wsRef
  /\ \A s \in Sockets : s # wsRef /\ ready[s] # "CLOSED" => s \notin handled

-----------------------------------------------------------------------------
(* The pool.                                                               *)

\* The pool starts out with its workers stopped.
LEMMA PoolStarts == ASSUME Init PROVE PoolInv
<1>1. started \in BOOLEAN /\ stopped \in BOOLEAN /\ ~started /\ ~stopped
  BY Zenon DEF Init
<1>2. next \in 1..(Count + 1) /\ startMu \in Callers \cup {NULL}
  BY PoolAssumption DEF Init
<1>3. /\ caller \in [Callers -> {"idle", "starting", "waiting", "returned"}]
      /\ worker \in [1..Count -> {"STOPPED", "running", "stopping"}]
      /\ stopper \in [1..Count -> {"none", "called", "waiting", "done"}]
  BY DEF Init
<1>4. /\ \A c \in Callers : caller[c] # "starting"
      /\ \A i \in 1..Count : stopper[i] = "none"
  BY DEF Init
<1>5. TypeOK
  BY <1>1, <1>2, <1>3, Zenon DEF TypeOK
<1>6. \A i \in 1..Count : stopper[i] # "done"
  BY <1>4
<1> QED BY <1>1, <1>4, <1>5, <1>6, Zenon DEF PoolInv

\* A Stop that is let in finds every worker launched.
LEMMA PoolStepKeeps == ASSUME PoolInv, [Next]_vars PROVE PoolInv'
<1> USE PoolAssumption DEF PoolInv, TypeOK, Callers
<1>1. CASE UNCHANGED vars
  BY <1>1 DEF vars
<1>2. ASSUME NEW c \in Callers, RefuseStart(c) \/ RefuseStop(c) \/ EndStop(c)
      PROVE  PoolInv'
  BY <1>2 DEF RefuseStart, RefuseStop, EndStop, Return
<1>3. ASSUME NEW c \in Starters, BeginStart(c) PROVE PoolInv'
  BY <1>3 DEF BeginStart
<1>4. ASSUME NEW c \in Starters, StartWorker(c) PROVE PoolInv'
  BY <1>4 DEF StartWorker
<1>5. ASSUME NEW c \in Starters, EndStart(c) PROVE PoolInv'
  BY <1>5 DEF EndStart, Return
<1>6. ASSUME NEW c \in Stoppers, BeginStop(c) PROVE PoolInv'
  BY <1>6 DEF BeginStop
<1>7. ASSUME NEW i \in 1..Count, StopWorker(i) PROVE PoolInv'
  BY <1>7 DEF StopWorker
<1>8. ASSUME NEW i \in 1..Count, WorkerStopped(i) PROVE PoolInv'
  BY <1>8 DEF WorkerStopped
<1> QED
  BY <1>1, <1>2, <1>3, <1>4, <1>5, <1>6, <1>7, <1>8 DEF Next, StartStep, StopStep

-----------------------------------------------------------------------------
(* The page.                                                               *)

\* The page starts out without a socket.
LEMMA PageStarts == ASSUME Dash!DashInit PROVE PageInv
<1>1. connected \in BOOLEAN
  BY Zenon DEF Dash!DashInit
<1>2. /\ mounted = "loading" /\ wsRef = NULL /\ timers = 0 /\ handled = {}
      /\ \A s \in Sockets : ready[s] = "CLOSED"
      /\ ready \in [Sockets -> {"CONNECTING", "OPEN", "CLOSING", "CLOSED"}]
      /\ activeWorkers \in SUBSET (1..Count)
  BY DEF Dash!DashInit
<1>3. Dash!DashTypeOK
  BY <1>1, <1>2 DEF Dash!DashTypeOK
<1> QED BY <1>2, <1>3 DEF PageInv

\* The page makes a connection only when no other and no timer is left.
LEMMA PageStepKeeps == ASSUME PageInv, [Dash!DashNext]_dashVars PROVE PageInv'
<1> USE SocketsAssumption DEF PageInv, Dash!DashTypeOK
<1>1. CASE UNCHANGED dashVars
  BY <1>1 DEF dashVars
<1>2. CASE Dash!Mount
  BY <1>2 DEF Dash!Mount, Dash!NewSocket
<1>3. CASE Dash!Remount
  BY <1>3 DEF Dash!Remount, Dash!NewSocket, Dash!Released, Dash!Detached
<1>4. CASE Dash!Unmount
  BY <1>4 DEF Dash!Unmount, Dash!Released, Dash!Detached
<1>5. CASE Dash!Reconnect
  BY <1>5 DEF Dash!Reconnect, Dash!NewSocket
<1>6. ASSUME NEW s \in Sockets, Dash!Opens(s) PROVE PageInv'
  BY <1>6 DEF Dash!Opens
<1>7. ASSUME NEW s \in Sockets, Dash!EndsConnection(s) PROVE PageInv'
  BY <1>7 DEF Dash!EndsConnection, Dash!Live
<1>8. ASSUME NEW s \in Sockets, Dash!Closes(s) PROVE PageInv'
  <2>1. CASE s \in handled /\ mounted = "mounted"
    <3>1. s = wsRef /\ timers = 0
      BY <1>8, <2>1 DEF Dash!Closes
    <3>2. connected' \in BOOLEAN
      BY <1>8, <2>1, Zenon DEF Dash!Closes
    <3> QED BY <1>8, <2>1, <3>1, <3>2 DEF Dash!Closes
  <2>2. CASE ~(s \in handled /\ mounted = "mounted")
    BY <1>8, <2>2 DEF Dash!Closes
  <2> QED BY <2>1, <2>2
<1>9. CASE Dash!Notified
  BY <1>9 DEF Dash!Notified, Dash!Receive
<1> QED
  BY <1>1, <1>2, <1>3, <1>4, <1>5, <1>6, <1>7, <1>8, <1>9
     DEF Dash!DashNext, Dash!ConnectionStep

-----------------------------------------------------------------------------
(* Both within Presence.                                                   *)

PeerTyped == peer \in [Peers -> [1..PeerCount -> {"new", "running", "STOPPED", "gone"}]]

\* Nobody takes leave of a worker that is not done.
HonestLeave == \A n \in notices : n.type = "WORKER_OFFLINE" => HasStopped(n.worker)

PresenceInv ==
  /\ PoolInv
  /\ PageInv
  /\ notices \in SUBSET Notices
  /\ up \in BOOLEAN
  /\ PeerTyped
  /\ HonestLeave

\* A step of the composition is a step of each part, or leaves it alone.
LEMMA StepOfBoth ==
  ASSUME notices \in SUBSET Notices, [PresenceNext]_presenceVars
  PROVE  [Next]_vars /\ [Dash!DashNext]_dashVars
<1>1. CASE UNCHANGED presenceVars
  BY <1>1 DEF presenceVars
<1>2. CASE PoolStep
  BY <1>2 DEF PoolStep, CallTurn, StartTurn, StopTurn, Next, StartStep, StopStep
<1>3. ASSUME NEW n \in notices, Publish(n)
      PROVE  [Next]_vars /\ [Dash!DashNext]_dashVars
  BY <1>3 DEF Publish, Notices, Dash!DashNext, Dash!Notified
<1>4. CASE ProcessEnds
  BY <1>4 DEF ProcessEnds
<1>5. CASE PageStep
  BY <1>5 DEF PageStep, Dash!DashNext
<1>6. CASE PeerStep
  BY <1>6 DEF PeerStep
<1> QED BY <1>1, <1>2, <1>3, <1>4, <1>5, <1>6 DEF PresenceNext

\* A notice names a worker of the pool, and the other processes keep theirs.
LEMMA NoticesKept ==
  ASSUME PresenceInv, [PresenceNext]_presenceVars
  PROVE  notices' \in SUBSET Notices /\ up' \in BOOLEAN /\ PeerTyped'
<1> USE DEF PresenceInv, PeerTyped
<1>1. CASE UNCHANGED presenceVars
  BY <1>1 DEF presenceVars
<1>2. CASE PoolStep
  <2>1. ASSUME NEW c \in Starters, StartTurn(c) PROVE notices' \in SUBSET Notices
    <3>1. StartWorker(c) => next \in 1..Count
      BY PoolAssumption DEF StartWorker, PoolInv, TypeOK
    <3> QED BY <2>1, <3>1 DEF StartTurn, Notices, Notice
  <2>2. ASSUME NEW i \in 1..Count, StopTurn(i) PROVE notices' \in SUBSET Notices
    BY <2>2 DEF StopTurn, Notices, Notice
  <2> QED BY <1>2, <2>1, <2>2 DEF PoolStep, CallTurn
<1>3. ASSUME NEW n \in notices, Publish(n)
      PROVE  notices' \in SUBSET Notices /\ up' \in BOOLEAN /\ PeerTyped'
  BY <1>3 DEF Publish
<1>4. CASE ProcessEnds
  BY <1>4 DEF ProcessEnds
<1>5. CASE PageStep
  BY <1>5 DEF PageStep
<1>6. ASSUME NEW q \in Peers, NEW i \in 1..PeerCount, PeerStarts(q, i) \/ PeerStops(q, i)
      PROVE  notices' \in SUBSET Notices /\ PeerTyped'
  <2>1. PICK st \in {"running", "STOPPED"} : peer' = [peer EXCEPT ![q][i] = st]
    BY <1>6 DEF PeerStarts, PeerStops
  <2>2. PeerTyped'
    BY <2>1
  <2>3. PICK type \in {"WORKER_ONLINE", "WORKER_OFFLINE"} :
          notices' = notices \cup {Notice(q, type, i)}
    BY <1>6 DEF PeerStarts, PeerStops
  <2>4. Notice(q, type, i) \in Notices
    BY PoolAssumption, PeersAssumption DEF Notices, Notice
  <2> QED BY <2>2, <2>3, <2>4
<1>7. ASSUME NEW q \in Peers, PeerEnds(q)
      PROVE  notices' \in SUBSET Notices /\ PeerTyped'
  BY <1>7 DEF PeerEnds
<1> QED BY <1>1, <1>2, <1>3, <1>4, <1>5, <1>6, <1>7 DEF PresenceNext, PeerStep

\* What has stopped in the pool has stopped for good: its goroutine is done.
LEMMA DoneForGood ==
  ASSUME PoolInv, [Next]_vars, NEW i \in 1..Count, stopper[i] = "done"
  PROVE  stopper'[i] = "done"
<1> USE DEF PoolInv, TypeOK
<1>1. ASSUME NEW c \in Stoppers, BeginStop(c) PROVE FALSE
  BY <1>1 DEF BeginStop
<1>2. ASSUME NEW k \in 1..Count, StopStep(k) PROVE stopper'[i] = "done"
  BY <1>2 DEF StopStep, StopWorker, WorkerStopped
<1>3. CASE UNCHANGED stopper
  BY <1>3
<1> QED
  BY <1>1, <1>2, <1>3
     DEF Next, vars, RefuseStart, BeginStart, StartStep, StartWorker, EndStart,
         RefuseStop, EndStop

\* A worker that another process has stopped is not started there again.
LEMMA PeerStoppedForGood ==
  ASSUME PeerTyped, [PresenceNext]_presenceVars,
         NEW p \in Peers, NEW i \in 1..PeerCount, peer[p][i] = "STOPPED"
  PROVE  peer'[p][i] = "STOPPED"
<1> USE DEF PeerTyped
<1>1. CASE UNCHANGED peer
  BY <1>1
<1>2. ASSUME NEW q \in Peers, NEW k \in 1..PeerCount, PeerStarts(q, k) \/ PeerStops(q, k)
      PROVE  peer'[p][i] = "STOPPED"
  <2>1. ~(q = p /\ k = i)
    BY <1>2 DEF PeerStarts, PeerStops
  <2>2. PICK st : peer' = [peer EXCEPT ![q][k] = st]
    BY <1>2 DEF PeerStarts, PeerStops
  <2>3. CASE q = p
    BY <2>1, <2>2, <2>3
  <2>4. CASE q # p
    BY <2>2, <2>4
  <2> QED BY <2>3, <2>4
<1>3. ASSUME NEW q \in Peers, PeerEnds(q) PROVE peer'[p][i] = "STOPPED"
  BY <1>3 DEF PeerEnds
<1> QED
  BY <1>1, <1>2, <1>3
     DEF PresenceNext, presenceVars, PoolStep, Publish, ProcessEnds, PageStep, PeerStep

\* Once a process has stopped its worker of a name, one has.
LEMMA StoppedForGood ==
  ASSUME PresenceInv, [PresenceNext]_presenceVars, NEW i \in 1..Count, HasStopped(i)
  PROVE  HasStopped(i)'
<1>1. CASE stopper[i] = "done"
  BY <1>1, StepOfBoth, DoneForGood DEF PresenceInv, HasStopped
<1>2. CASE \E q \in Peers : i \in 1..PeerCount /\ peer[q][i] = "STOPPED"
  BY <1>2, PeerStoppedForGood DEF PresenceInv, HasStopped
<1> QED BY <1>1, <1>2 DEF HasStopped

\* A notice that a worker left is made after it stopped.
LEMMA LeaveStaysHonest ==
  ASSUME PresenceInv, [PresenceNext]_presenceVars
  PROVE  HonestLeave'
<1> SUFFICES ASSUME NEW n \in notices', n.type = "WORKER_OFFLINE"
             PROVE  HasStopped(n.worker)'
  BY DEF HonestLeave
<1>1. CASE n \in notices
  <2>1. n.worker \in 1..Count /\ HasStopped(n.worker)
    BY <1>1 DEF PresenceInv, HonestLeave, Notices
  <2> QED BY <2>1, StoppedForGood
<1>2. CASE n \notin notices
  <2>1. CASE PoolStep
    <3>1. PICK i \in 1..Count :
            WorkerStopped(i) /\ n = Notice(This, "WORKER_OFFLINE", i)
      BY <1>2, <2>1 DEF PoolStep, CallTurn, StartTurn, StopTurn, Notice
    <3>2. stopper'[i] = "done"
      BY <3>1 DEF WorkerStopped, PresenceInv, PoolInv, TypeOK
    <3> QED BY <3>1, <3>2 DEF HasStopped, Notice
  <2>2. CASE PeerStep
    <3>1. PICK q \in Peers, i \in 1..PeerCount :
            PeerStops(q, i) /\ n = Notice(q, "WORKER_OFFLINE", i)
      BY <1>2, <2>2 DEF PeerStep, PeerStarts, PeerStops, PeerEnds, Notice
    <3>2. peer'[q][i] = "STOPPED"
      BY <3>1 DEF PeerStops, PresenceInv, PeerTyped
    <3> QED BY <3>1, <3>2 DEF HasStopped, Notice
  <2> QED
    BY <1>2, <2>1, <2>2 DEF PresenceNext, presenceVars, Publish, ProcessEnds, PageStep
<1> QED BY <1>1, <1>2

\* The three hold together in every reachable state.
LEMMA Inductive == PresenceSpec => []PresenceInv
<1>1. PresenceInit => PresenceInv
  BY PoolStarts, PageStarts DEF PresenceInit, PresenceInv, PeerTyped, HonestLeave
<1>2. PresenceInv /\ [PresenceNext]_presenceVars => PresenceInv'
  BY StepOfBoth, PoolStepKeeps, PageStepKeeps, NoticesKept, LeaveStaysHonest DEF PresenceInv
<1> QED BY <1>1, <1>2, PTL DEF PresenceSpec

-----------------------------------------------------------------------------
\* The types of the pool, the notices and the page.
THEOREM PresenceTyped == PresenceSpec => []PresenceTypeOK
<1>1. PresenceInv => PresenceTypeOK
  BY DEF PresenceInv, PoolInv, PageInv, PeerTyped, PresenceTypeOK
<1> QED BY <1>1, Inductive, PTL

\* A pool that was stopped has no worker running, and never will, however calls
\* of Start and Stop are interleaved.
THEOREM PoolStaysStopped == PresenceSpec => []StaysStopped
<1>1. PresenceInv => StaysStopped
  BY DEF PresenceInv, PoolInv, StaysStopped
<1> QED BY <1>1, Inductive, PTL

\* What removes a name from the page is a notice made when a worker of that
\* name had stopped.
LEMMA HiddenHasStopped ==
  ASSUME PresenceInv, [PresenceNext]_presenceVars, NEW i \in activeWorkers \ activeWorkers'
  PROVE  i \in 1..Count /\ HasStopped(i)
<1>1. CASE UNCHANGED dashVars
  BY <1>1 DEF dashVars
<1>2. ASSUME NEW n \in notices, Dash!Receive(n.type, n.worker)
      PROVE  i \in 1..Count /\ HasStopped(i)
  <2>1. n.type = "WORKER_OFFLINE" /\ n.worker = i /\ i \in 1..Count
    BY <1>2 DEF Dash!Receive, PresenceInv, Notices
  <2> QED BY <2>1 DEF PresenceInv, HonestLeave
<1>3. CASE Dash!ConnectionStep
  BY <1>3
     DEF Dash!ConnectionStep, Dash!Mount, Dash!Remount, Dash!Unmount, Dash!Reconnect,
         Dash!Opens, Dash!EndsConnection, Dash!Closes
<1> QED
  BY <1>1, <1>2, <1>3
     DEF PresenceNext, PoolStep, Publish, ProcessEnds, PeerStep, PageStep, presenceVars

\* With any number of worker processes, whose workers have the same names: a
\* name that disappears from the page is that of a worker that is done, since
\* the notice that removes it was published when it had stopped.
THEOREM PageHidesAfterStop == PresenceSpec => ShownUntilStopped
<1>1. PresenceInv /\ [PresenceNext]_presenceVars =>
        [\A i \in activeWorkers \ activeWorkers' : HasStopped(i)]_presenceVars
  BY HiddenHasStopped
<1> QED BY <1>1, Inductive, PTL DEF PresenceSpec, ShownUntilStopped

\* The page has one connection at most: remounts, close events that arrive late
\* and timers never double a socket.
THEOREM PageConnection == PresenceSpec => []OneConnection
<1>1. PresenceInv => OneConnection
  BY SocketsAssumption
     DEF PresenceInv, PageInv, OneConnection, Dash!OneConnection, Dash!Live, Dash!DashTypeOK
<1> QED BY <1>1, Inductive, PTL

\* A mounted page has a timer that will reconnect it or a socket whose close it
\* will hear: no remount, failure or late close event leaves it without both.
THEOREM PageReconnects == PresenceSpec => []NeverStranded
<1>1. PresenceInv => NeverStranded
  BY DEF PresenceInv, PageInv, NeverStranded, Dash!NeverStranded
<1> QED BY <1>1, Inductive, PTL

=============================================================================
