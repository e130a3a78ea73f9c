----------------------------- MODULE Dashboard -----------------------------
(***************************************************************************)
(* The dashboard's connection (frontend/src/hooks/useWebSocket.ts): one    *)
(* websocket at a time, opened again by a timer when it closes, through    *)
(* the mounts and cleanups of a React effect; and the workers it shows.    *)
(* JavaScript runs one task at a time, so each event handler is one step.  *)
(***************************************************************************)
EXTENDS Naturals

CONSTANTS
  Sockets,   \* WebSocket objects; one that fired its close event is used again
  Names,     \* worker ids
  NULL

VARIABLES
  mounted,        \* the component; mountedRef is FALSE once it is unmounted
  wsRef,          \* the socket the component holds, or NULL
  ready,          \* readyState of each socket
  handled,        \* sockets whose onclose is set
  timers,         \* reconnections scheduled
  connected,      \* shown in the header
  activeWorkers   \* shown as online

dashVars == <<mounted, wsRef, ready, handled, timers, connected, activeWorkers>>

Live(s) == ready[s] \in {"CONNECTING", "OPEN"}

\* The values of the variables.
DashTypeOK ==
  /\ mounted \in {"loading", "mounted", "unmounted"}
  /\ wsRef \in Sockets \cup {NULL}
  /\ ready \in [Sockets -> {"CONNECTING", "OPEN", "CLOSING", "CLOSED"}]
  /\ handled \in SUBSET Sockets
  /\ timers \in Nat
  /\ connected \in BOOLEAN
  /\ activeWorkers \in SUBSET Names

DashInit ==
  /\ mounted = "loading"
  /\ wsRef = NULL
  /\ ready = [s \in Sockets |-> "CLOSED"]
  /\ handled = {}
  /\ timers = 0
  /\ connected = FALSE
  /\ activeWorkers = {}

-----------------------------------------------------------------------------
\* new WebSocket(url), with its handlers, where rd and hs are the states and
\* handlers of the sockets so far.
NewSocket(rd, hs) ==
  \E s \in Sockets :
    /\ rd[s] = "CLOSED"
    /\ wsRef' = s
    /\ ready' = [rd EXCEPT ![s] = "CONNECTING"]
    /\ handled' = hs \cup {s}

\* The effect runs for the first time, and connects.
Mount ==
  /\ mounted = "loading"
  /\ mounted' = "mounted"
  /\ NewSocket(ready, handled)
  /\ UNCHANGED <<timers, connected, activeWorkers>>

\* The cleanup of the effect closes the socket, without its onclose.
Released ==
  IF wsRef = NULL \/ ready[wsRef] = "CLOSED" THEN ready
  ELSE [ready EXCEPT ![wsRef] = "CLOSING"]

\* Mutation: onclose stays set.
Detached_Keeps == handled

Detached == handled \ {wsRef}

\* React runs the cleanup and the effect again: StrictMode after the first
\* mount, Fast Refresh at any time.
Remount ==
  /\ mounted = "mounted"
  /\ timers' = 0
  /\ NewSocket(Released, Detached)
  /\ UNCHANGED <<mounted, connected, activeWorkers>>

Unmount ==
  /\ mounted = "mounted"
  /\ mounted' = "unmounted"
  /\ ready' = Released
  /\ handled' = Detached
  /\ wsRef' = NULL
  /\ timers' = 0
  /\ UNCHANGED <<connected, activeWorkers>>

-----------------------------------------------------------------------------
\* onopen
Opens(s) ==
  /\ ready[s] = "CONNECTING"
  /\ ready' = [ready EXCEPT ![s] = "OPEN"]
  /\ connected' = IF mounted = "mounted" THEN TRUE ELSE connected
  /\ UNCHANGED <<mounted, wsRef, handled, timers, activeWorkers>>

\* The server or the network ends the connection, or refuses it.
EndsConnection(s) ==
  /\ Live(s)
  /\ ready' = [ready EXCEPT ![s] = "CLOSING"]
  /\ UNCHANGED <<mounted, wsRef, handled, timers, connected, activeWorkers>>

\* Mutation: only a connection that was open is retried.
Closes_OnlyConnected(s) ==
  /\ ready[s] = "CLOSING"
  /\ ready' = [ready EXCEPT ![s] = "CLOSED"]
  /\ IF s \in handled /\ mounted = "mounted"
     THEN /\ connected' = FALSE
          /\ wsRef' = NULL
          /\ timers' = IF connected THEN timers + 1 ELSE timers
     ELSE UNCHANGED <<connected, wsRef, timers>>
  /\ UNCHANGED <<mounted, handled, activeWorkers>>

\* The close event: onclose, unless it was reset, schedules a reconnection.
Closes(s) ==
  /\ ready[s] = "CLOSING"
  /\ ready' = [ready EXCEPT ![s] = "CLOSED"]
  /\ IF s \in handled /\ mounted = "mounted"
     THEN /\ connected' = FALSE
          /\ wsRef' = NULL
          /\ timers' = timers + 1
     ELSE UNCHANGED <<connected, wsRef, timers>>
  /\ UNCHANGED <<mounted, handled, activeWorkers>>

\* connect, called by the timer.
Reconnect ==
  /\ timers > 0
  /\ timers' = timers - 1
  /\ IF mounted # "mounted" \/ (wsRef # NULL /\ ready[wsRef] = "OPEN")
     THEN UNCHANGED <<wsRef, ready, handled>>
     ELSE NewSocket(ready, handled)
  /\ UNCHANGED <<mounted, connected, activeWorkers>>

\* onmessage, for the two notices about workers.
Receive(type, w) ==
  /\ mounted = "mounted"
  /\ \E s \in Sockets : ready[s] = "OPEN"
  /\ activeWorkers' = IF type = "WORKER_ONLINE" THEN activeWorkers \cup {w}
                                                ELSE activeWorkers \ {w}
  /\ UNCHANGED <<mounted, wsRef, ready, handled, timers, connected>>

-----------------------------------------------------------------------------
ConnectionStep ==
  \/ Mount \/ Remount \/ Unmount \/ Reconnect
  \/ \E s \in Sockets : Opens(s) \/ EndsConnection(s) \/ Closes(s)

Notified ==
  \E type \in {"WORKER_ONLINE", "WORKER_OFFLINE"}, w \in Names : Receive(type, w)

DashNext == ConnectionStep \/ Notified

DashSpec == DashInit /\ [][DashNext]_dashVars

-----------------------------------------------------------------------------
\* Every message is counted once: the page has at most one connection, open or
\* on its way, and none to come while it has one or once it is unmounted,
\* whatever sockets an earlier mount left closing.
OneConnection ==
  /\ \A s, t \in Sockets : Live(s) /\ Live(t) => s = t
  /\ \A s \in Sockets : Live(s) => mounted = "mounted" /\ timers = 0
  /\ timers <= (IF mounted = "mounted" THEN 1 ELSE 0)

\* The page never stays disconnected for good: while it is mounted it has a
\* socket whose close event will schedule a reconnection, or has one scheduled.
NeverStranded ==
  mounted = "mounted" =>
    \/ timers > 0
    \/ wsRef # NULL /\ ready[wsRef] # "CLOSED" /\ wsRef \in handled

=============================================================================
