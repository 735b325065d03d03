----------------------------- MODULE Lifecycle ------------------------------
(***************************************************************************)
(* Starting and stopping the server: Server::start and stop                *)
(* (core/src/server.rs), the accept loop and the threads of its            *)
(* connections (core/src/websocket/server.rs), and the telemetry relay as  *)
(* the other loop that stop must wake and join.  What a connection does    *)
(* while it is served is in Registry and Transport, the saver in           *)
(* Persistence, the log relay in Logs.                                     *)
(***************************************************************************)
EXTENDS Naturals, Sequences, FiniteSets

CONSTANTS
  App,              \* threads that call start and stop
  Peer,             \* connections clients make
  MaxConnections,   \* MAX_CONNECTIONS
  MaxCalls,         \* bound: calls of start and of stop
  StopsFirst,       \* whether stop may be called before the first start
  NoConn            \* no connection has this id

ASSUME LifecycleAssumption ==
  /\ MaxConnections \in Nat \ {0}
  /\ MaxCalls \in Nat
  /\ StopsFirst \in BOOLEAN
  /\ Peer \cap Nat = {}

VARIABLES
  initialized,  \* Server::initialized
  stop,         \* Server::stop
  wsStop,       \* websocket::Server::stop
  doing,        \* where each application thread is
  calls,        \* calls so far
  loops,        \* accept loops and telemetry relays ever spawned
  handles,      \* Server::threads
  joining,      \* the handles a stop has taken
  backlog,      \* connections the kernel has for accept
  thread,       \* each connection's thread: where it is, and its id
  live,         \* live
  sockets,      \* sockets, by id
  clients,      \* ConnectionMap, by id
  shut,         \* connections whose socket has been shut down
  datagram      \* the datagram stop sends to its own telemetry socket

loopVars == <<loops, handles, joining>>
connVars == <<backlog, thread, live, sockets, clients, shut>>
flagVars == <<initialized, stop, wsStop>>
lifeVars == <<flagVars, doing, calls, loopVars, connVars, datagram>>

\* A stop's own connection is the number of the call.
Wakes == 1 .. MaxCalls
Conns == Peer \cup Wakes
Ids == 0 .. Cardinality(Peer) + MaxCalls

LifeInit ==
  /\ initialized = FALSE
  /\ stop = FALSE
  /\ wsStop = FALSE
  /\ doing = [a \in App |-> "idle"]
  /\ calls = 0
  /\ loops = <<>>
  /\ handles = {}
  /\ joining = [a \in App |-> {}]
  /\ backlog = <<>>
  /\ thread = [c \in Conns |-> [at |-> "away", id |-> 0]]
  /\ live = 0
  /\ sockets = [i \in Ids |-> NoConn]
  /\ clients = [i \in Ids |-> NoConn]
  /\ shut = {}
  /\ datagram = FALSE

PcStep(a, from, to) == doing[a] = from /\ doing' = [doing EXCEPT ![a] = to]

-----------------------------------------------------------------------------
(***************************************************************************)
(* Server::start.                                                          *)
(***************************************************************************)
\* The first start goes on as it is; a later one only if stop was set, which
\* it clears.
CallStart(a) ==
  /\ calls < MaxCalls
  /\ calls' = calls + 1
  /\ \/ /\ ~ initialized
        /\ initialized' = TRUE
        /\ PcStep(a, "idle", "clear")
        /\ UNCHANGED stop
     \/ /\ initialized /\ stop
        /\ stop' = FALSE
        /\ PcStep(a, "idle", "clear")
        /\ UNCHANGED initialized
     \/ /\ initialized /\ ~ stop
        /\ doing[a] = "idle"
        /\ UNCHANGED <<doing, initialized, stop>>
  /\ UNCHANGED <<wsStop, loopVars, connVars, datagram>>

\* The WebSocket server's flag is cleared.
ClearWsStop(a) ==
  /\ PcStep(a, "clear", "spawn")
  /\ wsStop' = FALSE
  /\ UNCHANGED <<initialized, stop, calls, loopVars, connVars, datagram>>

\* The accept loop, which counts connection ids from 0, and then the telemetry
\* relay are spawned and tracked.
SpawnLoops(a) ==
  /\ PcStep(a, "spawn", "idle")
  /\ loops' = loops \o << [kind |-> "accept", at |-> "top", taken |-> NoConn, next |-> 0],
                          [kind |-> "relay", at |-> "top", taken |-> NoConn, next |-> 0] >>
  /\ handles' = handles \cup {Len(loops) + 1, Len(loops) + 2}
  /\ UNCHANGED <<flagVars, calls, joining, connVars, datagram>>

-----------------------------------------------------------------------------
(***************************************************************************)
(* Server::stop.                                                           *)
(***************************************************************************)
CallStop(a) ==
  /\ calls < MaxCalls
  /\ initialized \/ StopsFirst
  /\ calls' = calls + 1
  /\ stop' = TRUE
  /\ PcStep(a, "idle", "flag")
  /\ UNCHANGED <<initialized, wsStop, loopVars, connVars, datagram>>

\* websocket::Server::stop: the flag.
SetWsStop(a) ==
  /\ PcStep(a, "flag", "wake")
  /\ wsStop' = TRUE
  /\ UNCHANGED <<initialized, stop, calls, loopVars, connVars, datagram>>

\* mutant: the accept loop is not woken
WakeNothing(a) ==
  /\ PcStep(a, "wake", "shut")
  /\ UNCHANGED <<flagVars, calls, loopVars, connVars, datagram>>

\* It connects to its own listener, so that accept returns.
WakeAccept(a) ==
  LET c == CHOOSE k \in Wakes : thread[k].at = "away"
  IN /\ PcStep(a, "wake", "shut")
     /\ backlog' = Append(backlog, c)
     /\ thread' = [thread EXCEPT ![c].at = "backlog"]
     /\ UNCHANGED <<flagVars, calls, loopVars, live, sockets, clients, shut, datagram>>

\* It shuts the sockets in the map down.
ShutSockets(a) ==
  /\ PcStep(a, "shut", "rouse")
  /\ shut' = shut \cup ({sockets[i] : i \in Ids} \ {NoConn})
  /\ UNCHANGED <<flagVars, calls, loopVars, backlog, thread, live, sockets, clients, datagram>>

\* The telemetry relay is sent an empty datagram.
WakeRelay(a) ==
  /\ PcStep(a, "rouse", "take")
  /\ datagram' = TRUE
  /\ UNCHANGED <<flagVars, calls, loopVars, connVars>>

\* join_running takes the handles.
TakeHandles(a) ==
  /\ PcStep(a, "take", "join")
  /\ joining' = [joining EXCEPT ![a] = handles]
  /\ handles' = {}
  /\ UNCHANGED <<flagVars, calls, loops, connVars, datagram>>

\* join_running has joined them all.
Joined(a) ==
  /\ \A l \in joining[a] : loops[l].at = "ended"
  /\ PcStep(a, "join", "idle")
  /\ joining' = [joining EXCEPT ![a] = {}]
  /\ UNCHANGED <<flagVars, calls, loops, handles, connVars, datagram>>

-----------------------------------------------------------------------------
(***************************************************************************)
(* accept_loop.                                                            *)
(***************************************************************************)
LoopAt(l, kind, at) ==
  l \in 1 .. Len(loops) /\ loops[l].kind = kind /\ loops[l].at = at

\* The while condition.
AcceptTop(l) ==
  /\ LoopAt(l, "accept", "top")
  /\ loops' = [loops EXCEPT ![l].at = IF wsStop THEN "ended" ELSE "accept"]
  /\ UNCHANGED <<flagVars, doing, calls, handles, joining, connVars, datagram>>

\* accept returns a connection.
Accept(l) ==
  /\ LoopAt(l, "accept", "accept")
  /\ backlog # <<>>
  /\ backlog' = Tail(backlog)
  /\ loops' = [loops EXCEPT ![l].at = "check", ![l].taken = Head(backlog)]
  /\ UNCHANGED <<flagVars, doing, calls, handles, joining, thread, live, sockets, clients, shut, datagram>>

\* The flag is tested again: the connection is dropped and the loop ends.
AcceptCheck(l) ==
  /\ LoopAt(l, "accept", "check")
  /\ IF wsStop
     THEN /\ loops' = [loops EXCEPT ![l].at = "ended", ![l].taken = NoConn]
          /\ thread' = [thread EXCEPT ![loops[l].taken].at = "gone"]
     ELSE /\ loops' = [loops EXCEPT ![l].at = "count"]
          /\ UNCHANGED thread
  /\ UNCHANGED <<flagVars, doing, calls, handles, joining, backlog, live, sockets, clients, shut, datagram>>

\* live.fetch_add: under the limit the connection's thread is spawned with the
\* slot and the next id.
CountIn(l) ==
  /\ LoopAt(l, "accept", "count")
  /\ live' = live + 1
  /\ IF live >= MaxConnections
     THEN /\ loops' = [loops EXCEPT ![l].at = "refuse"]
          /\ UNCHANGED thread
     ELSE /\ loops' = [loops EXCEPT ![l].at = "top", ![l].taken = NoConn, ![l].next = @ + 1]
          /\ thread' = [thread EXCEPT ![loops[l].taken] = [at |-> "handshake", id |-> loops[l].next]]
  /\ UNCHANGED <<flagVars, doing, calls, handles, joining, backlog, sockets, clients, shut, datagram>>

\* mutant: a refused connection keeps its slot
RefuseKeepingSlot(l) ==
  /\ LoopAt(l, "accept", "refuse")
  /\ loops' = [loops EXCEPT ![l].at = "top", ![l].taken = NoConn]
  /\ thread' = [thread EXCEPT ![loops[l].taken].at = "gone"]
  /\ UNCHANGED <<flagVars, doing, calls, handles, joining, backlog, live, sockets, clients, shut, datagram>>

\* Over the limit: the slot is given back and the connection shut.
Refuse(l) ==
  /\ LoopAt(l, "accept", "refuse")
  /\ live' = live - 1
  /\ loops' = [loops EXCEPT ![l].at = "top", ![l].taken = NoConn]
  /\ thread' = [thread EXCEPT ![loops[l].taken].at = "gone"]
  /\ UNCHANGED <<flagVars, doing, calls, handles, joining, backlog, sockets, clients, shut, datagram>>

\* The telemetry relay's loop: recv_from returns with the datagram or at its
\* timeout, and the flag is tested.
RelayLoop(l) ==
  /\ \/ /\ LoopAt(l, "relay", "top")
        /\ loops' = [loops EXCEPT ![l].at = IF stop THEN "ended" ELSE "receive"]
        /\ UNCHANGED datagram
     \/ /\ LoopAt(l, "relay", "receive")
        /\ loops' = [loops EXCEPT ![l].at = "top"]
        /\ datagram' = FALSE
  /\ UNCHANGED <<flagVars, doing, calls, handles, joining, connVars>>

-----------------------------------------------------------------------------
(***************************************************************************)
(* spawn_connection's thread.                                              *)
(***************************************************************************)
ConnStep(c, from, to) == thread[c].at = from /\ thread' = [thread EXCEPT ![c].at = to]

\* A client connects.
Connect(c) ==
  /\ c \in Peer
  /\ ConnStep(c, "away", "backlog")
  /\ backlog' = Append(backlog, c)
  /\ UNCHANGED <<flagVars, doing, calls, loopVars, live, sockets, clients, shut, datagram>>

\* The handshake fails or times out, as a stop's own connection must: the
\* thread ends and ConnectionSlot gives the slot back.
HandshakeFails(c) ==
  /\ ConnStep(c, "handshake", "gone")
  /\ live' = live - 1
  /\ UNCHANGED <<flagVars, doing, calls, loopVars, backlog, sockets, clients, shut, datagram>>

\* It succeeds; an RTT-only connection is served without being registered.
Handshake(c) ==
  /\ c \in Peer
  /\ ConnStep(c, "handshake", "insert") \/ ConnStep(c, "handshake", "rtt")
  /\ UNCHANGED <<flagVars, doing, calls, loopVars, backlog, live, sockets, clients, shut, datagram>>

\* serve_rtt returns once the peer has gone.
RttEnds(c) ==
  /\ ConnStep(c, "rtt", "gone")
  /\ live' = live - 1
  /\ UNCHANGED <<flagVars, doing, calls, loopVars, backlog, sockets, clients, shut, datagram>>

\* sockets.insert.
InsertSocket(c) ==
  /\ ConnStep(c, "insert", "add")
  /\ sockets' = [sockets EXCEPT ![thread[c].id] = c]
  /\ UNCHANGED <<flagVars, doing, calls, loopVars, backlog, live, clients, shut, datagram>>

\* add_client, on_connect and the writer's thread.
AddClient(c) ==
  /\ ConnStep(c, "add", "serve")
  /\ clients' = [clients EXCEPT ![thread[c].id] = c]
  /\ UNCHANGED <<flagVars, doing, calls, loopVars, backlog, live, sockets, shut, datagram>>

\* serve_connection returns: the peer has gone or the socket is shut down.
ServeEnds(c) ==
  /\ ConnStep(c, "serve", "remove")
  /\ UNCHANGED <<flagVars, doing, calls, loopVars, backlog, live, sockets, clients, shut, datagram>>

\* sockets.remove: by id.
RemoveSocket(c) ==
  /\ ConnStep(c, "remove", "leave")
  /\ sockets' = [sockets EXCEPT ![thread[c].id] = NoConn]
  /\ UNCHANGED <<flagVars, doing, calls, loopVars, backlog, live, clients, shut, datagram>>

\* remove_client, on_disconnect, the writer is joined, and the slot comes back.
RemoveClient(c) ==
  /\ ConnStep(c, "leave", "gone")
  /\ clients' = [clients EXCEPT ![thread[c].id] = NoConn]
  /\ live' = live - 1
  /\ UNCHANGED <<flagVars, doing, calls, loopVars, backlog, sockets, shut, datagram>>

AppStep(a) ==
  \/ ClearWsStop(a) \/ SpawnLoops(a)
  \/ SetWsStop(a) \/ WakeAccept(a) \/ ShutSockets(a) \/ WakeRelay(a)
  \/ TakeHandles(a) \/ Joined(a)

LoopStep(l) ==
  AcceptTop(l) \/ Accept(l) \/ AcceptCheck(l) \/ CountIn(l) \/ Refuse(l) \/ RelayLoop(l)

ThreadStep(c) ==
  InsertSocket(c) \/ AddClient(c) \/ RemoveSocket(c) \/ RemoveClient(c)

LifeNext ==
  \/ \E a \in App : CallStart(a) \/ CallStop(a) \/ AppStep(a)
  \/ \E l \in 1 .. 2 * MaxCalls : LoopStep(l)
  \/ \E c \in Conns :
       \/ Connect(c) \/ HandshakeFails(c) \/ Handshake(c) \/ RttEnds(c)
       \/ ServeEnds(c) \/ ThreadStep(c)

LifeSpec == LifeInit /\ [][LifeNext]_lifeVars

\* Threads run; nothing is asked of the application or of the peers.
LifeFairness ==
  /\ \A a \in App : WF_lifeVars(AppStep(a))
  /\ \A l \in 1 .. 2 * MaxCalls : WF_lifeVars(LoopStep(l))

-----------------------------------------------------------------------------
Threads == {c \in Conns : thread[c].at \notin {"away", "backlog", "gone"}}

\* Every slot of MAX_CONNECTIONS is held by one connection's thread, or for a
\* moment by an accept loop about to refuse (server.rs:565-569, 608-615): the
\* counter neither leaks nor is given back twice, over any order of refusals,
\* failed handshakes, disconnects, stops and starts, and no more than the
\* limit are served.
SlotsExact ==
  /\ live = Cardinality(Threads)
              + Cardinality({l \in 1 .. Len(loops) : loops[l].at = "refuse"})
  /\ Cardinality(Threads) <= MaxConnections

\* start "does nothing while running" (core/server.rs:504): there is at most
\* one accept loop, because stop joins the old one before start makes another.
OneAcceptLoop ==
  Cardinality({l \in 1 .. Len(loops) : loops[l].kind = "accept" /\ loops[l].at # "ended"}) <= 1

\* Over any number of starts and stops the server has one accept loop and its
\* slots are those of the connections it serves.
ServesWithinLimits == SlotsExact /\ OneAcceptLoop

\* "Stop the receive loops and wait for them to exit" (core/server.rs:623):
\* stop returns although accept blocks without a timeout, whatever the clients
\* do meanwhile.
ServerStopReturns == \A a \in App : doing[a] = "flag" ~> doing[a] = "idle"

\* websocket::Server::stop "shuts every established connection down"
\* (websocket/server.rs:197): every connection that is being served when stop
\* walks the sockets is shut down.  The code does not keep this: connection ids
\* start from 0 again with each accept loop, and the thread of a connection from
\* before a restart replaces or removes the entry of the new one with its id.
StopShutsEstablished ==
  [][(\E a \in App : ShutSockets(a)) =>
       \A c \in Peer : thread[c].at = "serve" => c \in shut']_lifeVars

=============================================================================
