------------------------------ MODULE Session -------------------------------
(***************************************************************************)
(* The client's connection (client/src/client.rs, connection.rs,           *)
(* reader.rs): the reader thread that connects, replays the session and    *)
(* drains the queue; application threads that publish, subscribe, send     *)
(* requests, start and stop; and connections that are lost.                *)
(*                                                                         *)
(* A lock region or an atomic access is one step.  A frame the server gets *)
(* has its effect at once.  Reader n owns the receiving end of queue n:    *)
(* ensure_reader makes a new queue for each reader it spawns, and queue 0  *)
(* is the one the client is built with, which nobody receives from.  The   *)
(* url is always ws://, so every connection can be split and has a writer. *)
(***************************************************************************)
EXTENDS Integers, Sequences, FiniteSets

CONSTANTS
  App,         \* application threads
  Channel,     \* channels they publish
  QueueSize,   \* send_high_water_mark
  MaxOps,      \* bound: calls made by the application
  MaxSubs,     \* bound: subscriptions among them
  MaxRequests, \* bound: requests sent
  MaxReaders,  \* bound: reader threads spawned
  MaxConns,    \* bound: connections made
  Nobody       \* no thread, no connection

ASSUME SessionAssumption ==
  /\ QueueSize \in Nat \ {0}
  /\ {MaxOps, MaxSubs, MaxRequests, MaxReaders, MaxConns} \subseteq Nat

VARIABLES
  stop, initialized, readerStarted,  \* the flags of Client
  handles,       \* Client.threads: the readers whose handles are kept
  outbound,      \* the queue frames go to now
  queue,         \* what each queue holds
  writer,        \* SharedWriter: the connection written to directly
  session,       \* the frames remembered for replay
  pubuids,       \* the channels that have a publisher uid
  nextSubuid,    \* next_subuid
  clones,        \* the queue each live subscription's unsubscriber kept
  pending,       \* the id of the pending request, or 0
  nextRequest    \* next_request

VARIABLES
  app,           \* each application thread: where it is and what with
  locks,         \* holders of the pubuids mutex and of request_lock
  reader,        \* each reader: where it is, its connection, its replay
  ops            \* calls made so far

VARIABLES
  conns,         \* the state of each connection made
  received,      \* the session the server holds for each connection
  replies,       \* request ids answered on each connection, not yet read
  executed,      \* request ids the server executed, in order
  refused        \* session frames a queue refused since the last replay

flags == <<stop, initialized, readerStarted, handles>>
state == <<session, pubuids, nextSubuid, clones>>
asking == <<pending, nextRequest>>
net == <<conns, received, replies, executed>>
vars == <<flags, state, asking, outbound, queue, writer, app, locks, reader,
          ops, net, refused>>

Readers == 1 .. MaxReaders
Conns == 1 .. MaxConns
Subuid == 0 .. MaxSubs - 1

Pub(c) == <<"publish", c>>
Subscr(u) == <<"subscribe", u>>
Unsub(u) == <<"unsubscribe", u>>
ValueOf(c) == <<"value", c>>
Request(id) == <<"request", id>>

\* An application thread that is in no call.  then: where ensure_reader
\* returns to; todo: frames to send; own: the reader just spawned, those to
\* join, or the queue an unsubscriber kept; sub: the subscription being made; id, got: the request and its reply.
AtRest == [pc |-> "idle", then |-> "idle", todo |-> <<>>, own |-> {},
           sub |-> Nobody, id |-> 0, got |-> 0]
NotSpawned == [pc |-> "none", conn |-> Nobody, frames |-> {}]

Init ==
  /\ stop = FALSE /\ initialized = FALSE /\ readerStarted = FALSE
  /\ handles = {}
  /\ outbound = 0 /\ queue = [n \in 0 .. MaxReaders |-> <<>>]
  /\ writer = Nobody /\ session = {} /\ pubuids = {}
  /\ nextSubuid = 0 /\ clones = [u \in Subuid |-> Nobody]
  /\ pending = 0 /\ nextRequest = 0
  /\ app = [a \in App |-> AtRest]
  /\ locks = [pubuids |-> Nobody, request |-> Nobody]
  /\ reader = [n \in Readers |-> NotSpawned]
  /\ ops = 0
  /\ conns = <<>>
  /\ received = [k \in Conns |-> {}]
  /\ replies = [k \in Conns |-> <<>>]
  /\ executed = <<>> /\ refused = {}

-----------------------------------------------------------------------------
(* Frames on a connection.  The peer may vanish ("silent": writes still     *)
(* succeed) before the socket reports it ("dead").                          *)

\* What the server does with a frame.
Receive(k, frame) ==
  /\ received' = [received EXCEPT ![k] =
       CASE frame[1] \in {"publish", "subscribe"} -> @ \cup {frame}
         [] frame[1] = "unsubscribe" -> @ \ {Subscr(frame[2])}
         [] OTHER -> @]
  /\ IF frame[1] = "request"
     THEN /\ executed' = Append(executed, frame[2])
          /\ replies' = [replies EXCEPT ![k] = Append(@, frame[2])]
     ELSE UNCHANGED <<executed, replies>>
  /\ UNCHANGED conns

\* A write the socket accepts: it reaches a peer that is still there.
Accepted(k, frame) ==
  /\ conns[k] # "dead"
  /\ IF conns[k] = "up" THEN Receive(k, frame) ELSE UNCHANGED net

\* A peer vanishes while enough connections are left for the readers to come.
Vanish(k) ==
  /\ Len(conns) + Cardinality({n \in Readers : reader[n] = NotSpawned}) < MaxConns
  /\ conns[k] = "up" /\ conns' = [conns EXCEPT ![k] = "silent"]
  /\ UNCHANGED <<flags, state, asking, outbound, queue, writer, app, locks,
                 reader, ops, received, replies, executed, refused>>

\* The socket reports it: a reset, or the time-out of what was written.
Report(k) ==
  /\ conns[k] = "silent" /\ conns' = [conns EXCEPT ![k] = "dead"]
  /\ UNCHANGED <<flags, state, asking, outbound, queue, writer, app, locks,
                 reader, ops, received, replies, executed, refused>>

-----------------------------------------------------------------------------
(* ensure_reader.                                                           *)

At(a, pc) == app[a].pc = pc

\* Thread a goes to pc.
Goto(a, pc) == app' = [app EXCEPT ![a].pc = pc]

\* Begins a call: ensure_reader first, then pc.
Enter(a, pc, todo, sub) ==
  /\ At(a, "idle") /\ ops < MaxOps
  /\ ops' = ops + 1
  /\ app' = [app EXCEPT ![a] =
       [AtRest EXCEPT !.pc = "load", !.then = pc, !.todo = todo, !.sub = sub]]

LoadStop(a) ==
  /\ At(a, "load")
  /\ Goto(a, IF stop THEN app[a].then ELSE "swap")
  /\ UNCHANGED <<flags, state, asking, outbound, queue, writer, locks, reader,
                 ops, net, refused>>

SwapStarted(a) ==
  /\ At(a, "swap")
  /\ Goto(a, IF readerStarted THEN app[a].then ELSE "spawn")
  /\ readerStarted' = TRUE
  /\ UNCHANGED <<stop, initialized, handles, state, asking, outbound, queue,
                 writer, locks, reader, ops, net, refused>>

SpawnReader(a) ==
  /\ At(a, "spawn")
  /\ \E n \in Readers :
       /\ reader[n] = NotSpawned
       /\ \A m \in 1 .. n - 1 : reader[m] # NotSpawned
       /\ outbound' = n
       /\ reader' = [reader EXCEPT ![n].pc = "top"]
       /\ app' = [app EXCEPT ![a].pc = "track", ![a].own = {n}]
  /\ UNCHANGED <<flags, state, asking, queue, writer, locks, ops, net, refused>>

Track(a) ==
  /\ At(a, "track")
  /\ handles' = handles \cup app[a].own
  /\ app' = [app EXCEPT ![a].pc = app[a].then, ![a].own = {}]
  /\ UNCHANGED <<stop, initialized, readerStarted, state, asking, outbound,
                 queue, writer, locks, reader, ops, net, refused>>

-----------------------------------------------------------------------------
(* dispatch_frame: to the writer when there is one, else to the queue.      *)

\* Whether queue n still has its receiver.
Receives(n) == n # 0 /\ reader[n].pc \notin {"none", "gone"}

\* The queue a thread's frame goes to: the unsubscriber keeps its own.
QueueFor(a) ==
  IF Head(app[a].todo)[1] = "unsubscribe"
  THEN CHOOSE n \in app[a].own : TRUE ELSE outbound

\* Where a thread goes once the frame at the head of todo is dispatched.
\* ensure_pubuid lets go of its mutex after the publish; a request whose
\* frame was dispatched waits for its reply.
AfterDispatch(a, sent) ==
  LET frame == Head(app[a].todo)
      done == [app[a] EXCEPT !.todo = Tail(@)]
  IN /\ app' = [app EXCEPT ![a] =
          CASE Len(app[a].todo) > 1 -> [done EXCEPT !.pc = "write"]
            [] frame[1] = "subscribe" -> [done EXCEPT !.pc = "lock"]
            [] frame[1] = "request" /\ sent -> [done EXCEPT !.pc = "wait"]
            [] frame[1] = "request" /\ ~sent -> [done EXCEPT !.pc = "forget"]
            [] OTHER -> AtRest]
     /\ locks' = [locks EXCEPT !.pubuids = IF @ = a THEN Nobody ELSE @]

\* write_frame.
Write(a) ==
  /\ At(a, "write")
  /\ LET frame == Head(app[a].todo)
     IN \/ /\ writer = Nobody
           /\ Goto(a, "enqueue")
           /\ UNCHANGED <<writer, locks, net>>
        \/ /\ writer # Nobody
           /\ Accepted(writer, frame)
           /\ AfterDispatch(a, TRUE)
           /\ UNCHANGED writer
        \/ /\ writer # Nobody /\ conns[writer] = "dead"
           /\ writer' = Nobody
           /\ AfterDispatch(a, TRUE)
           /\ UNCHANGED net
  /\ UNCHANGED <<flags, state, asking, outbound, queue, reader, ops, refused>>

\* try_send: refused by a full queue, and by one nobody receives from.
Enqueue(a) ==
  /\ At(a, "enqueue")
  /\ LET frame == Head(app[a].todo)
         n == QueueFor(a)
     IN \/ /\ Receives(n) /\ Len(queue[n]) < QueueSize
           /\ queue' = [queue EXCEPT ![n] = Append(@, frame)]
           /\ AfterDispatch(a, TRUE)
           /\ UNCHANGED refused
        \/ /\ ~Receives(n) \/ Len(queue[n]) = QueueSize
           /\ refused' = IF frame[1] \in {"value", "request"} THEN refused
                         ELSE refused \cup {frame}
           /\ AfterDispatch(a, FALSE)
           /\ UNCHANGED queue
  /\ UNCHANGED <<flags, state, asking, outbound, writer, reader, ops, net>>

-----------------------------------------------------------------------------
(* The calls of an application thread.                                      *)

\* send_message.
Send(a, c) ==
  /\ Enter(a, "uid", <<ValueOf(c)>>, Nobody)
  /\ UNCHANGED <<flags, state, asking, outbound, queue, writer, locks, reader,
                 net, refused>>

\* mutant: not remembered
UidForgotten(a) ==
  LET c == Head(app[a].todo)[2]
  IN /\ At(a, "uid") /\ locks.pubuids = Nobody
     /\ IF c \in pubuids
        THEN /\ Goto(a, "write")
             /\ UNCHANGED <<pubuids, locks>>
        ELSE /\ pubuids' = pubuids \cup {c}
             /\ locks' = [locks EXCEPT !.pubuids = a]
             /\ app' = [app EXCEPT ![a].pc = "write",
                                   ![a].todo = <<Pub(c)>> \o @]
     /\ UNCHANGED <<flags, session, nextSubuid, clones, asking, outbound,
                    queue, writer, reader, ops, net, refused>>

\* ensure_pubuid_typed: the mutex is held until the publish is dispatched.
EnsurePubuid(a) ==
  LET c == Head(app[a].todo)[2]
  IN /\ At(a, "uid") /\ locks.pubuids = Nobody
     /\ IF c \in pubuids
        THEN /\ Goto(a, "write")
             /\ UNCHANGED <<pubuids, session, locks>>
        ELSE /\ pubuids' = pubuids \cup {c}
             /\ session' = session \cup {Pub(c)}
             /\ locks' = [locks EXCEPT !.pubuids = a]
             /\ app' = [app EXCEPT ![a].pc = "write",
                                   ![a].todo = <<Pub(c)>> \o @]
     /\ UNCHANGED <<flags, nextSubuid, clones, asking, outbound, queue,
                    writer, reader, ops, net, refused>>

\* subscribe, up to the frame it sends; it goes on to get the channel's value.
Subscribe(a) ==
  /\ nextSubuid < MaxSubs /\ nextRequest < MaxRequests
  /\ Enter(a, "remember", <<>>, nextSubuid)
  /\ nextSubuid' = nextSubuid + 1
  /\ UNCHANGED <<flags, session, pubuids, clones, asking, outbound, queue,
                 writer, locks, reader, net, refused>>

Remember(a) ==
  /\ At(a, "remember")
  /\ session' = session \cup {Subscr(app[a].sub)}
  /\ app' = [app EXCEPT ![a].pc = "write", ![a].todo = <<Subscr(app[a].sub)>>]
  /\ UNCHANGED <<flags, pubuids, nextSubuid, clones, asking, outbound, queue,
                 writer, locks, reader, ops, net, refused>>

\* The end of subscribe: unsubscriber clones the sender of the queue of now.
Unsubscriber(a) ==
  /\ At(a, "capture")
  /\ clones' = [clones EXCEPT ![app[a].sub] = outbound]
  /\ app' = [app EXCEPT ![a] = AtRest]
  /\ UNCHANGED <<flags, session, pubuids, nextSubuid, asking, outbound, queue,
                 writer, locks, reader, ops, net, refused>>

\* The closure unsubscriber returned.
Unsubscribe(a, u) ==
  /\ At(a, "idle") /\ ops < MaxOps
  /\ clones[u] # Nobody
  /\ clones' = [clones EXCEPT ![u] = Nobody]
  /\ session' = session \ {Subscr(u)}
  /\ ops' = ops + 1
  /\ app' = [app EXCEPT ![a] = [AtRest EXCEPT
       !.pc = "write", !.todo = <<Unsub(u)>>, !.own = {clones[u]}]]
  /\ UNCHANGED <<flags, pubuids, nextSubuid, asking, outbound, queue,
                 writer, locks, reader, net, refused>>

\* get, delete, tables, ping, statistics, raw_json, compare_and_set, get_logs:
\* each is one request.
Ask(a) ==
  /\ At(a, "idle") /\ ops < MaxOps /\ nextRequest < MaxRequests
  /\ ops' = ops + 1
  /\ Goto(a, "lock")
  /\ UNCHANGED <<flags, state, asking, outbound, queue, writer, locks, reader,
                 net, refused>>

LockRequest(a) ==
  /\ At(a, "lock") /\ locks.request = Nobody
  /\ locks' = [locks EXCEPT !.request = a]
  /\ app' = [app EXCEPT ![a].pc = "load", ![a].then = "request"]
  /\ UNCHANGED <<flags, state, asking, outbound, queue, writer, reader, ops,
                 net, refused>>

\* The id is taken and the request made the pending one.
StartRequest(a) ==
  /\ At(a, "request")
  /\ nextRequest' = nextRequest + 1
  /\ pending' = nextRequest + 1
  /\ app' = [app EXCEPT ![a].pc = "write", ![a].id = nextRequest + 1,
                        ![a].todo = <<Request(nextRequest + 1)>>]
  /\ UNCHANGED <<flags, state, outbound, queue, writer, locks, reader, ops,
                 net, refused>>

\* request returns: subscribe goes on, the other calls are over.
Return(a) ==
  /\ app' = [app EXCEPT ![a] =
       IF @.sub = Nobody THEN AtRest
       ELSE [AtRest EXCEPT !.pc = "capture", !.sub = app[a].sub]]
  /\ locks' = [locks EXCEPT !.request = Nobody]

Answered(a) ==
  /\ At(a, "wait") /\ app[a].got # 0
  /\ Return(a)
  /\ UNCHANGED <<flags, state, asking, outbound, queue, writer, reader, ops,
                 net, refused>>

\* request_timeout has passed, or the frame could not be dispatched.
GiveUp(a) ==
  /\ \/ At(a, "wait") /\ app[a].got = 0
     \/ At(a, "forget")
  /\ pending' = 0
  /\ Return(a)
  /\ UNCHANGED <<flags, state, nextRequest, outbound, queue, writer, reader,
                 ops, net, refused>>

\* start: the first call stores false, a later one swaps.
Start(a) ==
  /\ At(a, "idle") /\ ops < MaxOps
  /\ \E n \in Readers : reader[n] = NotSpawned
  /\ ops' = ops + 1
  /\ initialized' = TRUE
  /\ \/ /\ ~initialized
        /\ app' = [app EXCEPT ![a] = [AtRest EXCEPT !.pc = "unstop"]]
        /\ UNCHANGED stop
     \/ /\ initialized
        /\ stop' = FALSE
        /\ app' = [app EXCEPT ![a] =
             IF stop THEN [AtRest EXCEPT !.pc = "load"] ELSE AtRest]
  /\ UNCHANGED <<readerStarted, handles, state, asking, outbound, queue,
                 writer, locks, reader, net, refused>>

StoreUnstopped(a) ==
  /\ At(a, "unstop")
  /\ stop' = FALSE
  /\ Goto(a, "load")
  /\ UNCHANGED <<initialized, readerStarted, handles, state, asking, outbound,
                 queue, writer, locks, reader, ops, net, refused>>

\* stop: the flag, the handles, the joins, then reader_started.
Stop(a) ==
  /\ At(a, "idle") /\ ops < MaxOps
  /\ ops' = ops + 1
  /\ stop' = TRUE
  /\ Goto(a, "take")
  /\ UNCHANGED <<initialized, readerStarted, handles, state, asking, outbound,
                 queue, writer, locks, reader, net, refused>>

TakeHandles(a) ==
  /\ At(a, "take")
  /\ app' = [app EXCEPT ![a].pc = "join", ![a].own = handles]
  /\ handles' = {}
  /\ UNCHANGED <<stop, initialized, readerStarted, state, asking, outbound,
                 queue, writer, locks, reader, ops, net, refused>>

\* mutant: returns without joining
JoinNothing(a) ==
  /\ At(a, "join")
  /\ Goto(a, "clear")
  /\ UNCHANGED <<flags, state, asking, outbound, queue, writer, locks, reader,
                 ops, net, refused>>

Join(a) ==
  /\ At(a, "join")
  /\ \A n \in app[a].own : reader[n].pc = "gone"
  /\ Goto(a, "clear")
  /\ UNCHANGED <<flags, state, asking, outbound, queue, writer, locks, reader,
                 ops, net, refused>>

ClearStarted(a) ==
  /\ At(a, "clear")
  /\ readerStarted' = FALSE
  /\ app' = [app EXCEPT ![a] = AtRest]
  /\ UNCHANGED <<stop, initialized, handles, state, asking, outbound, queue,
                 writer, locks, reader, ops, net, refused>>

-----------------------------------------------------------------------------
(* reader_loop.                                                             *)

ReaderAt(n, pc) == reader[n].pc = pc
ReaderGoto(n, pc) == reader' = [reader EXCEPT ![n].pc = pc]

\* The reader lets go of its connection, and of the shared writer.
DropConnection(n) ==
  /\ writer' = Nobody
  /\ conns' = IF reader[n].conn = Nobody THEN conns
              ELSE [conns EXCEPT ![reader[n].conn] = "dead"]

Top(n) ==
  /\ ReaderAt(n, "top")
  /\ DropConnection(n)
  /\ reader' = [reader EXCEPT ![n] = [NotSpawned EXCEPT !.pc = "check"]]
  /\ UNCHANGED <<flags, state, asking, outbound, queue, app, locks, ops,
                 received, replies, executed, refused>>

\* mutant: looks before connecting only
CheckStopOnce(n) ==
  /\ \/ ReaderAt(n, "check") /\ ReaderGoto(n, IF stop THEN "exit" ELSE "connect")
     \/ ReaderAt(n, "loop") /\ ReaderGoto(n, "drain")
  /\ UNCHANGED <<flags, state, asking, outbound, queue, writer, app, locks,
                 ops, net, refused>>

\* Both looks at the stop flag: before connecting, and on every turn.
CheckStop(n) ==
  /\ \/ ReaderAt(n, "check") /\ ReaderGoto(n, IF stop THEN "exit" ELSE "connect")
     \/ ReaderAt(n, "loop") /\ ReaderGoto(n, IF stop THEN "exit" ELSE "drain")
  /\ UNCHANGED <<flags, state, asking, outbound, queue, writer, app, locks,
                 ops, net, refused>>

Connect(n) ==
  /\ ReaderAt(n, "connect")
  /\ Len(conns) < MaxConns
  /\ conns' = Append(conns, "up")
  /\ reader' = [reader EXCEPT ![n].pc = "replay", ![n].conn = Len(conns) + 1]
  /\ UNCHANGED <<flags, state, asking, outbound, queue, writer, app, locks,
                 ops, received, replies, executed, refused>>

\* No connection: what was queued meanwhile is dropped.
ConnectFails(n) ==
  /\ ReaderAt(n, "connect")
  /\ queue' = [queue EXCEPT ![n] = <<>>]
  /\ ReaderGoto(n, "top")
  /\ UNCHANGED <<flags, state, asking, outbound, writer, app, locks, ops, net,
                 refused>>

\* replay_session takes a copy of the session and sends its frames in any
\* order, the order of a HashMap.
ReplaySession(n) ==
  /\ ReaderAt(n, "replay")
  /\ reader' = [reader EXCEPT ![n].pc = "resend", ![n].frames = session]
  /\ refused' = {}
  /\ UNCHANGED <<flags, state, asking, outbound, queue, writer, app, locks,
                 ops, net>>

\* Where the reader's own frames go: ReadHalf flushes to the shared writer.
Socket(n) == IF writer = Nobody THEN reader[n].conn ELSE writer

Resend(n) ==
  /\ ReaderAt(n, "resend")
  /\ \/ /\ reader[n].frames = {}
        /\ ReaderGoto(n, "drain0")
        /\ UNCHANGED net
     \/ \E frame \in reader[n].frames :
          /\ Accepted(Socket(n), frame)
          /\ reader' = [reader EXCEPT ![n].frames = @ \ {frame}]
     \/ /\ reader[n].frames # {} /\ conns[Socket(n)] = "dead"
        /\ ReaderGoto(n, "top")
        /\ UNCHANGED net
  /\ UNCHANGED <<flags, state, asking, outbound, queue, writer, app, locks,
                 ops, refused>>

\* drain_outbound, once before the writer is shared and then on every turn.
Drain(n) ==
  /\ reader[n].pc \in {"drain0", "drain"}
  /\ \/ /\ queue[n] = <<>>
        /\ ReaderGoto(n, IF ReaderAt(n, "drain0") THEN "open" ELSE "read")
        /\ UNCHANGED <<queue, net>>
     \/ /\ queue[n] # <<>>
        /\ Accepted(Socket(n), Head(queue[n]))
        /\ queue' = [queue EXCEPT ![n] = Tail(@)]
        /\ UNCHANGED reader
     \/ /\ queue[n] # <<>> /\ conns[Socket(n)] = "dead"
        /\ queue' = [queue EXCEPT ![n] = Tail(@)]
        /\ ReaderGoto(n, "top")
        /\ UNCHANGED net
  /\ UNCHANGED <<flags, state, asking, outbound, writer, app, locks, ops,
                 refused>>

ShareWriter(n) ==
  /\ ReaderAt(n, "open")
  /\ writer' = reader[n].conn
  /\ ReaderGoto(n, "loop")
  /\ UNCHANGED <<flags, state, asking, outbound, queue, app, locks, ops, net,
                 refused>>

\* mutant: any reply answers the pending request
HandAnyReply(id) ==
  /\ pending' = 0
  /\ app' = IF pending = 0 THEN app
            ELSE [a \in App |-> IF app[a].id = pending
                                THEN [app[a] EXCEPT !.got = id] ELSE app[a]]

\* handle_binary, for a reply: given to the request it answers, if that one
\* still waits.
HandReply(id) ==
  IF id = pending
  THEN /\ pending' = 0
       /\ app' = [a \in App |-> IF app[a].id = id
                                THEN [app[a] EXCEPT !.got = id] ELSE app[a]]
  ELSE UNCHANGED <<pending, app>>

\* One read: a reply, nothing within the read timeout, or the end.
Read(n) ==
  LET k == reader[n].conn
  IN /\ ReaderAt(n, "read")
     /\ \/ /\ replies[k] # <<>>
           /\ HandReply(Head(replies[k]))
           /\ replies' = [replies EXCEPT ![k] = Tail(@)]
           /\ ReaderGoto(n, "loop")
        \/ /\ replies[k] = <<>> /\ conns[k] # "dead"
           /\ ReaderGoto(n, "loop")
           /\ UNCHANGED <<pending, app, replies>>
        \/ /\ conns[k] = "dead"
           /\ ReaderGoto(n, "top")
           /\ UNCHANGED <<pending, app, replies>>
     /\ UNCHANGED <<flags, state, nextRequest, outbound, queue, writer, locks,
                    ops, conns, received, executed, refused>>

Exit(n) ==
  /\ ReaderAt(n, "exit")
  /\ DropConnection(n)
  /\ ReaderGoto(n, "gone")
  /\ queue' = [queue EXCEPT ![n] = <<>>]
  /\ UNCHANGED <<flags, state, asking, outbound, app, locks, ops, received,
                 replies, executed, refused>>

-----------------------------------------------------------------------------
EnsureReader(a) == LoadStop(a) \/ SwapStarted(a) \/ SpawnReader(a) \/ Track(a)

\* The calls an application makes, and what they go on to do.
Call(a) ==
  \/ \E c \in Channel : Send(a, c)
  \/ Subscribe(a) \/ Ask(a) \/ Start(a) \/ Stop(a)
  \/ \E u \in Subuid : Unsubscribe(a, u)

InCall(a) ==
  \/ EnsureReader(a) \/ EnsurePubuid(a) \/ Remember(a) \/ Unsubscriber(a)
  \/ Write(a) \/ Enqueue(a)
  \/ LockRequest(a) \/ StartRequest(a) \/ Answered(a) \/ GiveUp(a)
  \/ StoreUnstopped(a) \/ TakeHandles(a) \/ Join(a) \/ ClearStarted(a)

ReaderLoop(n) ==
  \/ Top(n) \/ CheckStop(n) \/ Connect(n) \/ ConnectFails(n)
  \/ ReplaySession(n) \/ Resend(n) \/ Drain(n) \/ ShareWriter(n) \/ Read(n)
  \/ Exit(n)

Next ==
  \/ \E a \in App : Call(a) \/ InCall(a)
  \/ \E n \in Readers : ReaderLoop(n)
  \/ \E k \in 1 .. Len(conns) : Vanish(k) \/ Report(k)

Spec == Init /\ [][Next]_vars

\* Every thread keeps running, the socket reports a peer that has vanished,
\* and the server can be reached again and again.
FairSpec ==
  /\ Spec
  /\ \A a \in App : WF_vars(InCall(a))
  /\ \A n \in Readers : WF_vars(ReaderLoop(n)) /\ SF_vars(Connect(n))
  /\ \A k \in Conns : WF_vars(k <= Len(conns) /\ Report(k))

-----------------------------------------------------------------------------
Frames ==
  {Pub(c) : c \in Channel} \cup {Subscr(u) : u \in Subuid}
AllFrames ==
  Frames \cup {Unsub(u) : u \in Subuid} \cup {ValueOf(c) : c \in Channel}
         \cup {Request(id) : id \in 1 .. MaxRequests}

\* The readers that run.
Alive == {n \in Readers : reader[n].pc \notin {"none", "gone"}}

\* Nothing is under way: no call, no queued frame, and the reader is serving
\* a connection the server still holds.
Settled(n, k) ==
  /\ reader[n].pc \in {"loop", "read"} /\ reader[n].conn = k
  /\ conns[k] = "up"
  /\ \A a \in App : At(a, "idle")
  /\ queue[n] = <<>>

\* However sending, losing the connection, replaying and draining interleave,
\* once they settle the server has the publish of every channel with a uid and
\* every live subscription, but those that a queue refused (client.rs:376-377,
\* 612-613).
SessionReachesServer ==
  \A n \in Readers, k \in 1 .. Len(conns) :
    Settled(n, k) =>
      /\ \A c \in pubuids : Pub(c) \in received[k] \cup refused
      /\ \A u \in Subuid : clones[u] # Nobody => Subscr(u) \in received[k] \cup refused

\* One thread owns the connection ("The single connection owner",
\* reader.rs:142), also across stop and start by one application thread.
OneReader == Cardinality(Alive) <= 1

\* A request is answered by its own reply, never by the late reply of one that
\* timed out, also when both were sent on different connections.
OwnReply == \A a \in App : app[a].got # 0 => app[a].got = app[a].id

\* No request is executed twice, by replay or by a retry: a delete or a
\* compare_and_set is not idempotent.
ExecutedOnce == \A i, j \in 1 .. Len(executed) : executed[i] = executed[j] => i = j

\* A caller that gets an answer knows what happened: its own request, and that
\* one once.
AnsweredOnce == OwnReply /\ ExecutedOnce

\* stop returns: the threads it joins end.
StopReturns == \A a \in App : At(a, "join") ~> At(a, "idle")
=============================================================================
