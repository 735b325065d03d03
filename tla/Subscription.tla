---------------------------- MODULE Subscription ----------------------------
(***************************************************************************)
(* Subscriptions of one client to one channel (client/src/client.rs,       *)
(* listeners.rs, reader.rs, ffi.rs and the callbacks of bindings/c):       *)
(* application threads that subscribe and cancel, the reader thread that   *)
(* fans values out, and the server's threads that send them.               *)
(*                                                                         *)
(* Each lock region of the code is one step, and so is the start and the   *)
(* return of a callback.  Values are numbered as the server stores them.   *)
(* The connection is up throughout: Session models its loss.               *)
(***************************************************************************)
EXTENDS Integers, Sequences, FiniteSets

CONSTANTS
  Sub,        \* calls of TarwynClient::subscribe, each on a thread of its own
  Earlier,    \* a subscription that may hold the channel's key from before
  Publisher,  \* connections of other clients that publish the channel
  Cached,     \* the subscriptions made by subscribe_cached
  Depth,      \* depth of their queues
  MaxValues,  \* bound: values published
  NoValue     \* no value

ASSUME SubscriptionAssumption ==
  /\ Cached \subseteq Sub
  /\ Earlier \notin Sub
  /\ Depth \in Nat \ {0}
  /\ MaxValues \in Nat
  /\ NoValue \notin Nat \cup Sub
  /\ "reader" \notin Sub

VARIABLES
  value,      \* server: the last value stored, and so its number
  exists,     \* server: the topic is published
  fed,        \* server: the subscriptions it has for this client
  announced,  \* server: the topic was announced to this client
  hand,       \* server: the frames each connection thread has yet to dispatch
  order,      \* server: threads holding registry frames, oldest first
  overtaken,  \* history: such frames were dispatched out of that order
  upstream,   \* frames from the client to the server
  inbox       \* frames from the server to the client

VARIABLES
  named,      \* the client's topic_names holds the topic
  listeners,  \* data_listeners: the subscriptions in the channel's slot map
  gate,       \* BufferedListener.pending, or Open once it is None
  batch,      \* what open() took from the buffer and has yet to replay
  pending,    \* the subscription whose `get` is pending, or NoValue
  lock,       \* the holder of request_lock, or NoValue
  got,        \* what each subscription's `get` returned
  pc,         \* where each subscribe call is
  cancels,    \* ffi: the subscription registered under the channel's key
  rd,         \* the reader: the value in hand, the Arcs it cloned, its call
  running,    \* the threads inside each subscription's callback
  heard,      \* the value each callback was last started with
  released,   \* how often each callback's context was dropped
  queue       \* CachedSubscriber.values

server == <<value, exists, fed, announced, hand, order, overtaken>>
wire == <<upstream, inbox>>
client == <<named, listeners, gate, batch, pending, lock, got, pc, cancels, rd,
            running, heard, released, queue>>
vars == <<server, wire, client>>

Open == <<NoValue>>     \* BufferedListener.pending is None
Idle == [value |-> NoValue, todo |-> {}, call |-> NoValue]
Conn == "conn"          \* the server's thread for this client
Thread == Publisher \cup {Conn}
Values == 1 .. MaxValues

Init ==
  /\ value = 0 /\ exists = FALSE /\ fed = {} /\ announced = FALSE
  /\ hand = [t \in Thread |-> <<>>] /\ order = <<>> /\ overtaken = FALSE
  /\ upstream = <<>> /\ inbox = <<>>
  /\ named = FALSE /\ listeners = {}
  /\ gate = [s \in Sub |-> <<>>] /\ batch = [s \in Sub |-> <<>>]
  /\ pending = NoValue /\ lock = NoValue
  /\ got = [s \in Sub |-> NoValue]
  /\ pc = [s \in Sub |-> "idle"]
  /\ cancels \in {NoValue, Earlier} /\ rd = Idle
  /\ running = [s \in Sub |-> {}]
  /\ heard = [s \in Sub |-> NoValue]
  /\ released = [s \in Sub |-> 0]
  /\ queue = [s \in Sub |-> <<>>]

-----------------------------------------------------------------------------
(* The server.  A handler computes its frames under the registry's lock;   *)
(* the thread dispatches them after it let the lock go.                    *)

Announce == <<"announce">>
ValueFrame(v) == <<"value", v>>
ReplyFrame(s, v) == <<"reply", s, v>>

\* The thread leaves the registry with `frames` to dispatch.
Holding(t, frames) ==
  /\ hand[t] = <<>>
  /\ hand' = [hand EXCEPT ![t] = frames]
  /\ order' = IF frames = <<>> THEN order ELSE Append(order, t)

\* Another client publishes the topic: route_control, then handle_publish
ServerPublish(p) ==
  /\ ~exists
  /\ exists' = TRUE
  /\ Holding(p, IF fed # {} THEN <<Announce>> ELSE <<>>)
  /\ announced' = (fed # {})
  /\ UNCHANGED <<value, fed, overtaken, wire, client>>

\* ... and sends a value on it: route_binary, which stores and mirrors it
ServerValue(p) ==
  /\ exists
  /\ value < MaxValues
  /\ value' = value + 1
  /\ Holding(p, IF fed # {} THEN <<ValueFrame(value + 1)>> ELSE <<>>)
  /\ UNCHANGED <<exists, fed, announced, overtaken, wire, client>>

\* A subscribe of this client: announce once, then the retained value
ServerSubscribe ==
  /\ upstream # <<>> /\ Head(upstream)[1] = "subscribe"
  /\ fed' = fed \cup {Head(upstream)[2]}
  /\ announced' = exists
  /\ Holding(Conn, (IF exists /\ ~announced THEN <<Announce>> ELSE <<>>)
                     \o (IF value > 0 THEN <<ValueFrame(value)>> ELSE <<>>))
  /\ upstream' = Tail(upstream)
  /\ UNCHANGED <<value, exists, overtaken, inbox, client>>

\* An unsubscribe of this client
ServerUnsubscribe ==
  /\ upstream # <<>> /\ Head(upstream)[1] = "unsubscribe"
  /\ fed' = fed \ {Head(upstream)[2]}
  /\ Holding(Conn, <<>>)
  /\ upstream' = Tail(upstream)
  /\ UNCHANGED <<value, exists, announced, overtaken, inbox, client>>

\* A read of the channel: the control handler looks in the read cache only
ServerGet ==
  /\ hand[Conn] = <<>>
  /\ upstream # <<>> /\ Head(upstream)[1] = "get"
  /\ hand' = [hand EXCEPT ![Conn] =
       <<ReplyFrame(Head(upstream)[2], IF value > 0 THEN value ELSE NoValue)>>]
  /\ upstream' = Tail(upstream)
  /\ UNCHANGED <<value, exists, fed, announced, order, overtaken, inbox, client>>

\* serve_connection dispatches what its handler returned
Dispatch(t) ==
  /\ hand[t] # <<>>
  /\ inbox' = inbox \o hand[t]
  /\ hand' = [hand EXCEPT ![t] = <<>>]
  /\ order' = SelectSeq(order, LAMBDA u : u # t)
  /\ overtaken' = (overtaken \/ \E i \in DOMAIN order : order[i] = t /\ i > 1)
  /\ UNCHANGED <<value, exists, fed, announced, upstream, client>>

-----------------------------------------------------------------------------
(* Callbacks.  Thread t starts and leaves the callback of s; a callback of *)
(* subscribe_cached pushes the value on its bounded queue.                 *)

\* The callback of subscribe_cached
PushCached(q, v) ==
  Append(IF Len(q) = Depth THEN Tail(q) ELSE q, v)

StartCallback(t, s, v) ==
  /\ running' = [running EXCEPT ![s] = @ \cup {t}]
  /\ heard' = [heard EXCEPT ![s] = v]
  /\ queue' = IF s \in Cached THEN [queue EXCEPT ![s] = PushCached(@, v)]
              ELSE queue

FinishCallback(t, s) == running' = [running EXCEPT ![s] = @ \ {t}]

\* Who still owns an Arc of the listener: the slot map, the call of subscribe,
\* the reader's clones.  The last to let go drops the callback's context.
Owners(s, slots, where, reader) ==
  (IF s \in slots THEN {"slot"} ELSE {})
    \cup (IF where \in {"idle", "register", "subscribed", "unsubscribe",
                        "remove", "ended"} THEN {} ELSE {"call"})
    \cup (IF s \in reader.todo \/ s = reader.call THEN {"reader"} ELSE {})

\* Foreign::drop, for the listeners this step leaves without an owner
ReleaseUnowned ==
  released' = [s \in Sub |->
    IF /\ Owners(s, listeners, pc[s], rd) # {}
       /\ Owners(s, listeners', pc'[s], rd') = {}
    THEN released[s] + 1 ELSE released[s]]

-----------------------------------------------------------------------------
(* Client::subscribe.                                                      *)

Goto(s, where) == pc' = [pc EXCEPT ![s] = where]

\* The frame is remembered for replay, and dispatched
Subscribe(s) ==
  /\ pc[s] = "idle"
  /\ upstream' = Append(upstream, <<"subscribe", s>>)
  /\ Goto(s, "insert")
  /\ UNCHANGED <<server, inbox, named, listeners, gate, batch, pending, lock,
                 got, cancels, rd, running, heard, released, queue>>

\* The listener goes into the channel's slot map
InsertListener(s) ==
  /\ pc[s] = "insert"
  /\ listeners' = listeners \cup {s}
  /\ Goto(s, "get")
  /\ UNCHANGED <<server, wire, named, gate, batch, pending, lock, got, cancels,
                 rd, running, heard, released, queue>>

\* Client::get: under request_lock, the request becomes the pending one
Get(s) ==
  /\ pc[s] = "get"
  /\ lock = NoValue
  /\ lock' = s
  /\ pending' = s
  /\ upstream' = Append(upstream, <<"get", s>>)
  /\ Goto(s, "wait")
  /\ UNCHANGED <<server, inbox, named, listeners, gate, batch, got, cancels, rd,
                 running, heard, released, queue>>

\* The reply came through the channel (the reader cleared `pending`) ...
GetAnswered(s) ==
  /\ pc[s] = "wait"
  /\ pending # s
  /\ lock' = NoValue
  /\ Goto(s, IF got[s] = NoValue THEN "open" ELSE "snapshot")
  /\ UNCHANGED <<server, wire, named, listeners, gate, batch, pending, got,
                 cancels, rd, running, heard, released, queue>>

\* ... or recv_timeout gave up on it
GetTimesOut(s) ==
  /\ pc[s] = "wait"
  /\ pending = s
  /\ pending' = NoValue
  /\ lock' = NoValue
  /\ Goto(s, "open")
  /\ UNCHANGED <<server, wire, named, listeners, gate, batch, got, cancels, rd,
                 running, heard, released, queue>>

\* BufferedListener::call: the snapshot bypasses the buffer
CallSnapshot(s) ==
  /\ pc[s] = "snapshot"
  /\ IF s \in running[s]
     THEN /\ FinishCallback(s, s)
          /\ Goto(s, "open")
          /\ UNCHANGED <<heard, queue>>
     ELSE /\ StartCallback(s, s, got[s])
          /\ UNCHANGED pc
  /\ UNCHANGED <<server, wire, named, listeners, gate, batch, pending, lock,
                 got, cancels, rd, released>>

OpenAtOnce(s) ==  \* mutant: the gate opens before its batch was replayed
  /\ pc[s] = "open"
  /\ batch' = [batch EXCEPT ![s] = IF gate[s] = Open THEN <<>> ELSE gate[s]]
  /\ gate' = [gate EXCEPT ![s] = Open]
  /\ Goto(s, IF gate[s] \in {Open, <<>>} THEN "register" ELSE "replay")
  /\ UNCHANGED <<server, wire, named, listeners, pending, lock, got, cancels, rd,
                 running, heard, queue>>
  /\ ReleaseUnowned
OpenDropping(s) ==  \* mutant: what was buffered is forgotten
  /\ pc[s] = "open"
  /\ gate' = [gate EXCEPT ![s] = Open]
  /\ Goto(s, "register")
  /\ UNCHANGED <<server, wire, named, listeners, batch, pending, lock, got,
                 cancels, rd, running, heard, queue>>
  /\ ReleaseUnowned

\* BufferedListener::open, under the lock: open an empty buffer, take a full one
OpenGate(s) ==
  /\ pc[s] = "open"
  /\ IF gate[s] \in {<<>>, Open}
     THEN /\ gate' = [gate EXCEPT ![s] = Open]
          /\ Goto(s, "register")
          /\ UNCHANGED batch
     ELSE /\ batch' = [batch EXCEPT ![s] = gate[s]]
          /\ gate' = [gate EXCEPT ![s] = <<>>]
          /\ Goto(s, "replay")
  /\ UNCHANGED <<server, wire, named, listeners, pending, lock, got, cancels, rd,
                 running, heard, queue>>
  /\ ReleaseUnowned

\* ... and replay it outside the lock, then look again
Replay(s) ==
  /\ pc[s] = "replay"
  /\ IF s \in running[s]
     THEN /\ FinishCallback(s, s)
          /\ Goto(s, IF batch[s] = <<>> THEN "open" ELSE "replay")
          /\ UNCHANGED <<heard, queue, batch>>
     ELSE /\ StartCallback(s, s, Head(batch[s]))
          /\ batch' = [batch EXCEPT ![s] = Tail(@)]
          /\ UNCHANGED pc
  /\ UNCHANGED <<server, wire, named, listeners, gate, pending, lock, got,
                 cancels, rd, released>>

\* TarwynClient::register: the key is taken, or the new subscription cancelled
Register(s) ==
  /\ pc[s] = "register"
  /\ IF cancels = NoValue
     THEN cancels' = s /\ Goto(s, "subscribed")
     ELSE UNCHANGED cancels /\ Goto(s, "unsubscribe")
  /\ UNCHANGED <<server, wire, named, listeners, gate, batch, pending, lock,
                 got, rd, running, heard, released, queue>>

\* TarwynClient::cancel: the closure leaves the table, then runs
Cancel(s) ==
  /\ cancels = s
  /\ cancels' = NoValue
  /\ Goto(s, "unsubscribe")
  /\ UNCHANGED <<server, wire, named, listeners, gate, batch, pending, lock,
                 got, rd, running, heard, released, queue>>

CancelEarlier ==
  /\ cancels = Earlier
  /\ cancels' = NoValue
  /\ UNCHANGED <<server, wire, named, listeners, gate, batch, pending, lock,
                 got, pc, rd, running, heard, released, queue>>

\* Client::unsubscriber: the server is told
Unsubscribe(s) ==
  /\ pc[s] = "unsubscribe"
  /\ upstream' = Append(upstream, <<"unsubscribe", s>>)
  /\ Goto(s, "remove")
  /\ UNCHANGED <<server, inbox, named, listeners, gate, batch, pending, lock,
                 got, cancels, rd, running, heard, released, queue>>

RemoveNothing(s) ==  \* mutant: the slot is kept
  /\ pc[s] = "remove"
  /\ Goto(s, "ended")
  /\ UNCHANGED <<server, wire, named, listeners, gate, batch, pending, lock, got,
                 cancels, rd, running, heard, released, queue>>

\* ... and the listener leaves the slot map
RemoveListener(s) ==
  /\ pc[s] = "remove"
  /\ listeners' = listeners \ {s}
  /\ Goto(s, "ended")
  /\ UNCHANGED <<server, wire, named, gate, batch, pending, lock, got, cancels,
                 rd, running, heard, queue>>
  /\ ReleaseUnowned

\* CachedSubscriber::read_all
ReadAll(s) ==
  /\ queue[s] # <<>>
  /\ queue' = [queue EXCEPT ![s] = <<>>]
  /\ UNCHANGED <<server, wire, named, listeners, gate, batch, pending, lock,
                 got, pc, cancels, rd, running, heard, released>>

-----------------------------------------------------------------------------
(* The reader thread.                                                      *)

\* handle_text: the announcement fills topic_names in
ReadAnnounce ==
  /\ rd = Idle
  /\ inbox # <<>> /\ Head(inbox) = Announce
  /\ named' = TRUE
  /\ inbox' = Tail(inbox)
  /\ UNCHANGED <<server, upstream, listeners, gate, batch, pending, lock, got,
                 pc, cancels, rd, running, heard, released, queue>>

\* handle_binary of a reply: only the pending request's is handed over
ReadReply ==
  /\ rd = Idle
  /\ inbox # <<>> /\ Head(inbox)[1] = "reply"
  /\ LET s == Head(inbox)[2]
     IN  IF pending = s
         THEN /\ pending' = NoValue
              /\ got' = [got EXCEPT ![s] = Head(inbox)[3]]
         ELSE UNCHANGED <<pending, got>>
  /\ inbox' = Tail(inbox)
  /\ UNCHANGED <<server, upstream, named, listeners, gate, batch, lock, pc,
                 cancels, rd, running, heard, released, queue>>

\* fan_out_value: an unknown topic is dropped, else the listeners are cloned
ReadValue ==
  /\ rd = Idle
  /\ inbox # <<>> /\ Head(inbox)[1] = "value"
  /\ rd' = IF named /\ listeners # {}
           THEN [Idle EXCEPT !.value = Head(inbox)[2], !.todo = listeners]
           ELSE Idle
  /\ inbox' = Tail(inbox)
  /\ UNCHANGED <<server, upstream, named, listeners, gate, batch, pending, lock,
                 got, pc, cancels, running, heard, released, queue>>

\* The reader with one listener of its clones behind it
Past(r, s) ==
  LET left == r.todo \ {s}
  IN  IF left = {} THEN Idle ELSE [r EXCEPT !.todo = left, !.call = NoValue]

DeliverDirectly(s) ==  \* mutant: the gate is not looked at
  /\ s \in rd.todo /\ rd.call = NoValue
  /\ rd' = [rd EXCEPT !.todo = @ \ {s}, !.call = s]
  /\ UNCHANGED gate
  /\ UNCHANGED <<server, wire, named, listeners, batch, pending, lock, got, pc,
                 cancels, running, heard, queue>>
  /\ ReleaseUnowned

\* BufferedListener::deliver: buffered while the gate is closed
Deliver(s) ==
  /\ s \in rd.todo /\ rd.call = NoValue
  /\ IF gate[s] = Open
     THEN /\ rd' = [rd EXCEPT !.todo = @ \ {s}, !.call = s]
          /\ UNCHANGED gate
     ELSE /\ gate' = [gate EXCEPT ![s] = Append(@, rd.value)]
          /\ rd' = Past(rd, s)
  /\ UNCHANGED <<server, wire, named, listeners, batch, pending, lock, got, pc,
                 cancels, running, heard, queue>>
  /\ ReleaseUnowned

\* ... and called once it is open
ReaderCalls(s) ==
  /\ rd.call = s
  /\ IF "reader" \in running[s]
     THEN /\ FinishCallback("reader", s)
          /\ rd' = Past(rd, s)
          /\ UNCHANGED <<heard, queue>>
     ELSE /\ StartCallback("reader", s, rd.value)
          /\ UNCHANGED rd
  /\ UNCHANGED <<server, wire, named, listeners, gate, batch, pending, lock,
                 got, pc, cancels>>
  /\ ReleaseUnowned

-----------------------------------------------------------------------------

ServerConn == ServerSubscribe \/ ServerUnsubscribe \/ ServerGet \/ Dispatch(Conn)

InSubscribe(s) ==
  \/ InsertListener(s) \/ Get(s) \/ GetAnswered(s) \/ CallSnapshot(s)
  \/ OpenGate(s) \/ Replay(s) \/ Register(s) \/ Unsubscribe(s)
  \/ RemoveListener(s)

Reader ==
  \/ ReadAnnounce \/ ReadReply \/ ReadValue
  \/ \E s \in Sub : Deliver(s) \/ ReaderCalls(s)

Next ==
  \/ \E p \in Publisher : ServerPublish(p) \/ ServerValue(p) \/ Dispatch(p)
  \/ ServerConn
  \/ \E s \in Sub : \/ Subscribe(s) \/ InSubscribe(s) \/ GetTimesOut(s)
                     \/ Cancel(s) \/ ReadAll(s)
  \/ CancelEarlier
  \/ Reader

Spec == Init /\ [][Next]_vars

\* Threads run, the server's and the client's, and callbacks return.  Nobody
\* has to publish, subscribe, cancel or poll, and a `get` may not time out.
FairSpec ==
  /\ Spec
  /\ WF_vars(ServerConn)
  /\ \A p \in Publisher : WF_vars(Dispatch(p))
  /\ \A s \in Sub : WF_vars(InSubscribe(s))
  /\ WF_vars(Reader)

-----------------------------------------------------------------------------
(* Properties.                                                             *)

\* The values handed to a listener that its callback was not yet started with.
Due == [s \in Sub |->
  batch[s] \o (IF gate[s] = Open THEN <<>> ELSE gate[s])
    \o (IF rd.call = s /\ "reader" \notin running[s] THEN <<rd.value>> ELSE <<>>)]

Abstract == INSTANCE Listener WITH Value <- Values, due <- Due

\* BufferedListener, shared by the thread that subscribes and the reader, keeps
\* the promise of module Listener: the snapshot first, then each value handed
\* over, once and in order, and none of them forgotten.
ListenerPromise == Abstract!Promise

\* A subscription's callback never runs on two threads at once, though the
\* subscribing thread and the reader both call it (listeners.rs, open).
NeverTwoCalls == \A s \in Sub : Cardinality(running[s]) <= 1

\* The context of a callback is released at most once, never while the callback
\* runs and never while a thread may still call it (bindings/c, Foreign).
ReleasedOnceUnused ==
  \A s \in Sub :
    /\ released[s] <= 1
    /\ released[s] = 1 => /\ running[s] = {}
                          /\ s \notin listeners \cup rd.todo
                          /\ rd.call # s

\* A subscription that ended has its context released in the end, whichever
\* thread was the last to hold the listener.
EndedIsReleased == \A s \in Sub : (pc[s] = "ended") ~> (released[s] = 1)

\* The destructor of a foreign context runs exactly once, when nothing can use
\* the context any more (client/src/ffi.rs and Foreign's drop in the C ABI).
ReleasedExactlyOnce == []ReleasedOnceUnused /\ EndedIsReleased

Quiet ==
  /\ \A t \in Thread : hand[t] = <<>>
  /\ upstream = <<>> /\ inbox = <<>> /\ rd = Idle

Settled(s) == Quiet /\ pc[s] = "subscribed" /\ got[s] # NoValue

\* Once nothing is on its way, a subscription that got its snapshot has last
\* heard the server's value, unless the server's threads dispatched the
\* channel's frames in another order than they computed them; and a cached
\* subscriber's newest entry is that value, with no more entries than its depth.
SettlesOnLatest ==
  \A s \in Sub :
    /\ Settled(s) /\ ~overtaken => heard[s] = value
    /\ s \in Cached /\ queue[s] # <<>> =>
         Len(queue[s]) <= Depth /\ queue[s][Len(queue[s])] = heard[s]

\* "Nothing is missed, but a value may arrive twice" (client.rs, subscribe):
\* once nothing is on its way, the subscription has heard the server's value.
NothingIsMissed == \A s \in Sub : Settled(s) => heard[s] = value

=============================================================================
