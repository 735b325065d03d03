----------------------------- MODULE Transport -----------------------------
(***************************************************************************)
(* The outbound path of one client (core/src/websocket/transport.rs and    *)
(* the threads of spawn_connection in server.rs): threads that dispatch    *)
(* frames write values inline when they get the writer's lock and nothing  *)
(* is queued, and queue everything else for the writer thread.             *)
(*                                                                         *)
(* A step is one atomic access of the code: to the lock, to the counter    *)
(* `queued`, to the channel, or to the socket while the lock is held.      *)
(***************************************************************************)
EXTENDS Integers, Sequences, FiniteSets, Functions

CONSTANTS
  Sender,     \* threads that dispatch frames to this client
  Reader,     \* the client's own connection thread, one of Sender
  Jobs,       \* what one dispatch may carry: sequences of "value" and "text"
  Nobody,     \* no holder of the lock
  Capacity,   \* PUB_HIGH_WATER_MARK
  MaxBatch,   \* MAX_BATCH_BYTES, in values
  MaxFrames   \* bound: frames dispatched to the client

ASSUME TransportAssumption ==
  /\ IsFiniteSet(Sender)
  /\ Jobs \subseteq Seq({"value", "text"})
  /\ Reader \in Sender
  /\ Nobody \notin Sender \cup {"writer"}
  /\ "writer" \notin Sender
  /\ Capacity \in Nat \ {0}
  /\ MaxBatch \in Nat \ {0}
  /\ MaxFrames \in Nat

VARIABLES
  out,        \* the WebsocketWriter: frames sent, the batch, closed or not
  lock,       \* who holds the Mutex<WebsocketWriter>
  queue,      \* the channel
  queued,     \* the counter shared by the senders and the writer thread
  dropped,    \* the dropped-publish counter
  pc,         \* where each sender is in deliver_all or enqueue
  job,        \* the frames each sender has yet to place
  lost,       \* the frames each sender's current dispatch could not queue
  wpc,        \* where the writer thread is
  hand,       \* the frames the writer thread took off the channel
  conn,       \* the connection thread: connecting, serving, closing, gone, joined
  stalled,    \* the peer no longer reads, so writes time out
  failed,     \* a write has failed
  sent        \* history: the kinds of all frames dispatched so far

sendVars == <<pc, job, lost, dropped>>
envVars == <<conn, stalled, sent>>
vars == <<out, lock, queue, queued, dropped, pc, job, lost, wpc, hand, conn,
          stalled, failed, sent>>

-----------------------------------------------------------------------------
(* The WebsocketWriter.  A call returns a set of possible results: whether  *)
(* it succeeded, and the writer afterwards.                                *)

\* tungstenite's send: it fails after a close frame, and may time out when the
\* peer has stalled.
Send(o, fs) ==
  (IF o.closed THEN {}
   ELSE {[ok |-> TRUE, out |-> [o EXCEPT !.wire = @ \o fs]]})
  \cup (IF stalled \/ o.closed THEN {[ok |-> FALSE, out |-> o]} ELSE {})

\* WebsocketWriter::flush, which clears the batch before it sends it
Flush(o) ==
  IF o.batch = <<>> THEN {[ok |-> TRUE, out |-> o]}
  ELSE Send([o EXCEPT !.batch = <<>>], o.batch)

FlushThenSend(o, f) ==
  UNION {IF r.ok THEN Send(r.out, <<f>>) ELSE {r} : r \in Flush(o)}

WriteBatched(o, f) == [o EXCEPT !.batch = Append(@, f)]

\* write_one; a close frame ends the writer thread as an error does
WriteOne(o, f) ==
  CASE f.kind = "value" -> {[ok |-> TRUE, out |-> WriteBatched(o, f)]}
    [] f.kind \in {"text", "raw"} -> FlushThenSend(o, f)
    [] f.kind = "close" ->
         {[ok |-> FALSE, out |-> [r.out EXCEPT !.closed = r.ok \/ @]] :
            r \in FlushThenSend(o, f)}

\* A batch that has grown to MAX_BATCH_BYTES is flushed.
FlushIfFull(o) ==
  IF Len(o.batch) >= MaxBatch THEN Flush(o) ELSE {[ok |-> TRUE, out |-> o]}

\* A write has failed unless it succeeded or the connection was being closed.
Note(r) == failed' = (failed \/ ~(r.ok \/ r.out.closed))

-----------------------------------------------------------------------------
(* Dispatching threads: Client::deliver_all and Client::enqueue.           *)

Numbers(fs) == {f.n : f \in Range(fs)}

\* Frames that some sender has yet to place in the batch or the queue
Unplaced == UNION {Numbers(job[s]) : s \in Sender}

\* The frames of a dispatch, each with the frames it must not overtake: those
\* already placed and the earlier ones of its own dispatch.
NewFrames(kinds) ==
  [i \in DOMAIN kinds |->
     [kind |-> kinds[i], n |-> Len(sent) + i,
      after |-> (1 .. Len(sent) + i - 1) \ Unplaced]]

Take(s, kinds, at) ==
  /\ pc[s] = "idle"
  /\ Len(sent) + Len(kinds) <= MaxFrames
  /\ job' = [job EXCEPT ![s] = NewFrames(kinds)]
  /\ pc' = [pc EXCEPT ![s] = at]
  /\ sent' = sent \o kinds
  /\ UNCHANGED <<out, lock, queue, queued, dropped, lost, wpc, hand, stalled,
                 failed>>

\* ConnectionMap::plan finds the client and deliver_all starts.
Dispatch(s, kinds) ==
  /\ conn \notin {"gone", "joined"}
  /\ s = Reader => conn \in {"connecting", "serving"}
  /\ Take(s, kinds, "lock")
  /\ UNCHANGED conn

\* The emit closure of spawn_connection: the reader queues a pong.
EmitRaw ==
  /\ conn = "serving"
  /\ Take(Reader, <<"raw">>, "place")
  /\ UNCHANGED conn

\* ConnectionMap::send_close, after a malformed payload
SendClose ==
  /\ conn = "serving"
  /\ Take(Reader, <<"close">>, "place")
  /\ conn' = "closing"

\* deliver_all's try_lock
TryLock(s) ==
  /\ pc[s] = "lock"
  /\ IF lock = Nobody
     THEN lock' = s /\ pc' = [pc EXCEPT ![s] = "load"]
     ELSE UNCHANGED lock /\ pc' = [pc EXCEPT ![s] = "place"]
  /\ UNCHANGED <<out, queue, queued, dropped, job, lost, wpc, hand, failed,
                 envVars>>

LoadIgnored(s) ==  \* mutant: the backlog is not looked at
  /\ pc[s] = "load"
  /\ UNCHANGED lock
  /\ pc' = [pc EXCEPT ![s] = "place"]
  /\ UNCHANGED <<out, queue, queued, dropped, job, lost, wpc, hand, failed,
                 envVars>>

\* The load of `queued` in the guard: the lock is kept only without a backlog.
Load(s) ==
  /\ pc[s] = "load"
  /\ lock' = IF queued = 0 THEN s ELSE Nobody
  /\ pc' = [pc EXCEPT ![s] = "place"]
  /\ UNCHANGED <<out, queue, queued, dropped, job, lost, wpc, hand, failed,
                 envVars>>

Places(s) == pc[s] = "place" /\ job[s] # <<>>

\* deliver_all returns: the lock is released, deliver adds up the drops.
Return(s) ==
  /\ lock' = IF lock = s THEN Nobody ELSE lock
  /\ pc' = [pc EXCEPT ![s] = "idle"]
  /\ job' = [job EXCEPT ![s] = <<>>]
  /\ lost' = [lost EXCEPT ![s] = {}]
  /\ dropped' = dropped + Cardinality(lost[s])

\* A write by a sender: on an error it returns early, the rest of its frames
\* neither sent nor counted.
Try(s, results, onSuccess) ==
  \E r \in results :
    /\ out' = r.out
    /\ Note(r)
    /\ IF r.ok THEN onSuccess ELSE Return(s)

\* A value, with the lock: into the batch, which is flushed when full.
PlaceInline(s) ==
  /\ Places(s)
  /\ lock = s
  /\ Head(job[s]).kind = "value"
  /\ Try(s, FlushIfFull(WriteBatched(out, Head(job[s]))),
         /\ job' = [job EXCEPT ![s] = Tail(@)]
         /\ UNCHANGED <<lock, pc, lost, dropped>>)
  /\ UNCHANGED <<queue, queued, wpc, hand, envVars>>

\* A control message, with the lock: the batch goes out and the lock with it.
Unlock(s) ==
  /\ Places(s)
  /\ lock = s
  /\ Head(job[s]).kind = "text"
  /\ Try(s, Flush(out), lock' = Nobody /\ UNCHANGED sendVars)
  /\ UNCHANGED <<queue, queued, wpc, hand, envVars>>

\* Without the lock: enqueue's fetch_add.
Count(s) ==
  /\ Places(s)
  /\ lock # s
  /\ queued' = queued + 1
  /\ pc' = [pc EXCEPT ![s] = "send"]
  /\ UNCHANGED <<out, lock, queue, dropped, job, lost, wpc, hand, failed,
                 envVars>>

\* enqueue's try_send, which fails when the channel is full or the writer
\* thread has ended
TrySend(s) ==
  /\ pc[s] = "send"
  /\ IF wpc # "ended" /\ Len(queue) < Capacity
     THEN /\ queue' = Append(queue, Head(job[s]))
          /\ job' = [job EXCEPT ![s] = Tail(@)]
          /\ pc' = [pc EXCEPT ![s] = "place"]
     ELSE /\ pc' = [pc EXCEPT ![s] = "undo"]
          /\ UNCHANGED <<queue, job>>
  /\ UNCHANGED <<out, lock, queued, dropped, lost, wpc, hand, failed, envVars>>

UndoKeepingCount(s) ==  \* mutant: the failed send stays in `queued`
  /\ pc[s] = "undo"
  /\ job' = [job EXCEPT ![s] = Tail(@)]
  /\ lost' = [lost EXCEPT ![s] = @ \cup {Head(job[s]).n}]
  /\ pc' = [pc EXCEPT ![s] = "place"]
  /\ UNCHANGED <<out, lock, queue, queued, dropped, wpc, hand, failed, envVars>>

\* enqueue's fetch_sub.  deliver_all counts the frame as dropped; the reader's
\* own pongs and closes go uncounted.
Undo(s) ==
  /\ pc[s] = "undo"
  /\ queued' = queued - 1
  /\ job' = [job EXCEPT ![s] = Tail(@)]
  /\ lost' = [lost EXCEPT ![s] =
       IF Head(job[s]).kind \in {"value", "text"} THEN @ \cup {Head(job[s]).n}
       ELSE @]
  /\ pc' = [pc EXCEPT ![s] = "place"]
  /\ UNCHANGED <<out, lock, queue, dropped, wpc, hand, failed, envVars>>

FinishForgetful(s) ==  \* mutant: the drops of a dispatch are not added up
  /\ pc[s] = "place"
  /\ job[s] = <<>>
  /\ out' = IF lock = s THEN [out EXCEPT !.wire = @ \o out.batch, !.batch = <<>>] ELSE out
  /\ lock' = IF lock = s THEN Nobody ELSE lock
  /\ pc' = [pc EXCEPT ![s] = "idle"]
  /\ lost' = [lost EXCEPT ![s] = {}]
  /\ UNCHANGED <<job, dropped, failed, queue, queued, wpc, hand, envVars>>

\* deliver_all's end: what is batched goes out and the dispatch returns.
Finish(s) ==
  /\ pc[s] = "place"
  /\ job[s] = <<>>
  /\ Try(s, IF lock = s THEN Flush(out) ELSE {[ok |-> TRUE, out |-> out]},
         Return(s))
  /\ UNCHANGED <<queue, queued, wpc, hand, envVars>>

Deliver(s) ==
  \/ TryLock(s) \/ Load(s) \/ PlaceInline(s) \/ Unlock(s)
  \/ Count(s) \/ TrySend(s) \/ Undo(s) \/ Finish(s)

-----------------------------------------------------------------------------
(* The writer thread: writer_loop.                                         *)

DisconnectedLate ==  \* mutant: the reader is dropped after the join
  conn = "joined" /\ \A s \in Sender : pc[s] = "idle"

\* Every sender of the channel is gone: the map's, the reader's, and the ones
\* of dispatches under way.
Disconnected == conn = "gone" /\ \A s \in Sender : pc[s] = "idle"

\* The thread ends.  The channel goes with it; `queued` keeps what it held.
End ==
  /\ wpc' = "ended"
  /\ queue' = <<>>
  /\ lock' = IF lock = "writer" THEN Nobody ELSE lock

\* recv_timeout: a frame, the end of the channel, or a quiet interval
Recv ==
  /\ wpc = "recv"
  /\ \/ /\ queue # <<>>
        /\ hand' = <<Head(queue)>>
        /\ queue' = Tail(queue)
        /\ wpc' = "lock"
        /\ UNCHANGED lock
     \/ queue = <<>> /\ Disconnected /\ End /\ UNCHANGED hand
     \/ /\ queue = <<>>
        /\ ~Disconnected
        /\ wpc' = "ping"
        /\ UNCHANGED <<queue, lock, hand>>
  /\ UNCHANGED <<out, queued, sendVars, failed, envVars>>

\* The keepalive ping, which is not one of the numbered frames
Ping ==
  /\ wpc = "ping"
  /\ lock = Nobody
  /\ \E r \in Send(out, <<>>) :
       /\ Note(r)
       /\ IF r.ok THEN wpc' = "recv" /\ UNCHANGED <<queue, lock>> ELSE End
  /\ UNCHANGED <<out, queued, sendVars, hand, envVars>>

\* The writer blocks on the lock with a frame in hand.
Lock ==
  /\ wpc = "lock"
  /\ lock = Nobody
  /\ lock' = "writer"
  /\ wpc' = "write"
  /\ UNCHANGED <<out, queue, queued, sendVars, hand, failed, envVars>>

\* write_one on the frame in hand, then fetch_sub
Write ==
  /\ wpc = "write"
  /\ queued' = queued - 1
  /\ hand' = <<>>
  /\ \E r \in WriteOne(out, hand[1]) :
       /\ out' = r.out
       /\ Note(r)
       /\ IF r.ok THEN wpc' = "drain" /\ UNCHANGED <<queue, lock>> ELSE End
  /\ UNCHANGED <<sendVars, envVars>>

\* try_recv: each further frame is written at once, a full batch flushed.
Drain ==
  /\ wpc = "drain"
  /\ queue # <<>>
  /\ queued' = queued - 1
  /\ \E r \in UNION {IF w.ok THEN FlushIfFull(w.out) ELSE {w} :
                       w \in WriteOne(out, Head(queue))} :
       /\ out' = r.out
       /\ Note(r)
       /\ IF r.ok THEN queue' = Tail(queue) /\ UNCHANGED <<wpc, lock>> ELSE End
  /\ UNCHANGED <<sendVars, hand, envVars>>

RestUnflushed ==  \* mutant: the batch waits for the next frame
  /\ wpc = "drain"
  /\ queue = <<>>
  /\ wpc' = "recv"
  /\ lock' = Nobody
  /\ UNCHANGED <<out, queue, queued, sendVars, hand, failed, envVars>>

\* The channel is empty: the batch goes out and the lock is released.
Rest ==
  /\ wpc = "drain"
  /\ queue = <<>>
  /\ \E r \in Flush(out) :
       /\ out' = r.out
       /\ Note(r)
       /\ IF r.ok THEN wpc' = "recv" /\ lock' = Nobody /\ UNCHANGED queue
          ELSE End
  /\ UNCHANGED <<queued, sendVars, hand, envVars>>

Writer == Recv \/ Ping \/ Lock \/ Write \/ Drain \/ Rest

-----------------------------------------------------------------------------
(* The connection thread: spawn_connection and serve_connection.           *)

\* The connect routes are dispatched, then the writer thread is spawned.
Spawn ==
  /\ conn = "connecting"
  /\ pc[Reader] = "idle"
  /\ conn' = "serving"
  /\ wpc' = "recv"
  /\ UNCHANGED <<out, lock, queue, queued, sendVars, hand, failed, stalled, sent>>

\* serve_connection returns, because recv failed or after a close; the client
\* is removed from the map and the reader dropped.
Leave ==
  /\ conn \in {"serving", "closing"}
  /\ pc[Reader] = "idle"
  /\ conn' = "gone"
  /\ UNCHANGED <<out, lock, queue, queued, sendVars, wpc, hand, failed, stalled,
                 sent>>

\* The writer thread is joined and the connection's slot released.
Join ==
  /\ conn = "gone"
  /\ wpc = "ended"
  /\ conn' = "joined"
  /\ UNCHANGED <<out, lock, queue, queued, sendVars, wpc, hand, failed, stalled,
                 sent>>

\* The peer stops reading, or is gone without the reader having noticed.
Stall ==
  /\ ~stalled
  /\ stalled' = TRUE
  /\ UNCHANGED <<out, lock, queue, queued, sendVars, wpc, hand, failed, conn,
                 sent>>

Init ==
  /\ out = [wire |-> <<>>, batch |-> <<>>, closed |-> FALSE]
  /\ lock = Nobody
  /\ queue = <<>>
  /\ queued = 0
  /\ dropped = 0
  /\ pc = [s \in Sender |-> "idle"]
  /\ job = [s \in Sender |-> <<>>]
  /\ lost = [s \in Sender |-> {}]
  /\ wpc = "unborn"
  /\ hand = <<>>
  /\ conn = "connecting"
  /\ stalled = FALSE
  /\ failed = FALSE
  /\ sent = <<>>

Next ==
  \/ \E s \in Sender : Deliver(s) \/ \E kinds \in Jobs : Dispatch(s, kinds)
  \/ EmitRaw \/ SendClose
  \/ Writer
  \/ Spawn \/ Leave \/ Join
  \/ Stall

\* Every thread of the server keeps running: a dispatch goes on, the writer
\* thread goes on, and a connection that sent its close leaves.
Fairness ==
  /\ \A s \in Sender : WF_vars(Deliver(s))
  /\ WF_vars(Writer)
  /\ WF_vars(Spawn)
  /\ WF_vars(conn = "closing" /\ Leave)
  /\ WF_vars(Join)

Spec == Init /\ [][Next]_vars /\ Fairness

-----------------------------------------------------------------------------
(* Properties.                                                             *)

Kinds == {"value", "text", "raw", "close"}
Waiting == Numbers(queue \o hand \o out.batch)
Stream == out.wire \o out.batch

\* No frame overtakes one that was in the batch or the queue when its dispatch
\* began, nor an earlier one of its own dispatch, whether the two went inline
\* or through the writer thread (deliver_all: "in order").
NoOvertaking ==
  \A i \in DOMAIN Stream :
    Stream[i].after \cap
      (Numbers(queue \o hand) \cup {Stream[j].n : j \in i + 1 .. Len(Stream)}) = {}

\* While the writer thread lives, `queued` counts exactly the frames in the
\* channel, the one in the writer's hand, and the sends being attempted
\* (writer_loop: "counts what waits in rx, and is decremented only after a
\* write").
QueuedExact ==
  wpc # "ended" =>
    queued = Len(queue) + Len(hand)
             + Cardinality({s \in Sender : pc[s] \in {"send", "undo"}})

\* Until a write fails or the writer thread ends, every value and control
\* message dispatched is on its way or was counted as dropped, once.
DropsCounted ==
  ~failed /\ wpc # "ended" =>
    Cardinality({n \in DOMAIN sent \ (Numbers(out.wire) \cup Waiting \cup Unplaced) :
                   sent[n] \in {"value", "text"}})
      = dropped + Cardinality(UNION {lost[s] : s \in Sender})

\* A frame that was placed does not wait for ever: it is written, or the writer
\* thread has ended.
PlacedIsWritten ==
  \A n \in 1 .. MaxFrames : n \in Waiting ~> n \notin Waiting

\* A connection that has left is joined and gives its slot back: the writer
\* thread finds the channel disconnected however the teardown interleaves with
\* dispatches under way and with a peer that has stalled.
TeardownCompletes ==
  conn = "gone" ~> conn = "joined"
=============================================================================
