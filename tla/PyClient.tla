----------------------------- MODULE PyClient -------------------------------
(***************************************************************************)
(* The Python binding (bindings/python/src/lib.rs) between the threads of  *)
(* an interpreter, which take turns with the global interpreter lock, and  *)
(* the client's receive threads, which need the lock for every callback.   *)
(* A thread at "code" runs Python while it holds the lock and waits for    *)
(* the lock otherwise; returning from a call that released the lock, and   *)
(* the callback of a subscription's first value, come to the same wait.    *)
(***************************************************************************)
EXTENDS Naturals, FiniteSets

CONSTANTS
  PyThread,    \* threads of the application
  Recv,        \* receive threads, spawned one after the other
  ClosesFirst,  \* whether the application stops a client before it lets it go
  MaxPyCalls,  \* bound: calls
  NoThread     \* nobody

ASSUME PyClientAssumption ==
  /\ MaxPyCalls \in Nat
  /\ ClosesFirst \in BOOLEAN
  /\ PyThread \cap Recv = {}

VARIABLES
  gil,         \* the holder of the interpreter lock
  at,          \* where each thread is
  kind,        \* what each receive thread receives
  started,     \* reader_started and telemetry_started
  tracked,     \* Client.threads
  joins,       \* the threads a stop is joining
  stopped,     \* Client.stop
  pending,     \* the thread whose request holds request_lock
  initialized, \* Client.initialized
  hears,       \* what the application has listeners for
  freed,       \* the client object is gone
  pyCalls      \* calls so far

pyVars == <<gil, at, kind, started, tracked, joins, stopped, pending, initialized, hears, freed, pyCalls>>

Thread == PyThread \cup Recv
Kinds == {"reader", "telemetry"}

PyInit ==
  /\ gil = NoThread
  /\ at = [t \in Thread |-> IF t \in Recv THEN "unborn" ELSE "code"]
  /\ kind = [r \in Recv |-> "reader"]
  /\ started = {}
  /\ tracked = {}
  /\ joins = [t \in Thread |-> {}]
  /\ stopped = FALSE
  /\ pending = NoThread
  /\ initialized = FALSE
  /\ hears = {}
  /\ freed = FALSE
  /\ pyCalls = 0

-----------------------------------------------------------------------------
(***************************************************************************)
(* The interpreter.                                                        *)
(***************************************************************************)
\* A thread gets the lock: Python::attach, the end of a detach, or its turn.
Attach(t) ==
  /\ gil = NoThread
  /\ at[t] = "code"
  /\ gil' = t
  /\ UNCHANGED <<at, kind, started, tracked, joins, stopped, pending, initialized, hears, freed, pyCalls>>

\* The interpreter takes the lock away between two bytecodes.
Yield(t) ==
  /\ gil = t
  /\ at[t] = "code"
  /\ gil' = NoThread
  /\ UNCHANGED <<at, kind, started, tracked, joins, stopped, pending, initialized, hears, freed, pyCalls>>

-----------------------------------------------------------------------------
(***************************************************************************)
(* The methods, by what they do to the lock.                               *)
(***************************************************************************)
\* Methods that publish, with the lock held.
Puts ==
  {"put_string", "put_integer", "put_long", "put_double", "put_float", "put_boolean",
   "put_bytes", "put_string_list", "put_bytes_list", "put_double_list", "put_float_list",
   "put_integer_list", "put_long_list", "put_boolean_list", "put_coordinates",
   "put_pose2d", "put_pose3d", "put_bezier_curve", "put_bezier_curves",
   "put_bezier_curves_list", "put_typed_bytes", "put_unknown_bytes", "put_struct"}

\* Methods that read a channel, with the lock released.
Gets ==
  {"get_string", "get_integer", "get_long", "get_double", "get_float", "get_boolean",
   "get_bytes", "get_string_list", "get_bytes_list", "get_double_list", "get_float_list",
   "get_integer_list", "get_long_list", "get_boolean_list", "get_coordinates",
   "get_bezier_curve", "get_bezier_curves", "get_bezier_curves_list", "get_pose2d",
   "get_pose3d", "get_unknown_bytes"}

\* The other requests, with the lock released.
Requests ==
  {"delete", "delete_all", "get_tables", "get_ping", "get_server_statistics",
   "get_raw_json", "compare_and_set_absent_string", "compare_and_set_string",
   "compare_and_set_double", "compare_and_set_long", "compare_and_set_boolean"}

\* Subscribing asks for the current value or the log, with the lock released.
Subscribes == {"subscribe", "subscribe_to_logs"}

\* Logging to a file, with the lock released.
Opens == {"log_to", "log_to_drive"}

\* The rest, with the lock held.
Locals ==
  {"publish_telemetry", "dropped_log_records", "logging_healthy", "dropped_publishes",
   "unsubscribe", "subscribe_telemetry", "unsubscribe_telemetry", "unsubscribe_from_logs"}

\* Python code of t calls a method.
Calls(t) ==
  /\ gil = t /\ at[t] = "code"
  /\ ~ freed
  /\ pyCalls < MaxPyCalls
  /\ pyCalls' = pyCalls + 1

\* ensure_reader and start_telemetry_receiver, for the kinds given and unless
\* the client is stopped; each thread is tracked.  t goes on at next.
Spawn(t, kinds, halted, next) ==
  LET new == IF halted THEN {} ELSE kinds \ started
      unborn == {r \in Recv : at[r] = "unborn"}
      births == {f \in [new -> unborn] : \A k, l \in new : f[k] = f[l] => k = l}
  IN  /\ births # {}
      /\ LET born == CHOOSE f \in births : TRUE
             of(r) == {k \in new : born[k] = r}
         IN  /\ at' = [u \in Thread |-> IF u = t THEN next
                                        ELSE IF u \in Recv /\ of(u) # {} THEN "top"
                                        ELSE at[u]]
             /\ kind' = [r \in Recv |-> IF of(r) # {} THEN CHOOSE k \in of(r) : TRUE
                                        ELSE kind[r]]
             /\ started' = started \cup new
             /\ tracked' = tracked \cup {born[k] : k \in new}

\* The listeners after a call: subscribe registers before it makes its request.
Heard(call) ==
  CASE call = "subscribe" -> hears \cup {"values"}
    [] call = "subscribe_to_logs" -> hears \cup {"logs"}
    [] call = "subscribe_telemetry" -> hears \cup {"telemetry"}
    [] call = "unsubscribe" -> hears \ {"values"}
    [] call = "unsubscribe_from_logs" -> hears \ {"logs"}
    [] call = "unsubscribe_telemetry" -> hears \ {"telemetry"}
    [] OTHER -> hears

\* A method that keeps the lock: none waits for another thread.
AttachedCall(t, call) ==
  /\ Calls(t)
  /\ Spawn(t, CASE call \in Puts -> {"reader"}
                [] call = "subscribe_telemetry" -> {"telemetry"}
                [] OTHER -> {}, stopped, "code")
  /\ hears' = Heard(call)
  /\ UNCHANGED <<gil, joins, stopped, pending, initialized, freed>>

\* A method that releases the lock: it makes a request, or opens a file and
\* comes back.
DetachedCall(t, call) ==
  /\ Calls(t)
  /\ gil' = NoThread
  /\ at' = [at EXCEPT ![t] = IF call \in Opens THEN "code" ELSE "lock"]
  /\ hears' = Heard(call)
  /\ UNCHANGED <<kind, started, tracked, joins, stopped, pending, initialized, freed>>

\* Client::request takes request_lock.
LockRequest(t) ==
  /\ at[t] = "lock"
  /\ pending = NoThread
  /\ pending' = t
  /\ Spawn(t, {"reader"}, stopped, "request")
  /\ UNCHANGED <<gil, joins, stopped, initialized, hears, freed, pyCalls>>

\* request_timeout passes.
TimesOut(t) ==
  /\ at[t] = "request"
  /\ pending' = NoThread
  /\ at' = [at EXCEPT ![t] = "code"]
  /\ UNCHANGED <<gil, kind, started, tracked, joins, stopped, initialized, hears, freed, pyCalls>>

\* start: nothing on a client that was started and runs.
StartPy(t) ==
  /\ Calls(t)
  /\ initialized' = TRUE
  /\ stopped' = FALSE
  /\ Spawn(t, IF initialized /\ ~ stopped THEN {}
              ELSE IF "telemetry" \in hears THEN Kinds ELSE {"reader"}, FALSE, "code")
  /\ UNCHANGED <<gil, joins, pending, hears, freed>>

\* mutant: a stop from a callback joins its own thread
TakesAll(t) == tracked

\* Client::stop joins every tracked thread but its own.
Takes(t) == tracked \ {t}

\* mutant: stop does not release the lock
StopAttached(t) ==
  /\ Calls(t)
  /\ stopped' = TRUE
  /\ joins' = [joins EXCEPT ![t] = Takes(t)]
  /\ tracked' = {}
  /\ at' = [at EXCEPT ![t] = "join"]
  /\ UNCHANGED <<gil, kind, started, pending, initialized, hears, freed>>

\* stop, with the lock released.
StopPy(t) ==
  /\ Calls(t)
  /\ gil' = NoThread
  /\ stopped' = TRUE
  /\ joins' = [joins EXCEPT ![t] = Takes(t)]
  /\ tracked' = {}
  /\ at' = [at EXCEPT ![t] = "join"]
  /\ UNCHANGED <<kind, started, pending, initialized, hears, freed>>

\* The last reference to the client goes, so no method of it is running: the
\* object is dropped, and with it Client, whose drop is a stop, under the lock.
Dealloc(t) ==
  /\ gil = t /\ at[t] = "code"
  /\ ~ freed
  /\ \A u \in Thread : at[u] \notin {"lock", "request", "join"}
  /\ ClosesFirst => tracked = {}
  /\ freed' = TRUE
  /\ stopped' = TRUE
  /\ joins' = [joins EXCEPT ![t] = Takes(t)]
  /\ tracked' = {}
  /\ at' = [at EXCEPT ![t] = "join"]
  /\ UNCHANGED <<gil, kind, started, pending, initialized, hears, pyCalls>>

\* The joins are over.
JoinedPy(t) ==
  /\ at[t] = "join"
  /\ \A r \in joins[t] : at[r] = "ended"
  /\ joins' = [joins EXCEPT ![t] = {}]
  /\ started' = {}
  /\ at' = [at EXCEPT ![t] = "code"]
  /\ UNCHANGED <<gil, kind, tracked, stopped, pending, initialized, hears, freed, pyCalls>>

-----------------------------------------------------------------------------
(***************************************************************************)
(* The receive threads.                                                    *)
(***************************************************************************)
\* The loop's test of stop.
ReceiveTop(r) ==
  /\ at[r] = "top"
  /\ at' = [at EXCEPT ![r] = IF stopped THEN "ended" ELSE "read"]
  /\ UNCHANGED <<gil, kind, started, tracked, joins, stopped, pending, initialized, hears, freed, pyCalls>>

\* Nothing comes within POLL_INTERVAL, or a reply to the pending request.
ReceiveReply(r) ==
  /\ at[r] = "read"
  /\ \/ /\ at' = [at EXCEPT ![r] = "top"]
        /\ UNCHANGED pending
     \/ /\ kind[r] = "reader"
        /\ pending # NoThread
        /\ at' = [at EXCEPT ![r] = "top", ![pending] = "code"]
        /\ pending' = NoThread
  /\ UNCHANGED <<gil, kind, started, tracked, joins, stopped, initialized, hears, freed, pyCalls>>

\* Something a Python callable listens for: call attaches.
ReceiveValue(r) ==
  /\ at[r] = "read"
  /\ hears \cap (IF kind[r] = "reader" THEN {"values", "logs"} ELSE {"telemetry"}) # {}
  /\ at' = [at EXCEPT ![r] = "code"]
  /\ UNCHANGED <<gil, kind, started, tracked, joins, stopped, pending, initialized, hears, freed, pyCalls>>

\* The callback returns.
EndCallback(r) ==
  /\ gil = r
  /\ at[r] = "code"
  /\ gil' = NoThread
  /\ at' = [at EXCEPT ![r] = "top"]
  /\ UNCHANGED <<kind, started, tracked, joins, stopped, pending, initialized, hears, freed, pyCalls>>

-----------------------------------------------------------------------------
PyNext ==
  \/ \E t \in Thread :
       \/ Attach(t) \/ Yield(t)
       \/ \E call \in Puts \cup Locals : AttachedCall(t, call)
       \/ \E call \in Gets \cup Requests \cup Subscribes \cup Opens : DetachedCall(t, call)
       \/ LockRequest(t) \/ TimesOut(t)
       \/ StartPy(t) \/ StopPy(t) \/ Dealloc(t) \/ JoinedPy(t)
  \/ \E r \in Recv :
       ReceiveTop(r) \/ ReceiveReply(r) \/ ReceiveValue(r) \/ EndCallback(r)

PySpec == PyInit /\ [][PyNext]_pyVars

\* Whom t waits for without a timeout: the threads it joins, the holder of
\* request_lock, the holder of the interpreter lock; and, while it keeps the
\* interpreter lock, the readers a reply would come from.
WaitsFor(t) ==
  CASE at[t] = "join" -> {r \in joins[t] : at[r] # "ended"}
    [] at[t] = "lock" -> {pending} \ {NoThread}
    [] at[t] = "code" -> {gil} \ {t, NoThread}
    [] at[t] = "request" /\ gil = t -> {r \in Recv : kind[r] = "reader"} \ {t}
    [] OTHER -> {}

\* "Stop and join the receive threads, which takes up to 100 ms"
\* (client.rs:760), "From a callback it skips joining its own thread", and
\* "Calls that wait on the server release the GIL" (lib.rs:5): no set of
\* threads, the application's and the client's own, ever waits in a circle,
\* whatever the callbacks call.
NoStandoff ==
  \A circle \in (SUBSET Thread) \ {{}} :
    \E t \in circle : WaitsFor(t) \cap circle = {}
=============================================================================
