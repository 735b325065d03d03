------------------------------- MODULE Logs ---------------------------------
(***************************************************************************)
(* The server's logger (core/src/utils/log.rs), the relay thread that puts *)
(* new lines on the log topic, and the stop that must wake it              *)
(* (core/src/server.rs).  A line is its number.  The mutex of unread_logs  *)
(* is the lock; the condition variable's waiters are the relay at          *)
(* "waiting".                                                              *)
(***************************************************************************)
EXTENDS Naturals, Sequences, FiniteSets, Functions

CONSTANTS
  Worker,           \* threads that log
  HistorySize,      \* capacity of the history's RingBuffer
  UnreadLogLimit,   \* UNREAD_LOG_LIMIT
  MaxLines,         \* bound: lines logged
  MaxStops,         \* bound: calls of stop
  NoLine            \* a worker is not logging

ASSUME LogsAssumption ==
  /\ {HistorySize, UnreadLogLimit} \subseteq Nat \ {0}
  /\ {MaxLines, MaxStops} \subseteq Nat
  /\ NoLine \notin Nat

VARIABLES
  logging,     \* the line a worker has in history and not yet in unread
  lines,       \* lines so far
  history,     \* logs: the ring of retained lines, oldest first
  unread,      \* unread_logs
  droppedLogs, \* dropped
  relay,       \* where the relay thread is
  locked,      \* the relay holds the lock
  batch,       \* lines the relay has taken
  relayed,     \* lines put on the log topic
  stopLogs,    \* stop
  stopper,     \* where stop is
  stops,       \* calls of stop so far
  pushed       \* history variable: every line in the order history got it

logVars == <<logging, lines, history, unread, droppedLogs, relay, locked, batch,
             relayed, stopLogs, stopper, stops, pushed>>
relayVars == <<relay, locked, batch, relayed>>
stopVars == <<stopLogs, stopper, stops>>

LogsInit ==
  /\ logging = [w \in Worker |-> NoLine]
  /\ lines = 0
  /\ history = <<>>
  /\ unread = <<>>
  /\ droppedLogs = 0
  /\ relay = "top"
  /\ locked = FALSE
  /\ batch = <<>>
  /\ relayed = <<>>
  /\ stopLogs = FALSE
  /\ stopper = "idle"
  /\ stops = 0
  /\ pushed = <<>>

-----------------------------------------------------------------------------
\* RingBuffer::push.
Push(ring, line) ==
  IF Len(ring) = HistorySize THEN Append(Tail(ring), line) ELSE Append(ring, line)

\* Logger::log, up to the end of its use of the history.
Log(w) ==
  /\ logging[w] = NoLine
  /\ lines < MaxLines
  /\ lines' = lines + 1
  /\ logging' = [logging EXCEPT ![w] = lines']
  /\ history' = Push(history, lines')
  /\ pushed' = Append(pushed, lines')
  /\ UNCHANGED <<unread, droppedLogs, relayVars, stopVars>>

\* mutant: the lines pushed out are not counted
TrimUncounted(queue) ==
  [kept |-> IF Len(queue) > UnreadLogLimit
            THEN SubSeq(queue, Len(queue) - UnreadLogLimit + 1, Len(queue)) ELSE queue,
   excess |-> 0]

\* The oldest lines beyond the limit go.
Trim(queue) ==
  LET excess == IF Len(queue) > UnreadLogLimit THEN Len(queue) - UnreadLogLimit ELSE 0
  IN [kept |-> SubSeq(queue, excess + 1, Len(queue)), excess |-> excess]

\* unread_ready.notify_all: a waiting relay goes for the lock again.
Notified == IF relay = "waiting" THEN "enter" ELSE relay

\* Logger::log, its use of unread_logs.
LogUnread(w) ==
  LET trimmed == Trim(Append(unread, logging[w]))
  IN /\ logging[w] # NoLine
     /\ ~ locked
     /\ unread' = trimmed.kept
     /\ droppedLogs' = droppedLogs + trimmed.excess
     /\ relay' = Notified
     /\ logging' = [logging EXCEPT ![w] = NoLine]
     /\ UNCHANGED <<lines, history, locked, batch, relayed, stopVars, pushed>>

-----------------------------------------------------------------------------
(***************************************************************************)
(* start_log_relay and wait_unread_logs.                                   *)
(***************************************************************************)
\* The loop's test of stop.
RelayTop ==
  /\ relay = "top"
  /\ relay' = IF stopLogs THEN "exited" ELSE "enter"
  /\ UNCHANGED <<logging, lines, history, unread, droppedLogs, locked, batch, relayed, stopVars, pushed>>

\* The lock is taken, first or after a notification, or after the timeout.
RelayLock ==
  /\ relay \in {"enter", "late"}
  /\ ~ locked
  /\ locked' = TRUE
  /\ relay' = IF relay = "enter" THEN "check" ELSE "drain"
  /\ UNCHANGED <<logging, lines, history, unread, droppedLogs, batch, relayed, stopVars, pushed>>

\* wait_timeout_while: the condition is evaluated under the lock.
RelayCheck ==
  /\ relay = "check"
  /\ relay' = IF unread = <<>> /\ ~ stopLogs THEN "sleep" ELSE "drain"
  /\ UNCHANGED <<logging, lines, history, unread, droppedLogs, locked, batch, relayed, stopVars, pushed>>

\* The wait gives the lock up and starts waiting, in one step.
RelaySleep ==
  /\ relay = "sleep"
  /\ relay' = "waiting"
  /\ locked' = FALSE
  /\ UNCHANGED <<logging, lines, history, unread, droppedLogs, batch, relayed, stopVars, pushed>>

\* STOP_CHECK_INTERVAL passes.
RelayTimeout ==
  /\ relay = "waiting"
  /\ relay' = "late"
  /\ UNCHANGED <<logging, lines, history, unread, droppedLogs, locked, batch, relayed, stopVars, pushed>>

\* unread.drain, and the guard is dropped.
RelayDrain ==
  /\ relay = "drain"
  /\ batch' = unread
  /\ unread' = <<>>
  /\ locked' = FALSE
  /\ relay' = IF unread = <<>> THEN "top" ELSE "publish"
  /\ UNCHANGED <<logging, lines, history, droppedLogs, relayed, stopVars, pushed>>

\* fan_out_upsert on the log topic.
RelayPublish ==
  /\ relay = "publish"
  /\ relayed' = relayed \o batch
  /\ batch' = <<>>
  /\ relay' = "top"
  /\ UNCHANGED <<logging, lines, history, unread, droppedLogs, locked, stopVars, pushed>>

-----------------------------------------------------------------------------
\* Server::stop sets the flag.
StopLogs ==
  /\ stopper = "idle"
  /\ stops < MaxStops
  /\ stops' = stops + 1
  /\ stopLogs' = TRUE
  /\ stopper' = "stopping"
  /\ UNCHANGED <<logging, lines, history, unread, droppedLogs, relayVars, pushed>>

\* mutant: the notification does not take the lock
WakeUnlocked ==
  /\ stopper = "stopping"
  /\ relay' = Notified
  /\ stopper' = "woken"
  /\ UNCHANGED <<logging, lines, history, unread, droppedLogs, locked, batch, relayed, stopLogs, stops, pushed>>

\* Logger::wake.
Wake ==
  /\ stopper = "stopping"
  /\ ~ locked
  /\ relay' = Notified
  /\ stopper' = "woken"
  /\ UNCHANGED <<logging, lines, history, unread, droppedLogs, locked, batch, relayed, stopLogs, stops, pushed>>

\* join_running returns.
JoinRelay ==
  /\ stopper = "woken"
  /\ relay = "exited"
  /\ stopper' = "stopped"
  /\ UNCHANGED <<logging, lines, history, unread, droppedLogs, relayVars, stopLogs, stops, pushed>>

\* Server::start after a stop.
StartLogs ==
  /\ stopper = "stopped"
  /\ stopLogs' = FALSE
  /\ relay' = "top"
  /\ stopper' = "idle"
  /\ UNCHANGED <<logging, lines, history, unread, droppedLogs, locked, batch, relayed, stops, pushed>>

RelayStep ==
  \/ RelayTop \/ RelayLock \/ RelayCheck \/ RelaySleep
  \/ RelayTimeout \/ RelayDrain \/ RelayPublish

LogsNext ==
  \/ \E w \in Worker : Log(w) \/ LogUnread(w)
  \/ RelayStep
  \/ StopLogs \/ Wake \/ JoinRelay \/ StartLogs

LogsSpec == LogsInit /\ [][LogsNext]_logVars

-----------------------------------------------------------------------------
\* Types, and the count the test in log.rs:163-168 asks for: every line whose
\* log call has returned is unread, taken by the relay, on the log topic, or
\* counted as dropped, each line once.
LinesAccounted ==
  LET alive == unread \o batch \o relayed
  IN /\ \A w \in Worker : logging[w] \in 1 .. lines \cup {NoLine}
     /\ Len(unread) <= UnreadLogLimit
     /\ Len(history) <= HistorySize
     /\ Cardinality(Range(alive)) = Len(alive)
     /\ Len(alive) + droppedLogs
          = lines - Cardinality({w \in Worker : logging[w] # NoLine})

\* The history a Logs request is answered with (server.rs:288-295) holds every
\* line that is already on the log topic, but for those newer lines have pushed
\* out: history and later batches together leave a subscriber no gap.
HistoryCoversRelayed ==
  \A i \in 1 .. Len(pushed) :
    pushed[i] \in Range(relayed \o batch \o unread) /\ Len(pushed) - i < HistorySize
      => pushed[i] \in Range(history)

\* "Under the lock, so a waiter between its stop check and its wait still hears
\* this" (log.rs:106): once stop has woken the logger the relay does not sleep
\* through it until the timeout.
WakeIsHeard == stopper = "woken" => relay # "waiting"

\* A line handed to the logger is never lost in silence: it is on the topic or
\* on its way there, in the history while that has room, or counted.
NoLineLost == LinesAccounted /\ HistoryCoversRelayed
=============================================================================
