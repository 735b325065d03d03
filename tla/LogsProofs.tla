----------------------------- MODULE LogsProofs -----------------------------
(***************************************************************************)
(* A stop's wake-up reaches the relay of log lines, for any number of      *)
(* logging threads and any limits.                                         *)
(***************************************************************************)
EXTENDS Logs, TLAPS

\* The relay holds the mutex of unread_logs exactly between taking it and the
\* wait or the drain that gives it up.
LockHeld ==
  /\ relay \in {"check", "sleep", "drain"} => locked = TRUE
  /\ relay \notin {"check", "sleep", "drain"} => locked = FALSE

\* The flag is up before stop notifies and until start lowers it.
FlagUp == stopper \in {"stopping", "woken"} => stopLogs = TRUE

\* After the notification the relay is neither waiting nor about to wait: it
\* cannot have stood between its check and its wait, because it holds the lock
\* there, and a later check sees the flag.
NotAsleep == stopper = "woken" => relay \notin {"sleep", "waiting"}

\* start finds the thread of the stop before it joined.
Joined == stopper = "stopped" => relay = "exited"

LogsInv == LockHeld /\ FlagUp /\ NotAsleep /\ Joined

LEMMA LogsInvInit == LogsInit => LogsInv
  BY DEF LogsInit, LogsInv, LockHeld, FlagUp, NotAsleep, Joined

LEMMA LogsInvStep == LogsInv /\ [LogsNext]_logVars => LogsInv'
<1> SUFFICES ASSUME LogsInv, [LogsNext]_logVars PROVE LogsInv'
    OBVIOUS
<1> USE DEF LogsInv, LockHeld, FlagUp, NotAsleep, Joined
<1>1. ASSUME NEW w \in Worker, Log(w) PROVE LogsInv'
  BY <1>1 DEF Log, relayVars, stopVars
<1>2. ASSUME NEW w \in Worker, LogUnread(w) PROVE LogsInv'
  BY <1>2 DEF LogUnread, Notified, stopVars
<1>3. CASE RelayTop
  BY <1>3 DEF RelayTop, stopVars
<1>4. CASE RelayLock
  BY <1>4 DEF RelayLock, stopVars
<1>5. CASE RelayCheck
  BY <1>5 DEF RelayCheck, stopVars
<1>6. CASE RelaySleep
  BY <1>6 DEF RelaySleep, stopVars
<1>7. CASE RelayTimeout
  BY <1>7 DEF RelayTimeout, stopVars
<1>8. CASE RelayDrain
  BY <1>8 DEF RelayDrain, stopVars
<1>9. CASE RelayPublish
  BY <1>9 DEF RelayPublish, stopVars
<1>10. CASE StopLogs
  BY <1>10 DEF StopLogs, relayVars
<1>11. CASE Wake
  BY <1>11 DEF Wake, Notified
<1>12. CASE JoinRelay
  BY <1>12 DEF JoinRelay, relayVars
<1>13. CASE StartLogs
  BY <1>13 DEF StartLogs
<1>14. CASE UNCHANGED logVars
  BY <1>14 DEF logVars
<1> QED
  BY <1>1, <1>2, <1>3, <1>4, <1>5, <1>6, <1>7, <1>8, <1>9, <1>10, <1>11, <1>12,
     <1>13, <1>14 DEF LogsNext, RelayStep

\* Logger::wake notifies under the lock (log.rs:106), so once stop has woken the
\* logger the relay thread does not sleep until its timeout.
THEOREM WakeIsAlwaysHeard == LogsSpec => []WakeIsHeard
<1>1. LogsInv => WakeIsHeard
  BY DEF LogsInv, NotAsleep, WakeIsHeard
<1> QED
  BY <1>1, LogsInvInit, LogsInvStep, PTL DEF LogsSpec
=============================================================================
