---------------------------- MODULE Persistence -----------------------------
(***************************************************************************)
(* Saving persistent topics (core/src/websocket/server.rs,                 *)
(* start_persistence to load_persistent): the saver thread, the file it    *)
(* replaces through a scratch file, failing writes, crashes of the         *)
(* process, and stop and start within one process.  The persistent topics  *)
(* are one piece of content, numbered by the change that made it; `here`   *)
(* says whether there is anything to save.                                 *)
(***************************************************************************)
EXTENDS Naturals

CONSTANTS
  MaxChanges,   \* bound: changes of persistent topics
  MaxStarts,    \* bound: calls of start
  MaxFails,     \* bound: failing writes and renames
  Torn          \* what a file holds while it is being written

ASSUME PersistenceAssumption == {MaxChanges, MaxStarts, MaxFails} \subseteq Nat

VARIABLES
  content,      \* persistent_snapshot of the registry
  generation,   \* persistent_generation
  file,         \* the file at persistence_path
  scratch,      \* the file at persistence_path.tmp
  saver,        \* where the saver thread is
  saved,        \* its local saved
  current,      \* its local current
  snapshot,     \* the entries save_persistent writes
  stopping,     \* its local stopping
  stopped,      \* Persistence::stopped
  owner,        \* where start and stop are
  changes,      \* changes so far
  starts,       \* calls of start so far
  fails,        \* failures so far
  seen,         \* history: the last change came when the saver could notice it
  clean,        \* history: the saver's last attempt to save did not fail
  had           \* history: contents the registry has had

diskVars == <<file, scratch>>
saverVars == <<saver, saved, current, snapshot, stopping>>
persistVars == <<content, generation, diskVars, saverVars, stopped, owner,
                 changes, starts, fails, seen, clean, had>>

Nothing == [number |-> 0, here |-> FALSE]

PersistInit ==
  /\ content = Nothing
  /\ generation = 0
  /\ file = Nothing
  /\ scratch = Nothing
  /\ saver = "none"
  /\ saved = 0
  /\ current = 0
  /\ snapshot = Nothing
  /\ stopping = FALSE
  /\ stopped = FALSE
  /\ owner = "down"
  /\ changes = 0
  /\ starts = 0
  /\ fails = 0
  /\ seen = FALSE
  /\ clean = TRUE
  /\ had = {Nothing}

-----------------------------------------------------------------------------
\* The saver has read the generation for the last time.
LastPass == stopping /\ saver \in {"snapshot", "write", "rename", "exited"}

\* A client changes what the snapshot holds, or empties it.  There are clients
\* from the end of the first start on, and their threads are not joined by stop.
Change(here) ==
  /\ owner \notin {"down", "fresh"}
  /\ changes < MaxChanges
  /\ changes' = changes + 1
  /\ content' = [number |-> changes', here |-> here]
  /\ generation' = generation + 1
  /\ seen' = (saver \notin {"none", "spawned", "exited"} /\ ~ LastPass)
  /\ had' = had \cup {content'}
  /\ UNCHANGED <<diskVars, saverVars, stopped, owner, starts, fails, clean>>

\* start_persistence up to load_persistent: names the registry already has are
\* left as they are, and restoring anything counts as a change.
LoadPersistent ==
  /\ owner \in {"down", "off"}
  /\ starts < MaxStarts
  /\ starts' = starts + 1
  /\ content' = IF file.here /\ ~ content.here THEN file ELSE content
  /\ generation' = IF file.here THEN generation + 1 ELSE generation
  /\ owner' = IF owner = "down" THEN "fresh" ELSE "loaded"
  /\ UNCHANGED <<diskVars, saverVars, stopped, changes, fails, seen, clean, had>>

\* start_persistence spawns the saver.
SpawnSaver ==
  /\ owner \in {"fresh", "loaded"}
  /\ saver' = "spawned"
  /\ stopped' = FALSE
  /\ owner' = "on"
  /\ clean' = TRUE
  /\ UNCHANGED <<content, generation, diskVars, saved, current, snapshot, stopping,
                 changes, starts, fails, seen, had>>

\* Persistence::stop signals the saver.
SignalStop ==
  /\ owner = "on"
  /\ stopped' = TRUE
  /\ owner' = "joining"
  /\ UNCHANGED <<content, generation, diskVars, saverVars, changes, starts, fails, seen, clean, had>>

\* Persistence::stop joins it.
JoinSaver ==
  /\ owner = "joining"
  /\ saver = "exited"
  /\ saver' = "none"
  /\ owner' = "off"
  /\ seen' = FALSE
  /\ UNCHANGED <<content, generation, diskVars, saved, current, snapshot, stopping,
                 stopped, changes, starts, fails, clean, had>>

\* The process dies; the files stay.
Crash ==
  /\ owner # "down"
  /\ content' = Nothing
  /\ generation' = 0
  /\ saver' = "none"
  /\ stopped' = FALSE
  /\ stopping' = FALSE
  /\ owner' = "down"
  /\ seen' = FALSE
  /\ UNCHANGED <<diskVars, saved, current, snapshot, changes, starts, fails, clean, had>>

-----------------------------------------------------------------------------
\* The saver notes the generation it starts from.
Baseline ==
  /\ saver = "spawned"
  /\ saved' = generation
  /\ saver' = "wait"
  /\ UNCHANGED <<content, generation, diskVars, current, snapshot, stopping, stopped,
                 owner, changes, starts, fails, seen, clean, had>>

\* wait_timeout_while returns: PERSIST_INTERVAL has passed or stop was asked.
Wait ==
  /\ saver = "wait"
  /\ stopping' = stopped
  /\ saver' = "read"
  /\ UNCHANGED <<content, generation, diskVars, saved, current, snapshot, stopped,
                 owner, changes, starts, fails, seen, clean, had>>

AfterPass == IF stopping THEN "exited" ELSE "wait"

\* current is read and compared.
ReadGeneration ==
  /\ saver = "read"
  /\ current' = generation
  /\ saver' = IF generation # saved THEN "snapshot" ELSE AfterPass
  /\ UNCHANGED <<content, generation, diskVars, saved, snapshot, stopping, stopped,
                 owner, changes, starts, fails, seen, clean, had>>

\* save_persistent takes the snapshot under the registry's lock.
TakeSnapshot ==
  /\ saver = "snapshot"
  /\ snapshot' = content
  /\ saver' = "write"
  /\ UNCHANGED <<content, generation, diskVars, saved, current, stopping, stopped,
                 owner, changes, starts, fails, seen, clean, had>>

\* mutant: the file itself is written, without a scratch file
WriteInPlace ==
  /\ saver = "write"
  /\ file' = IF file = Torn THEN snapshot ELSE Torn
  /\ saver' = IF file = Torn THEN "rename" ELSE "write"
  /\ scratch' = snapshot
  /\ UNCHANGED <<content, generation, saved, current, snapshot, stopping, stopped,
                 owner, changes, starts, fails, seen, clean, had>>

\* std::fs::write of the scratch file: truncated, then written, or an error.
WriteScratch ==
  /\ saver = "write"
  /\ \/ /\ scratch # Torn
        /\ scratch' = Torn
        /\ UNCHANGED <<saver, fails, clean>>
     \/ /\ scratch = Torn
        /\ scratch' = snapshot
        /\ saver' = "rename"
        /\ UNCHANGED <<fails, clean>>
     \/ /\ fails < MaxFails
        /\ fails' = fails + 1
        /\ clean' = FALSE
        /\ saver' = AfterPass
        /\ UNCHANGED scratch
  /\ UNCHANGED <<content, generation, file, saved, current, snapshot, stopping, stopped,
                 owner, changes, starts, seen, had>>

\* mutant: the generation is read again after the save
RenameThenRead ==
  /\ saver = "rename"
  /\ file' = scratch
  /\ scratch' = Nothing
  /\ saved' = generation
  /\ clean' = TRUE
  /\ saver' = AfterPass
  /\ UNCHANGED <<content, generation, current, snapshot, stopping, stopped,
                 owner, changes, starts, fails, seen, had>>

\* std::fs::rename replaces the file in one step, or fails; saved moves on
\* when it worked.
Rename ==
  /\ saver = "rename"
  /\ \/ /\ file' = scratch
        /\ scratch' = Nothing
        /\ saved' = current
        /\ clean' = TRUE
        /\ UNCHANGED fails
     \/ /\ fails < MaxFails
        /\ fails' = fails + 1
        /\ clean' = FALSE
        /\ UNCHANGED <<diskVars, saved>>
  /\ saver' = AfterPass
  /\ UNCHANGED <<content, generation, current, snapshot, stopping, stopped,
                 owner, changes, starts, seen, had>>

SaverStep ==
  Baseline \/ Wait \/ ReadGeneration \/ TakeSnapshot \/ WriteScratch \/ Rename

PersistNext ==
  \/ \E here \in BOOLEAN : Change(here)
  \/ LoadPersistent \/ SpawnSaver \/ SignalStop \/ JoinSaver \/ Crash
  \/ SaverStep

PersistSpec == PersistInit /\ [][PersistNext]_persistVars

\* The saver's thread runs, and the caller of start and stop goes on.
PersistFairness ==
  WF_persistVars(SaverStep) /\ WF_persistVars(SpawnSaver) /\ WF_persistVars(JoinSaver)

-----------------------------------------------------------------------------
\* A crash, a failed write or a stop at any point of save_persistent
\* (server.rs:514-524) leaves under persistence_path a snapshot the registry
\* really had, whole: what the next load_persistent restores.
FileIsWhole == file \in had

\* A change made while the saver is running is never forgotten: it is in the
\* file, or the saver's generation still differs so that the next pass writes
\* it; and when the saver has made its final pass without an I/O error
\* (server.rs:94, "Asks the saver to write once more and exit") it is in the file.
NothingForgotten ==
  /\ saver = "wait" /\ seen => content = file \/ generation # saved
  /\ saver = "exited" /\ seen /\ clean => content = file

\* What is on disk can be relied on at every moment, a crash included: it is
\* whole, and what it lacks will still be written.
DiskIsSafe == FileIsWhole /\ NothingForgotten

\* Restores saved topics, "then saves them every PERSIST_INTERVAL when they
\* changed" (server.rs:295): a change the saver can notice reaches the disk
\* although writes fail now and then, unless the process or the saver ends.
ChangesReachDisk ==
  (seen /\ content # file) ~> (content = file \/ ~ seen \/ saver \in {"exited", "none"})

=============================================================================
