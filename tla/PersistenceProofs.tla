------------------------- MODULE PersistenceProofs --------------------------
(***************************************************************************)
(* Proofs about Persistence: the file survives crashes and failing writes  *)
(* whole, and the saver forgets no change, for any number of changes,      *)
(* failures, starts and stops.                                             *)
(***************************************************************************)
EXTENDS Persistence, TLAPS

Active == {"wait", "read", "snapshot", "write", "rename"}

\* Where everything is: no saver without a start, and numbers are numbers.
PersistType ==
  /\ generation \in Nat /\ saved \in Nat /\ current \in Nat
  /\ stopping \in BOOLEAN /\ stopped \in BOOLEAN
  /\ saver \in Active \cup {"none", "spawned", "exited"}
  /\ owner \notin {"on", "joining"} => saver = "none"
  /\ saver \in {"none", "spawned"} => ~ seen

\* Every content a file or the saver holds is one the registry had.
WholeInv ==
  /\ content \in had /\ file \in had /\ Nothing \in had
  /\ saver \in {"write", "rename"} => snapshot \in had
  /\ saver = "rename" => scratch = snapshot

\* The saver's generation says what the file lacks.  During a save the two
\* numbers it compares enclose the snapshot: what it took is at least as new as
\* `current`, and a content newer than the snapshot has a newer generation.
SaverInv ==
  /\ saver \in {"wait", "read"} =>
       saved <= generation /\ (seen => content = file \/ generation # saved)
  /\ saver \in {"snapshot", "write", "rename"} =>
       saved < current /\ current <= generation
  /\ saver \in {"write", "rename"} =>
       /\ content = snapshot \/ generation > current
       /\ stopping /\ seen => content = snapshot
  /\ saver = "exited" /\ seen /\ clean => content = file

PersistInv == PersistType /\ WholeInv /\ SaverInv

\* A change of a persistent topic at any point of the saver's pass.
LEMMA ChangeKeeps ==
  ASSUME PersistInv, NEW here \in BOOLEAN, Change(here)
  PROVE  PersistInv'
<1>1. PersistType'
  <2>1. saver \in {"none", "spawned"} => ~ seen'
    BY DEF Change
  <2>. QED  BY <2>1 DEF PersistInv, PersistType, Change, saverVars
<1>2. WholeInv'
  BY DEF PersistInv, WholeInv, Change, saverVars, diskVars
<1>3. SaverInv'
  <2>1. saver = "exited" \/ (stopping /\ saver \in {"write", "rename"}) => ~ seen'
    BY DEF Change, LastPass
  <2>2. generation' = generation + 1 /\ generation \in Nat /\ saved \in Nat /\ current \in Nat
    BY DEF PersistInv, PersistType, Change
  <2>3. UNCHANGED <<saver, saved, current, stopping, snapshot, file, clean>>
    BY DEF Change, saverVars, diskVars
  <2>. QED  BY <2>1, <2>2, <2>3 DEF PersistInv, SaverInv
<1>. QED  BY <1>1, <1>2, <1>3 DEF PersistInv

\* start, stop and a crash.
LEMMA OwnerKeeps ==
  ASSUME PersistInv,
         LoadPersistent \/ SpawnSaver \/ SignalStop \/ JoinSaver \/ Crash
  PROVE  PersistInv'
<1>1. CASE LoadPersistent
  BY <1>1 DEF PersistInv, PersistType, WholeInv, SaverInv, LoadPersistent,
              saverVars, diskVars, Active
<1>2. CASE SpawnSaver
  BY <1>2 DEF PersistInv, PersistType, WholeInv, SaverInv, SpawnSaver, diskVars, Active
<1>3. CASE SignalStop
  BY <1>3 DEF PersistInv, PersistType, WholeInv, SaverInv, SignalStop, saverVars,
              diskVars, Active
<1>4. CASE JoinSaver
  BY <1>4 DEF PersistInv, PersistType, WholeInv, SaverInv, JoinSaver, diskVars, Active
<1>5. CASE Crash
  BY <1>5 DEF PersistInv, PersistType, WholeInv, SaverInv, Crash, diskVars, Active
<1>. QED  BY <1>1, <1>2, <1>3, <1>4, <1>5

\* The steps of the saver thread.
LEMMA SaverKeeps ==
  ASSUME PersistInv, SaverStep
  PROVE  PersistInv'
<1>1. CASE Baseline
  BY <1>1 DEF PersistInv, PersistType, WholeInv, SaverInv, Baseline, diskVars, Active
<1>2. CASE Wait
  <2>1. stopping' \in BOOLEAN
    BY <1>2 DEF Wait, PersistInv, PersistType
  <2>. QED  BY <1>2, <2>1 DEF PersistInv, PersistType, WholeInv, SaverInv, Wait, diskVars, Active
<1>3. CASE ReadGeneration
  BY <1>3 DEF PersistInv, PersistType, WholeInv, SaverInv, ReadGeneration, AfterPass,
              diskVars, Active
<1>4. CASE TakeSnapshot
  BY <1>4 DEF PersistInv, PersistType, WholeInv, SaverInv, TakeSnapshot, diskVars, Active
<1>5. CASE WriteScratch
  BY <1>5 DEF PersistInv, PersistType, WholeInv, SaverInv, WriteScratch, AfterPass, Active
<1>6. CASE Rename
  BY <1>6 DEF PersistInv, PersistType, WholeInv, SaverInv, Rename, AfterPass, diskVars, Active
<1>. QED  BY <1>1, <1>2, <1>3, <1>4, <1>5, <1>6 DEF SaverStep

\* The file is whole and nothing is forgotten, at every crash, failing write,
\* stop and change (save_persistent and the saver's loop), for all bounds.
THEOREM DiskIsAlwaysSafe == PersistSpec => []DiskIsSafe
<1>1. PersistInit => PersistInv
  <2>. SUFFICES ASSUME PersistInit PROVE PersistInv
    OBVIOUS
  <2>1. PersistType
    BY DEF PersistInit, PersistType
  <2>2. WholeInv
    BY DEF PersistInit, WholeInv
  <2>3. SaverInv
    BY DEF PersistInit, SaverInv
  <2>. QED  BY <2>1, <2>2, <2>3 DEF PersistInv
<1>2. PersistInv /\ [PersistNext]_persistVars => PersistInv'
  <2>. SUFFICES ASSUME PersistInv, [PersistNext]_persistVars PROVE PersistInv'
    OBVIOUS
  <2>1. CASE UNCHANGED persistVars
    BY <2>1 DEF PersistInv, PersistType, WholeInv, SaverInv, persistVars, saverVars, diskVars
  <2>2. CASE PersistNext
    BY <2>2, ChangeKeeps, OwnerKeeps, SaverKeeps DEF PersistNext
  <2>. QED  BY <2>1, <2>2
<1>3. PersistInv => DiskIsSafe
  BY DEF PersistInv, WholeInv, SaverInv, DiskIsSafe, FileIsWhole, NothingForgotten
<1>. QED  BY <1>1, <1>2, <1>3, PTL DEF PersistSpec
=============================================================================
