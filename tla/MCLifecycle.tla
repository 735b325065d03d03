---------------------------- MODULE MCLifecycle -----------------------------
(***************************************************************************)
(* Two parts of the server that stop and start together but share no state *)
(* in the model, in one run: the saver of persistent topics; and start,    *)
(* stop, the accept loop and the connections' threads.  The first state    *)
(* chooses the part, and only that part moves.                             *)
(***************************************************************************)
EXTENDS Persistence, Lifecycle

VARIABLE part

LifecycleInit == part \in {"saver", "threads"} /\ PersistInit /\ LifeInit

LifecycleNext ==
  /\ UNCHANGED part
  /\ \/ part = "saver" /\ PersistNext /\ UNCHANGED lifeVars
     \/ part = "threads" /\ LifeNext /\ UNCHANGED persistVars

LifecycleSpec ==
  /\ LifecycleInit /\ [][LifecycleNext]_<<persistVars, lifeVars, part>>
  /\ PersistFairness /\ LifeFairness
=============================================================================
