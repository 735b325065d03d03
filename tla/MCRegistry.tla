----------------------------- MODULE MCRegistry -----------------------------
(***************************************************************************)
(* Small instances of Registry for TLC: the subscriptions, properties and  *)
(* saved files that the configurations choose from.                        *)
(***************************************************************************)
EXTENDS Registry, TLC

CONSTANTS t1, t2, robot, d1, d2

None == {}
OneTopic == {t1}
TwoTopics == {t1, t2}
TopicsAlike == Permutations(TwoTopics)

Sub(patterns, prefix, topicsOnly) ==
  [patterns |-> patterns, prefix |-> prefix, topicsOnly |-> topicsOnly]

\* Subscriptions to everything, to t1's values, to t1's announcements only, and
\* to the meta topics.
SubAll == Sub({Everything}, TRUE, FALSE)
SubT1 == Sub({Name(t1)}, FALSE, FALSE)
SubT1TopicsOnly == Sub({Name(t1)}, FALSE, TRUE)
SubMetas == Sub({Dollar}, TRUE, FALSE)

ToT1 == {SubT1}
ToAll == {SubAll}
ToMetas == {SubMetas}
ToT1InTwoWays == {SubAll, SubT1TopicsOnly}
ToT1Twice == {SubAll, SubT1}

\* Property maps and updates.
One(key, flag) == [k \in {key} |-> flag]
Plain == {EmptyMap}
PlainOrPersistent == {EmptyMap, One("persistent", TRUE)}
Setting(key, flag) == [set |-> One(key, flag), unset |-> {}]
Clearing(key) == [set |-> EmptyMap, unset |-> {key}]
PersistenceUpdates ==
  {Setting("persistent", TRUE), Clearing("persistent"),
   Setting("retained", TRUE), Clearing("retained"),
   Setting("cached", FALSE), Clearing("cached")}

Saved(t) == [name |-> Name(t), type |-> "double",
             value |-> [type |-> "double", data |-> d1],
             properties |-> One("persistent", TRUE)]
SavedBoth == {Saved(t1), Saved(t2)}
SavedT1 == {Saved(t1)}
=============================================================================
