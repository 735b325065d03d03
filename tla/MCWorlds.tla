------------------------------ MODULE MCWorlds ------------------------------
(***************************************************************************)
(* One run of Registry over several small worlds.  A world limits what the *)
(* clients and the server do; every step of it is a step of Registry.      *)
(***************************************************************************)
EXTENDS MCRegistry

VARIABLE world

TopicsOnly(t) == Sub({Name(t)}, FALSE, TRUE)

World(topics, clients, pubUids, subUids, subs) ==
  [topics |-> topics, clients |-> clients, pubUids |-> pubUids, subUids |-> subUids,
   subs |-> subs, types |-> {"double"}, data |-> {}, stamps |-> {0}, props |-> Plain,
   updates |-> {}, upserts |-> {}, saved |-> {}, restarts |-> 0]

\* Every subscription some world makes.
AnySub == ToAll \cup ToMetas \cup ToT1InTwoWays \cup ToT1
            \cup {TopicsOnly(t) : t \in TwoTopics}

\* Two clients share two topics; meta topics of one topic; the uids of one
\* client run out.
ClientWorlds ==
  {World(TwoTopics, 2, {1}, {1}, ToAll)}
    \cup {World({t}, 2, {1}, {1}, ToMetas) : t \in TwoTopics}
    \cup {World({t}, 1, {1, 2, 3}, {1, 2, 3}, {TopicsOnly(t)}) : t \in TwoTopics}

\* Values, properties and a saved topic; a restart with topics the server
\* writes itself; two subscriptions of one client to the same topic.
ValueWorlds ==
  {[World(OneTopic, 1, {1}, {1}, ToT1) EXCEPT
      !.types = {"double", "string"}, !.data = {d1}, !.stamps = {0, 1},
      !.props = PlainOrPersistent, !.updates = PersistenceUpdates, !.saved = SavedT1],
   [World(TwoTopics, 1, {1}, {1}, ToT1) EXCEPT
      !.data = {d1}, !.upserts = OneTopic, !.saved = SavedBoth, !.restarts = 1],
   [World(OneTopic, 2, {1}, {1, 2}, ToT1InTwoWays) EXCEPT !.data = {d1}]}

ValuesIn(w) == {v \in Value : v.type \in w.types /\ v.data \in w.data}

FilesOf(w) == {entries \in Files : entries \subseteq w.saved}

WorldInit ==
  /\ \E entries \in FilesOf(world), now \in world.stamps :
       reg \in RestorePersistent(EmptyRegistry, entries, now)
  /\ nextClient = 0
  /\ restarts = 0

WorldNext ==
  /\ UNCHANGED world
  /\ \/ nextClient < world.clients /\ \E base \in BaseName : Connect(base)
     \/ \E c \in Clients(reg) : Disconnect(c)
     \/ \E c \in Clients(reg), t \in world.topics, uid \in world.pubUids,
           type \in world.types, properties \in world.props :
          Publish(c, t, uid, type, properties)
     \/ \E c \in Clients(reg), uid \in world.pubUids : Unpublish(c, uid)
     \/ \E c \in Clients(reg), uid \in world.subUids, input \in world.subs :
          Subscribe(c, uid, input)
     \/ \E c \in Clients(reg), uid \in world.subUids : Unsubscribe(c, uid)
     \/ \E c \in Clients(reg), uid \in world.pubUids, value \in ValuesIn(world),
           ts \in world.stamps : PublishValue(c, uid, value, ts)
     \/ \E c \in Clients(reg), t \in world.topics, update \in world.updates :
          SetProperties(c, t, update)
     \/ \E t \in world.upserts, value \in ValuesIn(world), ts \in world.stamps :
          UpsertValue(t, value, ts)
     \/ /\ restarts < world.restarts
        /\ \E entries \in FilesOf(world), now \in world.stamps : Restart(entries, now)

worldVars == <<vars, world>>
ClientsInit == world \in ClientWorlds /\ WorldInit
ValuesInit == world \in ValueWorlds /\ WorldInit
ClientsSpec == ClientsInit /\ [][WorldNext]_worldVars
ValuesSpec == ValuesInit /\ [][WorldNext]_worldVars

\* A subscriber of a cached topic that holds a value has been sent one
\* (handle_subscribe, route_value), where no setproperties switches caching on
\* after it subscribed and no restart gives it an older client's id.
HoldAValueUnlessSwitched ==
  world.restarts = 0 /\ world.updates = {} => SubscribersHoldAValue
=============================================================================
