------------------------------- MODULE Store --------------------------------
(***************************************************************************)
(* The server's read cache beside the topic registry (core/src/server.rs,  *)
(* core/src/websocket/server.rs): connection threads that publish values,  *)
(* get, delete and compare-and-set.  A value is written to the registry    *)
(* and then, by the value sink, to the cache; a compare-and-set to the     *)
(* cache and then to the registry.  Each holds the registry's lock across  *)
(* both writes, and the cache's own lock for one of them.                  *)
(***************************************************************************)
EXTENDS Integers, FiniteSets

CONSTANTS
  Conn,        \* connection threads of the server
  Name,        \* channels
  LockName,    \* the channel agents compete for with compare_and_set
  Datum,       \* what values hold, besides the names of the agents
  MaxTopics,   \* MAX_TOPICS
  MaxClock,    \* bound: the server's clock, in microseconds
  NoValue      \* nothing

ASSUME StoreAssumption ==
  /\ MaxTopics \in Nat \ {0} /\ MaxClock \in Nat \ {0}
  /\ LockName \notin Name
  /\ NoValue \notin Conn

VARIABLES
  clock,       \* now_micros
  topics,      \* NtRegistry: the topics by name
  cache,       \* cached_messages: the newest value by name
  lock,        \* the holder of the registry's lock
  thread,      \* what each connection thread is doing
  owners,      \* agents that won LockName and have not given it back
  apart        \* names whose cache and registry were written differently

storeVars == <<clock, topics, cache, lock, thread, owners, apart>>

Names == Name \cup {LockName}
Type == {"int", "string"}
Vals == Type \X Datum
AgentVal(t) == <<"string", t>>
AllVals == Vals \cup {AgentVal(t) : t \in Conn}

ASSUME NothingIsNoValue == NoValue \notin AllVals

NoTopic == [type |-> NoValue, stamp |-> 0, current |-> NoValue, retained |-> FALSE]
Resting == [pc |-> "idle", name |-> LockName, value |-> NoValue,
            expect |-> NoValue, stamp |-> 0]

\* Names with a topic; names with a cached value.
HasTopic == {n \in Names : topics[n] # NoTopic}
Cached == {n \in Names : cache[n] # NoValue}

StoreInit ==
  /\ clock = 1
  /\ topics = [n \in Names |-> NoTopic]
  /\ cache = [n \in Names |-> NoValue]
  /\ lock = NoValue
  /\ thread = [t \in Conn |-> Resting]
  /\ owners = {}
  /\ apart = {}

Idle(t) == thread[t].pc = "idle"

Tick ==
  /\ clock < MaxClock
  /\ clock' = clock + 1
  /\ UNCHANGED <<topics, cache, lock, thread, owners, apart>>

-----------------------------------------------------------------------------
(* The registry's side.                                                     *)

\* A publish makes the topic, with the type it declares.
PublishTopic(t, n, type) ==
  /\ Idle(t) /\ lock = NoValue
  /\ n \notin HasTopic /\ Cardinality(HasTopic) < MaxTopics
  /\ topics' = [topics EXCEPT ![n] = [NoTopic EXCEPT !.type = type]]
  /\ UNCHANGED <<clock, cache, lock, thread, owners, apart>>

\* The last publisher leaves: a topic that is not retained goes.  Its cached
\* value stays.
UnpublishTopic(t, n) ==
  /\ Idle(t) /\ lock = NoValue
  /\ n \in HasTopic /\ ~topics[n].retained
  /\ topics' = [topics EXCEPT ![n] = NoTopic]
  /\ UNCHANGED <<clock, cache, lock, thread, owners, apart>>

\* handle_topic_value, for a value of the topic's type: kept unless a newer
\* one is.
Retain(topic, value, stamp) ==
  IF topic.current = NoValue \/ stamp >= topic.stamp
  THEN [topic EXCEPT !.current = value, !.stamp = stamp]
  ELSE topic

\* arrival_timestamp.
ArrivalTimestamp(sent) == IF sent = 0 \/ sent > clock THEN clock ELSE sent

\* mutant: the lock is let go before the value is mirrored
RouteUnlocked(t, n, value, sent) ==
  /\ Idle(t) /\ lock = NoValue
  /\ n \in HasTopic /\ topics[n].type = value[1]
  /\ topics' = [topics EXCEPT ![n] = Retain(@, value, ArrivalTimestamp(sent))]
  /\ apart' = IF topics'[n].stamp > ArrivalTimestamp(sent) THEN apart \cup {n}
              ELSE apart \ {n}
  /\ thread' = [thread EXCEPT ![t] =
       [Resting EXCEPT !.pc = "sink", !.name = n, !.value = value]]
  /\ UNCHANGED <<clock, cache, lock, owners>>

\* route_binary: the registry takes the value, or ignores one of another type.
RouteValue(t, n, value, sent) ==
  /\ Idle(t) /\ lock = NoValue
  /\ n \in HasTopic /\ topics[n].type = value[1]
  /\ LET stamp == ArrivalTimestamp(sent)
         topic == Retain(topics[n], value, stamp)
     IN /\ topics' = [topics EXCEPT ![n] = topic]
        /\ apart' = IF topic.stamp > stamp THEN apart \cup {n} ELSE apart \ {n}
  /\ lock' = t
  /\ thread' = [thread EXCEPT ![t] =
       [Resting EXCEPT !.pc = "sink", !.name = n, !.value = value]]
  /\ UNCHANGED <<clock, cache, owners>>

\* value_sink: a full cache takes no new name.
ValueSink(t) ==
  LET n == thread[t].name
      room == n \in Cached \/ Cardinality(Cached) < MaxTopics
  IN /\ thread[t].pc = "sink"
     /\ cache' = IF room THEN [cache EXCEPT ![n] = thread[t].value] ELSE cache
     /\ apart' = IF room THEN apart ELSE apart \cup {n}
     /\ thread' = [thread EXCEPT ![t] = Resting]
     /\ lock' = NoValue
     /\ UNCHANGED <<clock, topics, owners>>

-----------------------------------------------------------------------------
(* The control requests.                                                    *)

\* Data: the client learns the cached value, and may compare with it later.
GetData(t, n) ==
  /\ Idle(t)
  /\ thread' = [thread EXCEPT ![t] =
       [Resting EXCEPT !.pc = "got", !.name = n, !.expect = cache[n]]]
  /\ UNCHANGED <<clock, topics, cache, lock, owners, apart>>

\* Delete, of one channel or, with an empty name, of all; an agent gives
\* LockName back this way.  The registry is not told.
Delete(t, names) ==
  /\ Idle(t)
  /\ LockName \in names => owners \subseteq {t}
  /\ cache' = [n \in Names |-> IF n \in names THEN NoValue ELSE cache[n]]
  /\ owners' = IF LockName \in names THEN {} ELSE owners
  /\ apart' = apart \cup names
  /\ UNCHANGED <<clock, topics, lock, thread>>

\* CompareAndSet reads the clock before it takes the registry's lock.
StartCompareAndSet(t, value) ==
  /\ thread[t].pc = "got"
  /\ thread[t].name = LockName =>
       thread[t].expect = NoValue /\ value = AgentVal(t)
  /\ thread' = [thread EXCEPT ![t].pc = "cas", ![t].value = value,
                              ![t].stamp = clock]
  /\ UNCHANGED <<clock, topics, cache, lock, owners, apart>>

\* mutant: swaps whatever the channel holds
SwapBlindly(t) ==
  LET n == thread[t].name
  IN /\ thread[t].pc = "cas" /\ lock = NoValue
     /\ cache' = [cache EXCEPT ![n] = thread[t].value]
     /\ owners' = IF n = LockName THEN owners \cup {t} ELSE owners
     /\ lock' = t
     /\ thread' = [thread EXCEPT ![t].pc = "upsert"]
     /\ UNCHANGED <<clock, topics, apart>>

\* compare_and_set, under the registry's lock: it swaps if the channel holds
\* what is expected, and a new channel fits.
CompareAndSet(t) ==
  LET n == thread[t].name
      swaps == /\ cache[n] = thread[t].expect
               /\ n \in Cached \/ Cardinality(Cached) < MaxTopics
  IN /\ thread[t].pc = "cas" /\ lock = NoValue
     /\ IF swaps
        THEN /\ cache' = [cache EXCEPT ![n] = thread[t].value]
             /\ owners' = IF n = LockName THEN owners \cup {t} ELSE owners
             /\ apart' = apart \ {n}
             /\ lock' = t
             /\ thread' = [thread EXCEPT ![t].pc = "upsert"]
        ELSE /\ thread' = [thread EXCEPT ![t] = Resting]
             /\ UNCHANGED <<cache, owners, lock, apart>>
     /\ UNCHANGED <<clock, topics>>

\* handle_upsert_value: a topic is made if there is room, and takes a value of
\* its type.
Upsert(t) ==
  LET n == thread[t].name
      value == thread[t].value
      room == n \in HasTopic \/ Cardinality(HasTopic) < MaxTopics
      before == IF n \in HasTopic THEN topics[n]
                ELSE [NoTopic EXCEPT !.type = value[1], !.retained = TRUE]
      topic == IF before.type = value[1] THEN Retain(before, value, thread[t].stamp)
               ELSE before
  IN /\ thread[t].pc = "upsert"
     /\ topics' = IF room THEN [topics EXCEPT ![n] = topic] ELSE topics
     /\ apart' = IF room /\ topic.current = value /\ topic.stamp = thread[t].stamp
                 THEN apart ELSE apart \cup {n}
     /\ lock' = NoValue
     /\ thread' = [thread EXCEPT ![t] = Resting]
     /\ UNCHANGED <<clock, cache, owners>>

-----------------------------------------------------------------------------
StoreNext ==
  \/ Tick
  \/ \E t \in Conn, n \in Name :
       \/ \E type \in Type : PublishTopic(t, n, type)
       \/ UnpublishTopic(t, n)
       \/ \E value \in Vals, sent \in 0 .. MaxClock : RouteValue(t, n, value, sent)
  \/ \E t \in Conn :
       \/ ValueSink(t)
       \/ \E n \in Names : GetData(t, n)
       \/ \E names \in {{n} : n \in Names} \cup {Names} : Delete(t, names)
       \/ \E value \in AllVals : StartCompareAndSet(t, value)
       \/ CompareAndSet(t) \/ Upsert(t)

StoreSpec == StoreInit /\ [][StoreNext]_storeVars

-----------------------------------------------------------------------------
\* compare_and_set is a lock service ("Atomic on the server, unlike get then
\* publish", client.rs:559): agents that read the channel, find it empty and
\* set it to themselves never both win, whatever else the server does.
OneOwner == Cardinality(owners) <= 1

\* A value and its mirror are written in one order: when nobody holds the
\* registry's lock, the cache and the registry agree on every channel but
\* those whose last write was one of the known exceptions: a delete, a stamp
\* older than the topic's, another type, a full cache or registry.
AgreeUnlessApart ==
  lock = NoValue =>
    \A n \in HasTopic \ apart :
      topics[n].current # NoValue => cache[n] = topics[n].current
=============================================================================
