---------------------------- MODULE StoreProofs -----------------------------
(***************************************************************************)
(* Proofs about Store: compare_and_set makes one owner at a time, and the  *)
(* cache and the registry agree wherever no known exception came between,  *)
(* for any number of connections, channels and topics.                     *)
(***************************************************************************)
EXTENDS Store, FiniteSetTheorems, TLAPS

Threads ==
  [pc : {"idle", "sink", "got", "cas", "upsert"}, name : Names,
   value : AllVals \cup {NoValue}, expect : AllVals \cup {NoValue}, stamp : Int]

Topics ==
  [type : Type \cup {NoValue}, stamp : Int, current : AllVals \cup {NoValue},
   retained : BOOLEAN]

StoreType ==
  /\ clock \in Int
  /\ topics \in [Names -> Topics]
  /\ cache \in [Names -> AllVals \cup {NoValue}]
  /\ thread \in [Conn -> Threads]

\* The registry's lock is held by the thread that has one write left.
LockInv ==
  /\ lock \in Conn \cup {NoValue}
  /\ \A t \in Conn : thread[t].pc \in {"sink", "upsert"} <=> lock = t

\* A won channel holds a value until its owner deletes it, values routed by the
\* registry never go to it, and an agent swaps it only from empty.
OwnerInv ==
  /\ cache[LockName] = NoValue => owners = {}
  /\ owners \subseteq Conn /\ \A a, b \in owners : a = b
  /\ \A t \in Conn :
       /\ thread[t].pc = "sink" => thread[t].name # LockName
       /\ thread[t].pc \in {"cas", "upsert"} => thread[t].value \in AllVals
       /\ thread[t].pc = "cas" /\ thread[t].name = LockName => thread[t].expect = NoValue

\* Away from the exceptions, only the channel of the lock's holder may differ,
\* and there the first of the two writes is the one the second repeats.
MirrorInv ==
  /\ \A n \in Names \ apart :
       \/ topics[n].current = NoValue
       \/ cache[n] = topics[n].current
       \/ lock \in Conn /\ thread[lock].name = n
  /\ \A t \in Conn :
       thread[t].name \notin apart =>
         /\ thread[t].pc = "sink" => topics[thread[t].name].current = thread[t].value
         /\ thread[t].pc = "upsert" => cache[thread[t].name] = thread[t].value

StoreInv == StoreType /\ LockInv /\ OwnerInv /\ MirrorInv

\* The constants have their types, and nothing is not a value.
LEMMA StoreConstants ==
  /\ LockName \in Names /\ LockName \notin Name /\ Name \subseteq Names
  /\ NoValue \notin Conn /\ NoValue \notin AllVals
  /\ Vals \subseteq AllVals
  /\ \A t \in Conn : AgentVal(t) \in AllVals
  /\ \A v \in AllVals : v[1] \in Type
  /\ NoTopic \in Topics /\ NoTopic.current = NoValue
  /\ Resting \in Threads /\ Resting.pc = "idle"
BY StoreAssumption, NothingIsNoValue
   DEF Names, AllVals, Vals, AgentVal, NoTopic, Topics, Resting, Threads, Type

\* handle_topic_value takes a value, or has a newer one.
LEMMA RetainFits ==
  ASSUME NEW T \in Topics, NEW v \in AllVals, NEW s \in Int
  PROVE  /\ Retain(T, v, s) \in Topics
         /\ Retain(T, v, s).stamp > s \/ Retain(T, v, s).current = v
<1> DEFINE taken == [T EXCEPT !.current = v, !.stamp = s]
<1>1. taken \in Topics /\ taken.current = v /\ T.stamp \in Int
  BY DEF Topics
<1>2. Retain(T, v, s) = IF T.current = NoValue \/ s >= T.stamp THEN taken ELSE T
  BY DEF Retain
<1> HIDE DEF taken
<1>. QED  BY <1>1, <1>2

\* A step of the clock, and a topic that comes without a value or goes.
LEMMA TickKeeps == StoreInv /\ Tick => StoreInv'
BY DEF StoreInv, StoreType, LockInv, OwnerInv, MirrorInv, Tick

LEMMA TopicKeeps ==
  ASSUME StoreInv, NEW t \in Conn, NEW n \in Name, NEW topic \in Topics,
         topic.current = NoValue,
         topics' = [topics EXCEPT ![n] = topic],
         UNCHANGED <<clock, cache, lock, thread, owners, apart>>,
         lock = NoValue
  PROVE  StoreInv'
<1>1. StoreType'
  BY StoreConstants DEF StoreInv, StoreType
<1>2. LockInv' /\ OwnerInv'
  BY DEF StoreInv, LockInv, OwnerInv
<1>3. MirrorInv'
  <2>1. \A u \in Conn : thread[u].pc # "sink"
    BY StoreConstants DEF StoreInv, LockInv
  <2>2. \A m \in Names : topics'[m] = IF m = n THEN topic ELSE topics[m]
    BY StoreConstants DEF StoreInv, StoreType
  <2>. QED  BY <2>1, <2>2 DEF StoreInv, MirrorInv
<1>. QED  BY <1>1, <1>2, <1>3 DEF StoreInv

\* route_binary: the registry's half of a routed value.
LEMMA RouteKeeps ==
  ASSUME StoreInv, NEW t \in Conn, NEW n \in Name, NEW value \in Vals,
         NEW sent \in 0 .. MaxClock, RouteValue(t, n, value, sent)
  PROVE  StoreInv'
<1> DEFINE stamp == ArrivalTimestamp(sent)
           topic == Retain(topics[n], value, stamp)
           moved == [Resting EXCEPT !.pc = "sink", !.name = n, !.value = value]
<1>1. /\ Idle(t) /\ lock = NoValue /\ lock' = t
      /\ topics' = [topics EXCEPT ![n] = topic]
      /\ apart' = IF topic.stamp > stamp THEN apart \cup {n} ELSE apart \ {n}
      /\ thread' = [thread EXCEPT ![t] = moved]
      /\ UNCHANGED <<clock, cache, owners>>
  BY DEF RouteValue
<1>2. /\ n \in Names /\ n # LockName /\ value \in AllVals /\ clock \in Int
      /\ topics[n] \in Topics /\ thread \in [Conn -> Threads] /\ topics \in [Names -> Topics]
  BY StoreConstants DEF StoreInv, StoreType
<1>3. stamp \in Int
  BY <1>2, StoreAssumption DEF ArrivalTimestamp
<1>4. /\ topic \in Topics
      /\ topic.stamp > stamp \/ topic.current = value
  BY <1>2, <1>3, RetainFits
<1>5. moved \in Threads /\ moved.pc = "sink" /\ moved.name = n /\ moved.value = value
  BY <1>2, StoreConstants DEF Resting, Threads
<1> HIDE DEF stamp, topic, moved
<1>6. StoreType'
  BY <1>1, <1>2, <1>4, <1>5 DEF StoreInv, StoreType
<1>7. \A u \in Conn : thread'[u] = IF u = t THEN moved ELSE thread[u]
  BY <1>1, <1>2
<1>8. LockInv'
  BY <1>1, <1>5, <1>7, StoreConstants DEF StoreInv, LockInv
<1>9. OwnerInv'
  BY <1>1, <1>2, <1>5, <1>7 DEF StoreInv, OwnerInv
<1>10. MirrorInv'
  <2>1. \A u \in Conn : thread[u].pc \notin {"sink", "upsert"}
    BY <1>1, StoreConstants DEF StoreInv, LockInv
  <2>2. \A m \in Names : topics'[m] = IF m = n THEN topic ELSE topics[m]
    BY <1>1, <1>2
  <2>3. ASSUME NEW m \in Names \ apart'
        PROVE  \/ topics'[m].current = NoValue \/ cache'[m] = topics'[m].current
               \/ lock' \in Conn /\ thread'[lock'].name = m
    <3>1. CASE m = n
      BY <3>1, <1>1, <1>5, <1>7
    <3>2. CASE m # n
      BY <3>2, <2>2, <1>1, StoreConstants DEF StoreInv, MirrorInv
    <3>. QED  BY <3>1, <3>2
  <2>4. ASSUME NEW u \in Conn, thread'[u].name \notin apart'
        PROVE  /\ thread'[u].pc = "sink" => topics'[thread'[u].name].current = thread'[u].value
               /\ thread'[u].pc = "upsert" => cache'[thread'[u].name] = thread'[u].value
    BY <2>1, <2>2, <2>4, <1>1, <1>2, <1>4, <1>5, <1>7
  <2>. QED  BY <2>3, <2>4 DEF MirrorInv
<1>. QED  BY <1>6, <1>8, <1>9, <1>10 DEF StoreInv

\* value_sink: the cache's half of a routed value.
LEMMA SinkKeeps ==
  ASSUME StoreInv, NEW t \in Conn, ValueSink(t)
  PROVE  StoreInv'
<1> DEFINE n == thread[t].name
           room == n \in Cached \/ Cardinality(Cached) < MaxTopics
<1>1. /\ thread[t].pc = "sink" /\ lock' = NoValue
      /\ cache' = IF room THEN [cache EXCEPT ![n] = thread[t].value] ELSE cache
      /\ apart' = IF room THEN apart ELSE apart \cup {n}
      /\ thread' = [thread EXCEPT ![t] = Resting]
      /\ UNCHANGED <<clock, topics, owners>>
  BY DEF ValueSink
<1>2. /\ thread[t] \in Threads /\ n \in Names /\ n # LockName /\ lock = t
      /\ thread[t].value \in AllVals \cup {NoValue}
      /\ n \notin apart => topics[n].current = thread[t].value
  BY <1>1 DEF StoreInv, StoreType, LockInv, OwnerInv, MirrorInv, Threads
<1> HIDE DEF n, room
<1>3. StoreType'
  BY <1>1, <1>2, StoreConstants DEF StoreInv, StoreType
<1>4. \A u \in Conn : thread'[u] = IF u = t THEN Resting ELSE thread[u]
  BY <1>1 DEF StoreInv, StoreType
<1>5. LockInv'
  BY <1>1, <1>2, <1>4, StoreConstants DEF StoreInv, LockInv
<1>6. \A m \in Names : m # n => cache'[m] = cache[m]
  BY <1>1 DEF StoreInv, StoreType
<1>7. OwnerInv'
  BY <1>1, <1>2, <1>4, <1>6, StoreConstants DEF StoreInv, OwnerInv
<1>8. \A u \in Conn : thread'[u].pc \notin {"sink", "upsert"}
  BY <1>1, <1>2, <1>4, StoreConstants DEF StoreInv, LockInv
<1>9. n \notin apart' => cache'[n] = topics'[n].current
  BY <1>1, <1>2 DEF StoreInv, StoreType
<1>10. MirrorInv'
  BY <1>1, <1>2, <1>6, <1>8, <1>9 DEF StoreInv, MirrorInv, n
<1>. QED  BY <1>3, <1>5, <1>7, <1>10 DEF StoreInv

\* A get, and the start of a compare_and_set: no data moves.
LEMMA RequestKeeps ==
  ASSUME StoreInv, NEW t \in Conn, NEW entry \in Threads,
         thread[t].pc \in {"idle", "got"}, entry.pc \in {"got", "cas"},
         entry.pc = "cas" => entry.value \in AllVals,
         entry.pc = "cas" /\ entry.name = LockName => entry.expect = NoValue,
         thread' = [thread EXCEPT ![t] = entry],
         UNCHANGED <<clock, topics, cache, lock, owners, apart>>
  PROVE  StoreInv'
<1>1. StoreType'
  BY DEF StoreInv, StoreType
<1>2. \A u \in Conn : thread'[u] = IF u = t THEN entry ELSE thread[u]
  BY DEF StoreInv, StoreType
<1>3. LockInv'
  BY <1>2 DEF StoreInv, LockInv
<1>4. OwnerInv'
  BY <1>2 DEF StoreInv, OwnerInv
<1>5. lock # t
  BY DEF StoreInv, LockInv
<1>6. MirrorInv'
  BY <1>2, <1>5 DEF StoreInv, MirrorInv
<1>. QED  BY <1>1, <1>3, <1>4, <1>6 DEF StoreInv

\* Delete of one channel or of all.
LEMMA DeleteKeeps ==
  ASSUME StoreInv, NEW t \in Conn, NEW names \in SUBSET Names, Delete(t, names)
  PROVE  StoreInv'
<1>1. /\ cache' = [n \in Names |-> IF n \in names THEN NoValue ELSE cache[n]]
      /\ owners' = IF LockName \in names THEN {} ELSE owners
      /\ apart' = apart \cup names
      /\ UNCHANGED <<clock, topics, lock, thread>>
  BY DEF Delete
<1>2. StoreType' /\ LockInv'
  BY <1>1 DEF StoreInv, StoreType, LockInv
<1>3. OwnerInv'
  BY <1>1, StoreConstants DEF StoreInv, OwnerInv
<1>4. \A u \in Conn : thread[u].name \in Names
  BY DEF StoreInv, StoreType, Threads
<1>5. MirrorInv'
  BY <1>1, <1>4 DEF StoreInv, MirrorInv
<1>. QED  BY <1>2, <1>3, <1>5 DEF StoreInv

\* compare_and_set: the comparison and the cache's half of the swap.
LEMMA CompareKeeps ==
  ASSUME StoreInv, NEW t \in Conn, CompareAndSet(t)
  PROVE  StoreInv'
<1> DEFINE n == thread[t].name
           value == thread[t].value
           swaps == /\ cache[n] = thread[t].expect
                    /\ n \in Cached \/ Cardinality(Cached) < MaxTopics
           moved == IF swaps THEN [thread[t] EXCEPT !.pc = "upsert"] ELSE Resting
<1>1. /\ thread[t].pc = "cas" /\ lock = NoValue
      /\ thread' = [thread EXCEPT ![t] = moved]
      /\ cache' = IF swaps THEN [cache EXCEPT ![n] = value] ELSE cache
      /\ owners' = IF swaps /\ n = LockName THEN owners \cup {t} ELSE owners
      /\ apart' = IF swaps THEN apart \ {n} ELSE apart
      /\ lock' = IF swaps THEN t ELSE NoValue
      /\ UNCHANGED <<clock, topics>>
  BY DEF CompareAndSet
<1>2. /\ thread[t] \in Threads /\ n \in Names /\ value \in AllVals
      /\ n = LockName /\ swaps => cache[LockName] = NoValue
  BY <1>1 DEF StoreInv, StoreType, OwnerInv, Threads
<1>3. /\ moved \in Threads
      /\ swaps => moved.pc = "upsert" /\ moved.name = n /\ moved.value = value
      /\ ~ swaps => moved.pc = "idle"
  BY <1>2, StoreConstants DEF Threads
<1> HIDE DEF n, value, swaps, moved
<1>4. StoreType'
  BY <1>1, <1>2, <1>3 DEF StoreInv, StoreType
<1>5. \A u \in Conn : thread'[u] = IF u = t THEN moved ELSE thread[u]
  BY <1>1 DEF StoreInv, StoreType
<1>6. \A u \in Conn : thread[u].pc \notin {"sink", "upsert"}
  BY <1>1, StoreConstants DEF StoreInv, LockInv
<1>7. LockInv'
  BY <1>1, <1>3, <1>5, <1>6, StoreConstants DEF StoreInv, LockInv
<1>8. \A m \in Names : cache'[m] = IF swaps /\ m = n THEN value ELSE cache[m]
  BY <1>1 DEF StoreInv, StoreType
<1>9. OwnerInv'
  <2>1. cache'[LockName] = NoValue => owners' = {}
    BY <1>1, <1>2, <1>8, StoreConstants DEF StoreInv, OwnerInv
  <2>2. owners' \subseteq Conn /\ \A a, b \in owners' : a = b
    BY <1>1, <1>2 DEF StoreInv, OwnerInv
  <2>3. ASSUME NEW u \in Conn
        PROVE  /\ thread'[u].pc = "sink" => thread'[u].name # LockName
               /\ thread'[u].pc \in {"cas", "upsert"} => thread'[u].value \in AllVals
               /\ thread'[u].pc = "cas" /\ thread'[u].name = LockName =>
                    thread'[u].expect = NoValue
    BY <1>2, <1>3, <1>5 DEF StoreInv, OwnerInv
  <2>. QED  BY <2>1, <2>2, <2>3 DEF OwnerInv
<1>10. MirrorInv'
  <2>1. ASSUME NEW m \in Names \ apart'
        PROVE  \/ topics'[m].current = NoValue \/ cache'[m] = topics'[m].current
               \/ lock' \in Conn /\ thread'[lock'].name = m
    <3>1. CASE swaps /\ m = n
      BY <3>1, <1>1, <1>3, <1>5
    <3>2. CASE ~ (swaps /\ m = n)
      BY <3>2, <1>1, <1>8, StoreConstants DEF StoreInv, MirrorInv
    <3>. QED  BY <3>1, <3>2
  <2>2. ASSUME NEW u \in Conn, thread'[u].name \notin apart'
        PROVE  /\ thread'[u].pc = "sink" => topics'[thread'[u].name].current = thread'[u].value
               /\ thread'[u].pc = "upsert" => cache'[thread'[u].name] = thread'[u].value
    BY <1>2, <1>3, <1>5, <1>6, <1>8
  <2>. QED  BY <2>1, <2>2 DEF MirrorInv
<1>. QED  BY <1>4, <1>7, <1>9, <1>10 DEF StoreInv

\* handle_upsert_value: the registry's half of the swap.
LEMMA UpsertKeeps ==
  ASSUME StoreInv, NEW t \in Conn, Upsert(t)
  PROVE  StoreInv'
<1> DEFINE n == thread[t].name
           value == thread[t].value
           room == n \in HasTopic \/ Cardinality(HasTopic) < MaxTopics
           before == IF n \in HasTopic THEN topics[n]
                     ELSE [NoTopic EXCEPT !.type = value[1], !.retained = TRUE]
           topic == IF before.type = value[1] THEN Retain(before, value, thread[t].stamp)
                    ELSE before
<1>1. /\ thread[t].pc = "upsert" /\ lock' = NoValue
      /\ topics' = IF room THEN [topics EXCEPT ![n] = topic] ELSE topics
      /\ apart' = IF room /\ topic.current = value /\ topic.stamp = thread[t].stamp
                  THEN apart ELSE apart \cup {n}
      /\ thread' = [thread EXCEPT ![t] = Resting]
      /\ UNCHANGED <<clock, cache, owners>>
  BY DEF Upsert
<1>2. /\ thread[t] \in Threads /\ n \in Names /\ value \in AllVals /\ lock = t
      /\ thread[t].stamp \in Int
      /\ n \notin apart => cache[n] = value
  BY <1>1 DEF StoreInv, StoreType, LockInv, OwnerInv, MirrorInv, Threads
<1>3. before \in Topics
  <2>1. n \in HasTopic => before \in Topics
    BY <1>2 DEF StoreInv, StoreType
  <2>2. n \notin HasTopic => before \in Topics
    BY <1>2, StoreConstants DEF NoTopic, Topics
  <2>. QED  BY <2>1, <2>2
<1> HIDE DEF before
<1>4. topic \in Topics
  BY <1>2, <1>3, RetainFits
<1> HIDE DEF n, value, room, topic
<1>5. StoreType'
  BY <1>1, <1>2, <1>4, StoreConstants DEF StoreInv, StoreType
<1>6. \A u \in Conn : thread'[u] = IF u = t THEN Resting ELSE thread[u]
  BY <1>1 DEF StoreInv, StoreType
<1>7. LockInv'
  BY <1>1, <1>2, <1>6, StoreConstants DEF StoreInv, LockInv
<1>8. OwnerInv'
  BY <1>1, <1>6, StoreConstants DEF StoreInv, OwnerInv
<1>9. \A u \in Conn : thread'[u].pc \notin {"sink", "upsert"}
  BY <1>1, <1>2, <1>6, StoreConstants DEF StoreInv, LockInv
<1>10. \A m \in Names : m # n => topics'[m] = topics[m]
  BY <1>1 DEF StoreInv, StoreType
<1>11. n \notin apart' => cache'[n] = topics'[n].current
  BY <1>1, <1>2 DEF StoreInv, StoreType
<1>12. MirrorInv'
  BY <1>1, <1>2, <1>9, <1>10, <1>11 DEF StoreInv, MirrorInv, n
<1>. QED  BY <1>5, <1>7, <1>8, <1>12 DEF StoreInv

\* Every step of the server's threads keeps the invariant.
LEMMA StoreStep == StoreInv /\ [StoreNext]_storeVars => StoreInv'
<1>. SUFFICES ASSUME StoreInv, [StoreNext]_storeVars PROVE StoreInv'
  OBVIOUS
<1>1. CASE UNCHANGED storeVars
  BY <1>1 DEF StoreInv, StoreType, LockInv, OwnerInv, MirrorInv, storeVars
<1>2. ASSUME NEW t \in Conn, NEW n \in Name, NEW type \in Type, PublishTopic(t, n, type)
      PROVE  StoreInv'
  <2>1. /\ [NoTopic EXCEPT !.type = type] \in Topics
        /\ [NoTopic EXCEPT !.type = type].current = NoValue
    BY StoreConstants DEF Topics
  <2>. QED  BY <1>2, <2>1, TopicKeeps DEF PublishTopic
<1>3. ASSUME NEW t \in Conn, NEW n \in Name, UnpublishTopic(t, n)
      PROVE  StoreInv'
  BY <1>3, TopicKeeps, StoreConstants DEF UnpublishTopic
<1>4. ASSUME NEW t \in Conn, NEW n \in Names, GetData(t, n)
      PROVE  StoreInv'
  <2> DEFINE entry == [Resting EXCEPT !.pc = "got", !.name = n, !.expect = cache[n]]
  <2>1. entry \in Threads /\ entry.pc = "got"
    BY StoreConstants DEF StoreInv, StoreType, Resting, Threads
  <2>2. /\ thread[t].pc = "idle" /\ thread' = [thread EXCEPT ![t] = entry]
        /\ UNCHANGED <<clock, topics, cache, lock, owners, apart>>
    BY <1>4 DEF GetData, Idle
  <2> HIDE DEF entry
  <2>. QED  BY <2>1, <2>2, RequestKeeps
<1>5. ASSUME NEW t \in Conn, NEW value \in AllVals, StartCompareAndSet(t, value)
      PROVE  StoreInv'
  <2> DEFINE entry == [thread[t] EXCEPT !.pc = "cas", !.value = value, !.stamp = clock]
  <2>1. /\ thread[t] \in Threads /\ clock \in Int /\ thread \in [Conn -> Threads]
    BY DEF StoreInv, StoreType
  <2>2. /\ entry \in Threads /\ entry.pc = "cas" /\ entry.value = value
        /\ entry.name = thread[t].name /\ entry.expect = thread[t].expect
    BY <2>1 DEF Threads
  <2>3. /\ thread[t].pc = "got" /\ thread' = [thread EXCEPT ![t] = entry]
        /\ thread[t].name = LockName => thread[t].expect = NoValue
        /\ UNCHANGED <<clock, topics, cache, lock, owners, apart>>
    BY <1>5, <2>1 DEF StartCompareAndSet
  <2> HIDE DEF entry
  <2>. QED  BY <2>2, <2>3, RequestKeeps
<1>6. ASSUME NEW t \in Conn, NEW names \in {{n} : n \in Names} \cup {Names}, Delete(t, names)
      PROVE  StoreInv'
  BY <1>6, DeleteKeeps
<1>. QED  BY <1>1, <1>2, <1>3, <1>4, <1>5, <1>6, TickKeeps, RouteKeeps, SinkKeeps,
             CompareKeeps, UpsertKeeps DEF StoreNext

LEMMA StoreStart == StoreInit => StoreInv
<1>. SUFFICES ASSUME StoreInit PROVE StoreInv
  OBVIOUS
<1>1. StoreType
  BY StoreConstants DEF StoreInit, StoreType
<1>2. LockInv /\ OwnerInv
  BY StoreConstants DEF StoreInit, LockInv, OwnerInv
<1>3. MirrorInv
  BY StoreConstants DEF StoreInit, MirrorInv
<1>. QED  BY <1>1, <1>2, <1>3 DEF StoreInv

\* compare_and_set is a lock service for any number of agents: two of them
\* never both hold the channel (client.rs:559, "Atomic on the server").
THEOREM OneOwnerAlways == StoreSpec => []OneOwner
<1>1. StoreInv => OneOwner
  <2>. SUFFICES ASSUME StoreInv PROVE Cardinality(owners) <= 1
    BY DEF OneOwner
  <2>1. CASE owners = {}
    BY <2>1, FS_EmptySet
  <2>2. CASE owners # {}
    <3>1. PICK a \in owners : owners = {a}
      BY <2>2 DEF StoreInv, OwnerInv
    <3>. QED  BY <3>1, FS_Singleton
  <2>. QED  BY <2>1, <2>2
<1>. QED  BY <1>1, StoreStart, StoreStep, PTL DEF StoreSpec

\* A value and its mirror never drift apart but for the known exceptions
\* (route_binary with its value sink, compare_and_set with its upsert), for
\* any number of connections and channels.
THEOREM CacheAgreesAlways == StoreSpec => []AgreeUnlessApart
<1>1. StoreInv => AgreeUnlessApart
  BY StoreConstants DEF StoreInv, MirrorInv, AgreeUnlessApart, HasTopic
<1>. QED  BY <1>1, StoreStart, StoreStep, PTL DEF StoreSpec
=============================================================================
