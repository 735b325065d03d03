--------------------------- MODULE RegistryProofs ---------------------------
(***************************************************************************)
(* Proofs about Registry for every value of its constants.                 *)
(***************************************************************************)
EXTENDS Registry, FiniteSetTheorems, WellFoundedInduction, TLAPS

\* The brand-new ids of k allocations are k ids.
LEMMA IntervalSize ==
  ASSUME NEW a \in Nat, NEW k \in Nat
  PROVE  Cardinality(a .. (a + k - 1)) = k
<1> DEFINE b == a + k - 1
<1>1. a \in Int /\ b \in Int
  OBVIOUS
<1> HIDE DEF b
<1>2. Cardinality(a .. b) = IF a > b THEN 0 ELSE b - a + 1
  BY <1>1, FS_Interval
<1> QED
  BY <1>2 DEF b

\* A nonempty set of naturals has a least element.
LEMMA LeastElement ==
  ASSUME NEW S, S \subseteq Nat, S # {}
  PROVE  \E x \in S : \A y \in S : x <= y
<1>1. \E x \in S : \A y \in S : ~(<<y, x>> \in OpToRel(<, Nat))
  BY NatLessThanWellFounded, WFMin
<1>2. ASSUME NEW x \in S, NEW y \in S, ~(<<y, x>> \in OpToRel(<, Nat))
      PROVE  x <= y
  BY <1>2 DEF OpToRel
<1> QED
  BY <1>1, <1>2

\* alloc_id returns a freed id, or the next one when none is free.
LEMMA AllocIdFresh ==
  ASSUME NEW r, r.freed \subseteq Nat
  PROVE  IF r.freed = {} THEN AllocId(r) = r.nextId ELSE AllocId(r) \in r.freed
BY LeastElement DEF AllocId

-----------------------------------------------------------------------------
(* The index of topics: names, ids, the freed list and the id counter.     *)

RegFields == DOMAIN EmptyRegistry
TopicFields ==
  {"name", "type", "properties", "current", "publishers", "retained",
   "cached", "persistent"}

\* NamesAndIdsAgree for a registry r, with what makes it inductive: r and its
\* topics have their fields, and the id counter is a natural number.
Index(r) ==
  /\ DOMAIN r = RegFields
  /\ r.nextId \in Nat
  /\ \A n \in DOMAIN r.byName :
       r.byName[n] \in Live(r) /\ r.topics[r.byName[n]].name = n
  /\ \A id \in Live(r) :
       /\ r.topics[id].name \in DOMAIN r.byName
       /\ r.byName[r.topics[id].name] = id
       /\ DOMAIN r.topics[id] = TopicFields
  /\ Live(r) \cap r.freed = {}
  /\ Live(r) \cup r.freed = 0 .. r.nextId - 1

\* s has the index of r: the steps in between touched neither the set of
\* topics, nor their names, nor the ids.
SameIndex(r, s) ==
  /\ DOMAIN s = RegFields
  /\ s.nextId = r.nextId
  /\ s.freed = r.freed
  /\ s.byName = r.byName
  /\ DOMAIN s.topics = DOMAIN r.topics
  /\ \A id \in DOMAIN r.topics :
       /\ s.topics[id].name = r.topics[id].name
       /\ DOMAIN s.topics[id] = TopicFields

LEMMA SameIndexKeeps ==
  ASSUME NEW r, NEW s, Index(r), SameIndex(r, s)
  PROVE  Index(s)
BY DEF Index, SameIndex, Live

LEMMA SameIndexRefl ==
  ASSUME NEW r, Index(r)
  PROVE  SameIndex(r, r)
BY DEF Index, SameIndex, Live

LEMMA SameIndexTrans ==
  ASSUME NEW r, NEW s, NEW t, SameIndex(r, s), SameIndex(s, t)
  PROVE  SameIndex(r, t)
BY DEF SameIndex

LEMMA RegFieldsList ==
  RegFields = {"topics", "byName", "pubs", "subs", "subscribers", "announced",
               "freed", "nextId", "clientName", "clientNames", "generation",
               "view"}
BY DEF RegFields, EmptyRegistry

\* Frames and fan-out lists leave the index alone.
LEMMA SendAnnouncesIndex ==
  ASSUME NEW r, NEW to, Index(r)
  PROVE  SameIndex(r, SendAnnounces(r, to))
BY RegFieldsList DEF SendAnnounces, Index, SameIndex, Live

LEMMA SendValuesIndex ==
  ASSUME NEW r, NEW vals, NEW to, Index(r)
  PROVE  SameIndex(r, SendValues(r, vals, to))
BY RegFieldsList DEF SendValues, Index, SameIndex, Live

LEMMA SendUnannouncesIndex ==
  ASSUME NEW r, NEW ids, Index(r)
  PROVE  SameIndex(r, SendUnannounces(r, ids))
BY RegFieldsList DEF SendUnannounces, Index, SameIndex, Live

LEMMA AddSubscribersIndex ==
  ASSUME NEW r, NEW to, Index(r)
  PROVE  SameIndex(r, AddSubscribers(r, to))
BY RegFieldsList DEF AddSubscribers, Index, SameIndex, Live

LEMMA RecordMatchesIndex ==
  ASSUME NEW r, NEW ids, Index(r)
  PROVE  SameIndex(r, RecordMatches(r, ids))
BY RegFieldsList DEF RecordMatches, Index, SameIndex, Live

LEMMA DropSubscriptionIndex ==
  ASSUME NEW r, NEW c, NEW uid, Index(r)
  PROVE  SameIndex(r, DropSubscription(r, c, uid))
BY RegFieldsList DEF DropSubscription, Index, SameIndex, Live

LEMMA AddAnnouncedIndex ==
  ASSUME NEW r, NEW to, Index(r)
  PROVE  SameIndex(r, AddAnnounced(r, to))
<1> DEFINE noted == [r EXCEPT !.announced =
             Extend(@, [id \in DOMAIN to |->
                          Get(r.announced, id, {}) \cup to[id]])]
<1>1. SameIndex(r, noted)
  BY RegFieldsList DEF Index, SameIndex, Live
<1>2. \A new : SameIndex(noted, SendAnnounces(noted, new))
  BY <1>1, SameIndexKeeps, SendAnnouncesIndex
<1>3. PICK new : AddAnnounced(r, to) = SendAnnounces(noted, new)
  BY DEF AddAnnounced
<1> QED
  BY <1>1, <1>2, <1>3, SameIndexTrans, Zenon

LEMMA AnnounceToMatchingIndex ==
  ASSUME NEW r, NEW ids, Index(r)
  PROVE  SameIndex(r, AnnounceToMatching(r, ids))
<1> DEFINE a == RecordMatches(r, ids)
           b == AddAnnounced(a, [id \in ids |-> Matching(r, id)])
           to == [id \in ids |-> WantingValues(r, id)]
<1>1. SameIndex(r, a)
  BY RecordMatchesIndex
<1>2. SameIndex(a, b)
  BY <1>1, SameIndexKeeps, AddAnnouncedIndex
<1>3. SameIndex(b, AddSubscribers(b, to))
  BY <1>1, <1>2, SameIndexKeeps, AddSubscribersIndex
<1>4. AnnounceToMatching(r, ids) = AddSubscribers(b, to)
  BY DEF AnnounceToMatching
<1> QED
  BY <1>1, <1>2, <1>3, <1>4, SameIndexTrans, Zenon

LEMMA HandleTopicValuesIndex ==
  ASSUME NEW r, NEW vals, Index(r)
  PROVE  SameIndex(r, HandleTopicValues(r, vals))
<1> DEFINE accepted == {id \in DOMAIN vals \cap Live(r) :
                          vals[id].value.type = r.topics[id].type}
           kept == {id \in accepted : /\ r.topics[id].cached
                                      /\ IsNewer(r.topics[id], vals[id])}
           stored == [r EXCEPT
             !.topics = [id \in DOMAIN @ |->
               IF id \in kept THEN [@[id] EXCEPT !.current = vals[id]]
               ELSE @[id]],
             !.generation =
               @ + Cardinality({id \in kept : r.topics[id].persistent})]
           to == [id \in accepted |-> Get(r.subscribers, id, {})]
<1>1. SameIndex(r, stored)
  <2> HIDE DEF kept
  <2> QED
    BY RegFieldsList DEF Index, SameIndex, Live, TopicFields
<1>2. SameIndex(stored, SendValues(stored, Restrict(vals, accepted), to))
  BY <1>1, SameIndexKeeps, SendValuesIndex
<1>3. HandleTopicValues(r, vals)
        = SendValues(stored, Restrict(vals, accepted), to)
  BY DEF HandleTopicValues
<1> QED
  BY <1>1, <1>2, <1>3, SameIndexTrans, Zenon

-----------------------------------------------------------------------------
(* Adding and removing topics.                                             *)

\* alloc may be added to r: it gives new names distinct ids, the brand-new ones
\* without a gap.
MayAdd(r, alloc) ==
  /\ DOMAIN alloc \cap DOMAIN r.byName = {}
  /\ IsInjective(alloc)
  /\ \E k \in Nat :
       Range(alloc) \ r.freed = r.nextId .. (r.nextId + k - 1)

LEMMA AddTopicsIndex ==
  ASSUME NEW r, NEW alloc, NEW fresh, Index(r), MayAdd(r, alloc),
         \A n \in DOMAIN alloc :
           fresh[n].name = n /\ DOMAIN fresh[n] = TopicFields
  PROVE  /\ Index(AddTopics(r, alloc, fresh))
         /\ DOMAIN AddTopics(r, alloc, fresh).byName
              = DOMAIN r.byName \cup DOMAIN alloc
         /\ \A n \in DOMAIN alloc :
              AddTopics(r, alloc, fresh).byName[n] = alloc[n]
<1> DEFINE s == AddTopics(r, alloc, fresh)
           named(id) == CHOOSE n \in DOMAIN alloc : alloc[n] = id
<1>1. PICK k \in Nat : Range(alloc) \ r.freed = r.nextId .. (r.nextId + k - 1)
  BY DEF MayAdd
<1>2. Cardinality(Range(alloc) \ r.freed) = k
  BY <1>1, IntervalSize DEF Index
<1>3. /\ DOMAIN s = RegFields
      /\ s.topics = Extend(r.topics,
                      [id \in Range(alloc) |-> fresh[named(id)]])
      /\ s.byName = Extend(r.byName, alloc)
      /\ s.freed = r.freed \ Range(alloc)
      /\ s.nextId = r.nextId + k
  BY <1>2, RegFieldsList DEF AddTopics, Index
<1>4. /\ Range(alloc) \cap Live(r) = {}
      /\ \A n \in DOMAIN alloc : alloc[n] \in Range(alloc) /\ named(alloc[n]) = n
      /\ \A id \in Range(alloc) :
           named(id) \in DOMAIN alloc /\ alloc[named(id)] = id
  BY <1>1 DEF MayAdd, Index, IsInjective, Range, Live
<1> HIDE DEF s, named
<1>5. /\ Live(s) = Live(r) \cup Range(alloc)
      /\ \A id \in Range(alloc) : s.topics[id] = fresh[named(id)]
      /\ \A id \in Live(r) : s.topics[id] = r.topics[id]
  BY <1>3, <1>4 DEF Live, Extend
<1>6. /\ DOMAIN s.byName = DOMAIN r.byName \cup DOMAIN alloc
      /\ \A n \in DOMAIN alloc : s.byName[n] = alloc[n]
      /\ \A n \in DOMAIN r.byName : s.byName[n] = r.byName[n]
  BY <1>3 DEF Extend, MayAdd
<1>7. \A n \in DOMAIN s.byName :
        s.byName[n] \in Live(s) /\ s.topics[s.byName[n]].name = n
  BY <1>4, <1>5, <1>6 DEF Index
<1>8. \A id \in Live(s) :
        /\ s.topics[id].name \in DOMAIN s.byName
        /\ s.byName[s.topics[id].name] = id
        /\ DOMAIN s.topics[id] = TopicFields
  BY <1>4, <1>5, <1>6 DEF Index
<1>9. /\ Live(s) \cap s.freed = {}
      /\ Live(s) \cup s.freed = 0 .. s.nextId - 1
      /\ s.nextId \in Nat
  BY <1>1, <1>3, <1>5 DEF Index
<1> QED
  BY <1>3, <1>6, <1>7, <1>8, <1>9 DEF Index, s

\* alloc_id's answer may be added, for one name or for several.
LEMMA AllocIdMayAdd ==
  ASSUME NEW r, NEW n, Index(r), n \notin DOMAIN r.byName
  PROVE  MayAdd(r, [m \in {n} |-> AllocId(r)])
<1> DEFINE alloc == [m \in {n} |-> AllocId(r)]
<1>1. Range(alloc) = {AllocId(r)}
  BY DEF Range
<1>2. IF r.freed = {} THEN AllocId(r) = r.nextId ELSE AllocId(r) \in r.freed
  BY AllocIdFresh DEF Index
<1>3. \E k \in Nat : Range(alloc) \ r.freed = r.nextId .. (r.nextId + k - 1)
  <2>1. CASE r.freed = {}
    <3>1. Range(alloc) \ r.freed = {r.nextId}
      BY <1>1, <1>2, <2>1
    <3>2. {r.nextId} = r.nextId .. (r.nextId + 1 - 1)
      BY DEF Index
    <3> QED
      BY <3>1, <3>2
  <2>2. CASE r.freed # {}
    <3>1. Range(alloc) \ r.freed = r.nextId .. (r.nextId + 0 - 1)
      BY <1>1, <1>2, <2>2 DEF Index
    <3> QED
      BY <3>1
  <2> QED
    BY <2>1, <2>2
<1> QED
  BY <1>3 DEF MayAdd, IsInjective

LEMMA AllocationsMayAdd ==
  ASSUME NEW r, NEW N, Index(r), N \cap DOMAIN r.byName = {},
         NEW alloc \in Allocations(r, N)
  PROVE  MayAdd(r, alloc) /\ DOMAIN alloc = N
<1>1. \E k \in 0 .. Cardinality(N) :
        Range(alloc) \ r.freed = r.nextId .. (r.nextId + k - 1)
  BY DEF Allocations
<1>2. \E k \in Nat : Range(alloc) \ r.freed = r.nextId .. (r.nextId + k - 1)
  BY <1>1
<1>3. DOMAIN alloc = N /\ IsInjective(alloc)
  BY DEF Allocations, Injection
<1> QED
  BY <1>2, <1>3 DEF MayAdd

LEMMA RemoveTopicsIndex ==
  ASSUME NEW r, NEW ids, Index(r), ids \subseteq Live(r)
  PROVE  Index(RemoveTopics(r, ids))
<1> DEFINE s == RemoveTopics(r, ids)
           names == {r.topics[id].name : id \in ids}
<1>1. /\ DOMAIN s = RegFields
      /\ s.topics = Drop(r.topics, ids)
      /\ s.byName = Drop(r.byName, names)
      /\ s.freed = r.freed \cup ids
      /\ s.nextId = r.nextId
  BY RegFieldsList DEF RemoveTopics, ForgetMatches, ForgetFanOut, Index
<1> HIDE DEF s
<1>2. /\ Live(s) = Live(r) \ ids
      /\ \A id \in Live(s) : s.topics[id] = r.topics[id]
      /\ DOMAIN s.byName = DOMAIN r.byName \ names
      /\ \A n \in DOMAIN s.byName : s.byName[n] = r.byName[n]
  BY <1>1 DEF Live, Drop
<1>3. \A n \in DOMAIN s.byName :
        s.byName[n] \in Live(s) /\ s.topics[s.byName[n]].name = n
  BY <1>2 DEF Index
<1>4. \A id \in Live(s) :
        /\ s.topics[id].name \in DOMAIN s.byName
        /\ s.byName[s.topics[id].name] = id
        /\ DOMAIN s.topics[id] = TopicFields
  BY <1>2 DEF Index
<1>5. /\ Live(s) \cap s.freed = {}
      /\ Live(s) \cup s.freed = 0 .. s.nextId - 1
      /\ s.nextId \in Nat
  BY <1>1, <1>2 DEF Index
<1> QED
  BY <1>1, <1>3, <1>4, <1>5 DEF Index, s

LEMMA DeleteTopicsIfExistIndex ==
  ASSUME NEW r, NEW names, Index(r)
  PROVE  Index(DeleteTopicsIfExist(r, names))
<1>1. {r.byName[n] : n \in names \cap DOMAIN r.byName} \subseteq Live(r)
  BY DEF Index
<1> QED
  BY <1>1, RemoveTopicsIndex DEF DeleteTopicsIfExist

LEMMA DeleteTopicsIndex ==
  ASSUME NEW r, NEW ids, Index(r), ids \subseteq Live(r)
  PROVE  Index(DeleteTopics(r, ids))
<1> DEFINE a == SendUnannounces(r, ids)
<1>1. Index(a) /\ ids \subseteq Live(a)
  BY SendUnannouncesIndex, SameIndexKeeps DEF SameIndex, Live
<1>2. Index(RemoveTopics(a, ids))
  BY <1>1, RemoveTopicsIndex
<1> QED
  BY <1>2, DeleteTopicsIfExistIndex DEF DeleteTopics

LEMMA OrphansLive ==
  ASSUME NEW r, NEW ids
  PROVE  Orphans(r, ids) \subseteq Live(r)
BY DEF Orphans

-----------------------------------------------------------------------------
(* Meta topics.                                                            *)

LEMMA EnsureMetaTopicsIndex ==
  ASSUME NEW r, NEW alloc, Index(r), MayAdd(r, alloc)
  PROVE  Index(EnsureMetaTopics(r, alloc))
<1> DEFINE fresh == [n \in DOMAIN alloc |->
                       TopicState(n, "raw", EmptyMap, NoValue, TRUE)]
           a == AddTopics(r, alloc, fresh)
<1>1. \A n \in DOMAIN alloc :
        fresh[n].name = n /\ DOMAIN fresh[n] = TopicFields
  BY DEF TopicState, SyncProperties, TopicFields
<1>2. Index(a)
  BY <1>1, AddTopicsIndex
<1>3. Index(AnnounceToMatching(a, Range(alloc)))
  BY <1>2, AnnounceToMatchingIndex, SameIndexKeeps
<1> QED
  BY <1>3 DEF EnsureMetaTopics

LEMMA PublishMetasIndex ==
  ASSUME NEW r, NEW payload, NEW alloc, Index(r), MayAdd(r, alloc)
  PROVE  Index(PublishMetas(r, payload, alloc))
<1>1. PICK vals : PublishMetas(r, payload, alloc)
                    = HandleTopicValues(EnsureMetaTopics(r, alloc), vals)
  BY DEF PublishMetas
<1> QED
  BY <1>1, EnsureMetaTopicsIndex, HandleTopicValuesIndex, SameIndexKeeps

LEMMA PublishMetaIndex ==
  ASSUME NEW r, NEW n, NEW payload, Index(r)
  PROVE  Index(PublishMeta(r, n, payload))
<1>1. MayAdd(r, EmptyMap)
  <2>1. Range(EmptyMap) \ r.freed = r.nextId .. (r.nextId + 0 - 1)
    BY DEF Range, EmptyMap, Index
  <2> QED
    BY <2>1 DEF MayAdd, EmptyMap, IsInjective
<1>2. n \notin DOMAIN r.byName => MayAdd(r, [m \in {n} |-> AllocId(r)])
  BY AllocIdMayAdd
<1> QED
  BY <1>1, <1>2, PublishMetasIndex DEF PublishMeta

LEMMA PublishMetasInAnyOrderIndex ==
  ASSUME NEW r, NEW payload, Index(r),
         NEW s \in PublishMetasInAnyOrder(r, payload)
  PROVE  Index(s)
<1> DEFINE N == DOMAIN payload \ DOMAIN r.byName
<1>1. PICK alloc \in Allocations(r, N) : s = PublishMetas(r, payload, alloc)
  BY DEF PublishMetasInAnyOrder
<1>2. MayAdd(r, alloc)
  BY AllocationsMayAdd
<1> QED
  BY <1>1, <1>2, PublishMetasIndex

LEMMA UpdateMetaIndex ==
  ASSUME NEW r, Index(r)
  PROVE  /\ Index(UpdateMetaClients(r))
         /\ \A c : Index(UpdateMetaClientPub(r, c))
         /\ \A c : Index(UpdateMetaClientSub(r, c))
         /\ \A n : Index(UpdateMetaPub(r, n))
BY PublishMetaIndex
   DEF UpdateMetaClients, UpdateMetaClientPub, UpdateMetaClientSub, UpdateMetaPub

LEMMA UpdateMetasIndex ==
  ASSUME NEW r, Index(r)
  PROVE  /\ \A ids : \A s \in UpdateMetaSubFor(r, ids) : Index(s)
         /\ \A names : \A s \in UpdateMetaPubs(r, names) : Index(s)
<1>1. ASSUME NEW ids, NEW s \in UpdateMetaSubFor(r, ids)
      PROVE  \E payload : s \in PublishMetasInAnyOrder(r, payload)
  BY DEF UpdateMetaSubFor
<1>2. ASSUME NEW names, NEW s \in UpdateMetaPubs(r, names)
      PROVE  \E payload : s \in PublishMetasInAnyOrder(r, payload)
  BY DEF UpdateMetaPubs
<1> QED
  BY <1>1, <1>2, PublishMetasInAnyOrderIndex

-----------------------------------------------------------------------------
(* Handlers.                                                               *)

LEMMA ReleasePublisherIndex ==
  ASSUME NEW r, NEW id, Index(r)
  PROVE  Index(ReleasePublisher(r, id))
<1> DEFINE left == [r EXCEPT !.topics[id].publishers = SaturatingSub(@, 1)]
           gone == DeleteTopics(left, Orphans(left, {id}))
<1>1. CASE id \notin Live(r)
  BY <1>1 DEF ReleasePublisher
<1>2. CASE id \in Live(r)
  <2>1. SameIndex(r, left)
    BY <1>2, RegFieldsList DEF Index, SameIndex, Live, TopicFields
  <2>2. Index(left)
    BY <2>1, SameIndexKeeps
  <2>3. Index(gone)
    BY <2>2, OrphansLive, DeleteTopicsIndex
  <2>4. ReleasePublisher(r, id) = UpdateMetaPub(gone, r.topics[id].name)
    BY <1>2 DEF ReleasePublisher
  <2> QED
    BY <2>3, <2>4, UpdateMetaIndex
<1> QED
  BY <1>1, <1>2

LEMMA OnConnectIndex ==
  ASSUME NEW r, NEW c, NEW base, Index(r)
  PROVE  Index(OnConnect(r, c, base))
<1> DEFINE name == DedupClientName(r, base)
           joined == [r EXCEPT !.clientNames = @ \cup {name},
                               !.clientName = Put(@, c, name),
                               !.pubs = Put(@, c, EmptyMap),
                               !.subs = Put(@, c, EmptyMap),
                               !.view = Put(@, c, EmptyMap)]
           a == UpdateMetaClients(joined)
           b == UpdateMetaClientPub(a, c)
           d == UpdateMetaClientSub(b, c)
           e == PublishMeta(d, ServerSubMeta, {})
<1>1. SameIndex(r, joined)
  BY RegFieldsList DEF Index, SameIndex, Live
<1>2. Index(joined)
  BY <1>1, SameIndexKeeps
<1> HIDE DEF joined
<1>3. Index(a) /\ Index(b) /\ Index(d)
  BY <1>2, UpdateMetaIndex
<1>4. Index(PublishMeta(e, ServerPubMeta, {}))
  BY <1>3, PublishMetaIndex
<1>5. OnConnect(r, c, base) = PublishMeta(e, ServerPubMeta, {})
  BY DEF OnConnect, joined
<1> QED
  BY <1>4, <1>5

LEMMA ReleaseAllIndex ==
  ASSUME NEW r, NEW pubs, Index(r)
  PROVE  SameIndex(r, ReleaseAll(r, pubs))
BY RegFieldsList DEF ReleaseAll, Index, SameIndex, Live, TopicFields

LEMMA OnDisconnectIndex ==
  ASSUME NEW r, NEW c, Index(r), NEW s \in OnDisconnect(r, c)
  PROVE  Index(s)
<1> DEFINE name == r.clientName[c]
           published == Range(r.pubs[c])
           pubNames == {r.topics[id].name : id \in published \cap Live(r)}
           subscribed == UNION {sub.matched : sub \in Range(r.subs[c])}
           gone == [r EXCEPT !.clientNames = @ \ {name},
                             !.clientName = Drop(@, {c}),
                             !.pubs = Drop(@, {c}),
                             !.subs = Drop(@, {c}),
                             !.view = Drop(@, {c})]
           cleared == DeleteTopicsIfExist(gone,
                        {ClientPubMeta(name), ClientSubMeta(name)})
           released == ReleaseAll(cleared, r.pubs[c])
           pruned == DeleteTopics(released, Orphans(released, published))
<1>1. SameIndex(r, gone)
  BY RegFieldsList DEF Index, SameIndex, Live
<1> HIDE DEF gone
<1>2. Index(cleared)
  BY <1>1, SameIndexKeeps, DeleteTopicsIfExistIndex
<1> HIDE DEF cleared
<1>3. SameIndex(cleared, released)
  BY <1>2, ReleaseAllIndex
<1> HIDE DEF released
<1>4. Index(pruned)
  BY <1>2, <1>3, SameIndexKeeps, OrphansLive, DeleteTopicsIndex
<1> HIDE DEF pruned
<1>5. PICK t \in UpdateMetaSubFor(UpdateMetaClients(pruned), subscribed) :
        s \in UpdateMetaPubs(t, pubNames)
  BY DEF OnDisconnect, gone, cleared, released, pruned
<1>6. Index(t)
  BY <1>4, <1>5, UpdateMetaIndex, UpdateMetasIndex
<1> QED
  BY <1>5, <1>6, UpdateMetasIndex

LEMMA AddTopicIndex ==
  ASSUME NEW r, NEW topic, Index(r), topic.name \notin DOMAIN r.byName,
         DOMAIN topic = TopicFields
  PROVE  /\ Index(AddTopic(r, topic))
         /\ AllocId(r) \in Live(AddTopic(r, topic))
<1> DEFINE alloc == [n \in {topic.name} |-> AllocId(r)]
           fresh == [n \in {topic.name} |-> topic]
           s == AddTopics(r, alloc, fresh)
<1>1. MayAdd(r, alloc)
  BY AllocIdMayAdd
<1>2. /\ Index(s)
      /\ topic.name \in DOMAIN s.byName
      /\ s.byName[topic.name] = AllocId(r)
  BY <1>1, AddTopicsIndex
<1>3. AddTopic(r, topic) = s
  BY DEF AddTopic
<1> HIDE DEF s
<1>4. AllocId(r) \in Live(s)
  BY <1>2 DEF Index
<1> QED
  BY <1>2, <1>3, <1>4

LEMMA HandlePublishIndex ==
  ASSUME NEW r, NEW c, NEW n, NEW uid, NEW type, NEW properties, Index(r)
  PROVE  Index(HandlePublish(r, c, n, uid, type, properties))
<1> DEFINE isNew == n \notin DOMAIN r.byName
           id == IF isNew THEN AllocId(r) ELSE r.byName[n]
           topic == TopicState(n, type, properties, NoValue, FALSE)
           added == IF isNew
                    THEN [AddTopic(r, topic) EXCEPT
                            !.generation = @ + IF topic.persistent THEN 1 ELSE 0]
                    ELSE r
           moved == uid \in DOMAIN r.pubs[c] /\ r.pubs[c][uid] # id
           again == uid \in DOMAIN r.pubs[c] /\ r.pubs[c][uid] = id
           joined == [added EXCEPT
                        !.pubs[c] = Put(@, uid, id),
                        !.topics[id].publishers = IF again THEN @ ELSE @ + 1]
           noted == AddAnnounced(joined, [i \in {id} |-> {c}])
           told == SendAnnounces(noted, [d \in {c} |-> {id}])
           matched == IF isNew THEN AnnounceToMatching(told, {id}) ELSE told
           released == IF moved THEN ReleasePublisher(matched, r.pubs[c][uid])
                       ELSE matched
<1>1. Index(added) /\ id \in Live(added)
  <2>1. CASE isNew
    <3> DEFINE a == AddTopic(r, topic)
    <3>1. topic.name = n /\ DOMAIN topic = TopicFields
      BY DEF TopicState, SyncProperties, TopicFields
    <3> HIDE DEF topic
    <3>2. Index(a) /\ id \in Live(a)
      BY <2>1, <3>1, AddTopicIndex
    <3> HIDE DEF a
    <3> DEFINE g == a.generation + IF topic.persistent THEN 1 ELSE 0
               b == [a EXCEPT !.generation = g]
    <3>3. added = b
      BY <2>1 DEF a
    <3> HIDE DEF g
    <3>4. SameIndex(a, b)
      BY <3>2, RegFieldsList DEF Index, SameIndex, Live
    <3>5. Live(b) = Live(a)
      BY <3>4 DEF SameIndex, Live
    <3> QED
      BY <3>2, <3>3, <3>4, <3>5, SameIndexKeeps
  <2>2. CASE ~isNew
    BY <2>2 DEF Index
  <2> QED
    BY <2>1, <2>2
<1> HIDE DEF added, id, again
<1>2. SameIndex(added, joined)
  BY <1>1, RegFieldsList DEF Index, SameIndex, Live, TopicFields
<1> HIDE DEF joined
<1>3. Index(told)
  BY <1>1, <1>2, SameIndexKeeps, AddAnnouncedIndex, SendAnnouncesIndex
<1>4. Index(matched)
  BY <1>3, SameIndexKeeps, AnnounceToMatchingIndex
<1>5. Index(released)
  BY <1>4, ReleasePublisherIndex
<1> HIDE DEF released
<1>6. Index(UpdateMetaPub(UpdateMetaClientPub(released, c), n))
  BY <1>5, UpdateMetaIndex, Zenon
<1>7. HandlePublish(r, c, n, uid, type, properties)
        = UpdateMetaPub(UpdateMetaClientPub(released, c), n)
  BY DEF HandlePublish, released, joined, added, id, again
<1> QED
  BY <1>6, <1>7

LEMMA HandleUnpublishIndex ==
  ASSUME NEW r, NEW c, NEW uid, Index(r)
  PROVE  Index(HandleUnpublish(r, c, uid))
<1> DEFINE id == r.pubs[c][uid]
           left == [r EXCEPT !.pubs[c] = Drop(@, {uid})]
           forgotten == [left EXCEPT !.pubs =
             [d \in DOMAIN @ |-> Drop(@[d], {u \in DOMAIN @[d] : @[d][u] = id})]]
<1>1. SameIndex(r, left) /\ SameIndex(r, forgotten)
  BY RegFieldsList DEF Index, SameIndex, Live
<1>2. Index(left) /\ Index(forgotten)
  BY <1>1, SameIndexKeeps
<1> HIDE DEF left, forgotten
<1>3. Index(UpdateMetaClientPub(ReleasePublisher(left, id), c))
  BY <1>2, ReleasePublisherIndex, UpdateMetaIndex
<1> QED
  BY <1>2, <1>3 DEF HandleUnpublish, left, forgotten

LEMMA HandleSubscribeIndex ==
  ASSUME NEW r, NEW c, NEW uid, NEW input, Index(r),
         NEW s \in HandleSubscribe(r, c, uid, input)
  PROVE  Index(s)
<1> DEFINE dropped == DropSubscription(r, c, uid)
           matched == {id \in Live(r) : SubMatches(input, r.topics[id].name)}
           toC == [id \in matched |-> {c}]
           fed == IF input.topicsOnly THEN dropped
                  ELSE AddSubscribers(dropped, toC)
           told == AddAnnounced(fed, toC)
           late == IF input.topicsOnly THEN {} ELSE RetainedForLate(r, matched)
           sent == SendValues(told, [id \in late |-> r.topics[id].current],
                              [id \in late |-> {c}])
           sub == [patterns |-> input.patterns, prefix |-> input.prefix,
                   topicsOnly |-> input.topicsOnly, matched |-> matched]
           held == [sent EXCEPT !.subs[c] = Put(@, uid, sub)]
           ids == matched \cup Touched(r, c, uid)
<1>1. Index(fed)
  BY DropSubscriptionIndex, AddSubscribersIndex, SameIndexKeeps
<1> HIDE DEF fed
<1>2. Index(sent)
  BY <1>1, AddAnnouncedIndex, SendValuesIndex, SameIndexKeeps
<1> HIDE DEF sent, sub
<1>3. SameIndex(sent, held)
  BY <1>2, RegFieldsList DEF Index, SameIndex, Live
<1>4. Index(held)
  BY <1>2, <1>3, SameIndexKeeps
<1> HIDE DEF held, ids
<1>5. s \in UpdateMetaSubFor(UpdateMetaClientSub(held, c), ids)
  BY Zenon DEF HandleSubscribe, fed, sent, sub, held, ids
<1> QED
  BY <1>4, <1>5, UpdateMetaIndex, UpdateMetasIndex

LEMMA HandleUnsubscribeIndex ==
  ASSUME NEW r, NEW c, NEW uid, Index(r),
         NEW s \in HandleUnsubscribe(r, c, uid)
  PROVE  Index(s)
<1>1. Index(DropSubscription(r, c, uid))
  BY DropSubscriptionIndex, SameIndexKeeps
<1> QED
  BY <1>1, UpdateMetaIndex, UpdateMetasIndex DEF HandleUnsubscribe

LEMMA HandleUpsertValueIndex ==
  ASSUME NEW r, NEW n, NEW value, NEW ts, Index(r)
  PROVE  Index(HandleUpsertValue(r, n, value, ts))
<1> DEFINE topic == TopicState(n, value.type, EmptyMap, NoValue, TRUE)
           added == IF n \notin DOMAIN r.byName THEN AddTopic(r, topic) ELSE r
<1>1. topic.name = n /\ DOMAIN topic = TopicFields
  BY DEF TopicState, SyncProperties, TopicFields
<1> HIDE DEF topic
<1>2. Index(added)
  BY <1>1, AddTopicIndex
<1> HIDE DEF added
<1>3. \E vals : HandleUpsertValue(r, n, value, ts)
                  = HandleTopicValues(added, vals)
  BY DEF HandleUpsertValue, added, topic
<1> QED
  BY <1>2, <1>3, HandleTopicValuesIndex, SameIndexKeeps

LEMMA HandleSetPropertiesIndex ==
  ASSUME NEW r, NEW n, NEW update, Index(r), n \in DOMAIN r.byName
  PROVE  Index(HandleSetProperties(r, n, update))
<1> DEFINE id == r.byName[n]
           Apply(properties) ==
             Extend(Drop(properties, update.unset), update.set)
           topic == SyncProperties(
                      [r.topics[id] EXCEPT !.properties = Apply(@)])
<1>1. topic.name = r.topics[id].name /\ DOMAIN topic = TopicFields
  BY DEF Index, SyncProperties, TopicFields, Live
<1> HIDE DEF topic
<1>2. PICK g, v : HandleSetProperties(r, n, update)
                    = [r EXCEPT !.topics[id] = topic, !.generation = g, !.view = v]
  BY Zenon DEF HandleSetProperties, topic
<1>3. SameIndex(r, HandleSetProperties(r, n, update))
  BY <1>1, <1>2, RegFieldsList DEF Index, SameIndex, Live
<1> QED
  BY <1>3, SameIndexKeeps

LEMMA RestorePersistentIndex ==
  ASSUME NEW r, NEW entries, NEW now, Index(r),
         NEW s \in RestorePersistent(r, entries, now)
  PROVE  Index(s)
<1> DEFINE new == {e \in entries : e.name \notin DOMAIN r.byName}
           N == {e.name : e \in new}
           entry(n) == CHOOSE e \in new : e.name = n
           state(n) == TopicState(n, entry(n).type, entry(n).properties,
                         [value |-> entry(n).value, ts |-> now], TRUE)
           restored(alloc) ==
             AddTopics(r, alloc, [n \in DOMAIN alloc |-> state(n)])
<1>1. CASE entries = {}
  BY <1>1 DEF RestorePersistent
<1>2. CASE entries # {}
  <2>1. PICK alloc \in Allocations(r, N) :
          s = [restored(alloc) EXCEPT !.generation = @ + 1]
    BY <1>2, Zenon DEF RestorePersistent
  <2>2. MayAdd(r, alloc)
    BY AllocationsMayAdd
  <2> HIDE DEF entry
  <2>3. \A n \in DOMAIN alloc :
          state(n).name = n /\ DOMAIN state(n) = TopicFields
    BY DEF TopicState, SyncProperties, TopicFields
  <2> HIDE DEF state
  <2>4. Index(restored(alloc))
    BY <2>2, <2>3, AddTopicsIndex
  <2> HIDE DEF restored
  <2>5. SameIndex(restored(alloc), s)
    BY <2>1, <2>4, RegFieldsList DEF Index, SameIndex, Live
  <2> QED
    BY <2>4, <2>5, SameIndexKeeps
<1> QED
  BY <1>1, <1>2

-----------------------------------------------------------------------------
(* Theorems.                                                               *)

LEMMA InitIndex == Init => Index(reg)
<1>1. Index(EmptyRegistry)
  BY DEF Index, EmptyRegistry, RegFields, Live, EmptyMap
<1> QED
  BY <1>1, RestorePersistentIndex DEF Init

LEMMA NextIndex ==
  ASSUME Index(reg), [Next]_vars
  PROVE  Index(reg')
<1>1. ASSUME NEW base \in BaseName, Connect(base) PROVE Index(reg')
  BY <1>1, OnConnectIndex DEF Connect, Leaves
<1>2. ASSUME NEW c \in Clients(reg), Disconnect(c) PROVE Index(reg')
  BY <1>2, OnDisconnectIndex DEF Disconnect, Leaves
<1>3. ASSUME NEW c, NEW t, NEW uid, NEW type, NEW properties,
             Publish(c, t, uid, type, properties)
      PROVE  Index(reg')
  BY <1>3, HandlePublishIndex DEF Publish, Leaves
<1>4. ASSUME NEW c, NEW uid, Unpublish(c, uid) PROVE Index(reg')
  BY <1>4, HandleUnpublishIndex DEF Unpublish, Leaves
<1>5. ASSUME NEW c, NEW uid, NEW input, Subscribe(c, uid, input)
      PROVE  Index(reg')
  BY <1>5, HandleSubscribeIndex DEF Subscribe, Leaves
<1>6. ASSUME NEW c, NEW uid, Unsubscribe(c, uid) PROVE Index(reg')
  BY <1>6, HandleUnsubscribeIndex DEF Unsubscribe, Leaves
<1>7. ASSUME NEW c, NEW uid, NEW value, NEW ts, PublishValue(c, uid, value, ts)
      PROVE  Index(reg')
  <2>1. PICK vals : reg' = HandleTopicValues(reg, vals)
    BY <1>7 DEF PublishValue, Leaves
  <2> QED
    BY <2>1, HandleTopicValuesIndex, SameIndexKeeps
<1>8. ASSUME NEW c, NEW t, NEW update, SetProperties(c, t, update)
      PROVE  Index(reg')
  BY <1>8, HandleSetPropertiesIndex DEF SetProperties, Leaves
<1>9. ASSUME NEW t, NEW value, NEW ts, UpsertValue(t, value, ts)
      PROVE  Index(reg')
  BY <1>9, HandleUpsertValueIndex DEF UpsertValue, Leaves
<1>10. ASSUME NEW entries, NEW now, Restart(entries, now) PROVE Index(reg')
  BY <1>10, RestorePersistentIndex DEF Restart, Leaves
<1>11. CASE UNCHANGED vars
  BY <1>11 DEF vars
<1> QED
  BY <1>1, <1>2, <1>3, <1>4, <1>5, <1>6, <1>7, <1>8, <1>9, <1>10, <1>11
     DEF Next

\* NamesAndIdsAgree always holds: by_name stays the inverse of the topics'
\* names and the ids handed out are in use or freed, never both, through every
\* handler, for any number of clients, topics and restarts.
THEOREM NamesAndIdsAlwaysAgree == Spec => []NamesAndIdsAgree
<1>1. Init => Index(reg)
  BY InitIndex
<1>2. Index(reg) /\ [Next]_vars => Index(reg)'
  BY NextIndex
<1>3. Index(reg) => NamesAndIdsAgree
  BY DEF Index, NamesAndIdsAgree
<1> QED
  BY <1>1, <1>2, <1>3, PTL DEF Spec

=============================================================================
