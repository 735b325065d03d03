------------------------------ MODULE Registry ------------------------------
(***************************************************************************)
(* The NT4 registry of the server (core/src/websocket/protocol.rs): topics *)
(* and the ids they are announced under, publishers, subscriptions, the    *)
(* retained values and the meta topics that describe all of these.         *)
(*                                                                         *)
(* Every handler of NtRegistry runs under the registry's mutex, so a       *)
(* handler is one atomic step.  The whole registry is one record `reg`;    *)
(* the private methods of NtRegistry are operators from registry to        *)
(* registry, and a handler composes them in the order the code calls them. *)
(*                                                                         *)
(* The frames a handler returns are modelled by their effect on the client *)
(* that receives them in order: reg.view[c] is what client c has been told,*)
(* a map from topic id to the name and properties announced under it and   *)
(* the last value sent on it.                                              *)
(***************************************************************************)
EXTENDS Integers, FiniteSets, Functions, Maps

CONSTANTS
  Topic,         \* names of ordinary topics
  BaseName,      \* names clients give in the handshake
  PubUid,        \* publisher uids a client may choose
  SubUid,        \* subscription uids a client may choose
  DataType,      \* NT4 data types of ordinary values
  Datum,         \* payloads of ordinary values
  Stamp,         \* timestamps of ordinary values
  SubInput,      \* subscriptions a client may ask for
  PropInput,     \* property maps a publish may carry
  PropUpdate,    \* updates a setproperties may carry
  UpsertTopic,   \* topics the server itself writes (compare-and-set, logs)
  SavedTopic,    \* persistent topics a file may hold
  NoValue        \* the absent value

CONSTANTS
  MaxPerClient,  \* MAX_PER_CLIENT
  MaxTopics,     \* MAX_TOPICS
  MaxClients,    \* bound: connections accepted by one accept loop
  MaxRestarts,   \* bound: times the server is stopped and started again
  MaxGeneration  \* bound: persistent_generation

VARIABLES
  reg,           \* the NtRegistry and what the clients were told
  nextClient,    \* accept_loop's client_ids counter
  restarts       \* how often start() followed stop()

vars == <<reg, nextClient, restarts>>

-----------------------------------------------------------------------------
(* Names.  A name is a pair of a kind and an argument: the ordinary topic  *)
(* <<"topic", t>>, the meta topics $clients, $serversub, $serverpub,       *)
(* $clientpub$<client>, $clientsub$<client>, $pub$<topic>, $sub$<topic>.   *)

Name(t) == <<"topic", t>>

IsMetaTopic(n) == n[1] # "topic"

ClientsMeta == <<"$clients", 0>>
ServerSubMeta == <<"$serversub", 0>>
ServerPubMeta == <<"$serverpub", 0>>
ClientPubMeta(cn) == <<"$clientpub", cn>>
ClientSubMeta(cn) == <<"$clientsub", cn>>
PubMeta(n) == <<"$pub", n[2]>>
SubMeta(n) == <<"$sub", n[2]>>

\* Clients publish ordinary names only, so only these have $pub$ and $sub$.
MetaOf(n) == IF IsMetaTopic(n) THEN {} ELSE {PubMeta(n), SubMeta(n)}

\* Patterns are names, the empty string, which starts every name, and "$".
Everything == <<"", 0>>
Dollar == <<"$", 0>>

StartsWith(n, p) == p = n \/ p = Everything \/ (p = Dollar /\ IsMetaTopic(n))

StartsWithDollar(p) == p[1] \notin {"topic", ""}

SubVisibleTo(sub, n) ==
  IsMetaTopic(n) => \E p \in sub.patterns : StartsWithDollar(p)

PatternMatches(prefix, p, n) == IF prefix THEN StartsWith(n, p) ELSE n = p

SubMatches(sub, n) ==
  /\ SubVisibleTo(sub, n)
  /\ \E p \in sub.patterns : PatternMatches(sub.prefix, p, n)

-----------------------------------------------------------------------------
(* Topic state.                                                            *)

Keys == {"cached", "persistent", "retained"}

SyncCachedOnly(t) ==  \* mutant: the persistent flag is left behind
  [t EXCEPT !.cached = Get(t.properties, "cached", TRUE)]

\* TopicState::sync_properties
SyncProperties(t) ==
  [t EXCEPT !.cached = Get(t.properties, "cached", TRUE),
            !.persistent = Get(t.properties, "persistent", FALSE)]

\* TopicState::is_retained
IsRetained(t) ==
  \/ t.retained
  \/ Get(t.properties, "persistent", FALSE)
  \/ Get(t.properties, "retained", FALSE)

TopicState(name, type, properties, current, retained) ==
  SyncProperties(
    [name |-> name, type |-> type, properties |-> properties,
     current |-> current, publishers |-> 0, retained |-> retained,
     cached |-> TRUE, persistent |-> FALSE])

MetaValue(payload) == [type |-> "raw", data |-> payload]

\* Meta payloads are stamped with the server's clock, taken to be monotone.
MetaStamp == 0

-----------------------------------------------------------------------------
(* Topic ids.                                                              *)

Live(r) == DOMAIN r.topics

Clients(r) == DOMAIN r.pubs

\* NtRegistry::alloc_id: the lowest freed id, else a brand-new one
AllocId(r) ==
  IF r.freed = {} THEN r.nextId
  ELSE CHOOSE id \in r.freed : \A other \in r.freed : id <= other

\* What alloc_id gives the names N, called for them in any order: the lowest
\* freed ids, then brand-new ones once none are free.
Allocations(r, N) ==
  LET brandNew(k) == r.nextId .. (r.nextId + k - 1)
  IN  {alloc \in Injection(N, r.freed \cup brandNew(Cardinality(N))) :
         \E k \in 0 .. Cardinality(N) :
           /\ Range(alloc) \ r.freed = brandNew(k)
           /\ k > 0 => r.freed \subseteq Range(alloc)
           /\ \A id \in Range(alloc) \cap r.freed :
                \A other \in r.freed \ Range(alloc) : id < other}

AddTopicsPeeking(r, alloc, fresh) ==  \* mutant: the id stays on the freed list
  [r EXCEPT
     !.topics = Extend(@, [id \in Range(alloc) |->
                  fresh[CHOOSE n \in DOMAIN alloc : alloc[n] = id]]),
     !.byName = Extend(@, alloc),
     !.nextId = @ + Cardinality(Range(alloc) \ r.freed)]

\* Inserts the new topics: name n under id alloc[n], in state fresh[n].
AddTopics(r, alloc, fresh) ==
  [r EXCEPT
     !.topics = Extend(@, [id \in Range(alloc) |->
                  fresh[CHOOSE n \in DOMAIN alloc : alloc[n] = id]]),
     !.byName = Extend(@, alloc),
     !.freed = @ \ Range(alloc),
     !.nextId = @ + Cardinality(Range(alloc) \ r.freed)]

\* The same for one name.
AddTopic(r, topic) ==
  AddTopics(r, [n \in {topic.name} |-> AllocId(r)],
            [n \in {topic.name} |-> topic])

-----------------------------------------------------------------------------
(* Frames, as their effect on what clients were told.                      *)

\* The announce of topic id, as a client that gets it records it.
Announcement(r, id, told) ==
  [name |-> r.topics[id].name, properties |-> r.topics[id].properties,
   value |-> IF id \in DOMAIN told /\ told[id].name = r.topics[id].name
             THEN told[id].value ELSE NoValue]

\* Announce frames: to[c] is the set of ids announced to client c.
SendAnnounces(r, to) ==
  [r EXCEPT !.view =
     [c \in DOMAIN @ |->
        Extend(@[c], [id \in Get(to, c, {}) |-> Announcement(r, id, @[c])])]]

\* Value frames: clients subscribed to an id of `vals` are sent its value.
SendValues(r, vals, to) ==
  [r EXCEPT !.view =
     [c \in DOMAIN @ |->
        [id \in DOMAIN @[c] |->
           IF id \in DOMAIN vals /\ c \in to[id]
           THEN [@[c][id] EXCEPT !.value = vals[id]] ELSE @[c][id]]]]

-----------------------------------------------------------------------------
(* Private methods of NtRegistry.                                          *)

\* NtRegistry::add_announced for each client of to[id], with the announce to
\* those first recorded.
AddAnnounced(r, to) ==
  LET known(id) == Get(r.announced, id, {})
      new == [c \in DOMAIN r.view |->
                {id \in DOMAIN to : c \in to[id] /\ c \notin known(id)}]
  IN  SendAnnounces(
        [r EXCEPT !.announced =
           Extend(@, [id \in DOMAIN to |-> known(id) \cup to[id]])], new)

AddSubscribersAnew(r, to) ==  \* mutant: the list starts over
  [r EXCEPT !.subscribers = Extend(@, to)]

\* NtRegistry::add_subscriber for each client of to[id]
AddSubscribers(r, to) ==
  [r EXCEPT !.subscribers =
     Extend(@, [id \in DOMAIN to |-> Get(r.subscribers, id, {}) \cup to[id]])]

RecordNoMatches(r, ids) == r  \* mutant: `matched` is left out

\* announce_to_matching's insertions into the `matched` sets
RecordMatches(r, ids) ==
  LET hits(sub) == {id \in ids : SubMatches(sub, r.topics[id].name)}
  IN  [r EXCEPT !.subs =
         [c \in DOMAIN r.subs |-> [uid \in DOMAIN r.subs[c] |->
            [r.subs[c][uid] EXCEPT !.matched = @ \cup hits(r.subs[c][uid])]]]]

\* The clients with a subscription that matches topic id.
Matching(r, id) ==
  {c \in Clients(r) : \E sub \in Range(r.subs[c]) :
     SubMatches(sub, r.topics[id].name)}
WantingValues(r, id) ==
  {c \in Clients(r) : \E sub \in Range(r.subs[c]) :
     SubMatches(sub, r.topics[id].name) /\ ~sub.topicsOnly}

\* NtRegistry::announce_to_matching for each of `ids`
AnnounceToMatching(r, ids) ==
  AddSubscribers(
    AddAnnounced(RecordMatches(r, ids), [id \in ids |-> Matching(r, id)]),
    [id \in ids |-> WantingValues(r, id)])

\* handle_topic_value's test for a value newer than the retained one
IsNewer(t, stamped) == t.current = NoValue \/ stamped.ts >= t.current.ts

\* NtRegistry::handle_topic_value for each id of `vals`
HandleTopicValues(r, vals) ==
  LET accepted == {id \in DOMAIN vals \cap Live(r) :
                     vals[id].value.type = r.topics[id].type}
      kept == {id \in accepted : /\ r.topics[id].cached
                                 /\ IsNewer(r.topics[id], vals[id])}
      stored == [r EXCEPT
        !.topics = [id \in DOMAIN @ |->
          IF id \in kept THEN [@[id] EXCEPT !.current = vals[id]] ELSE @[id]],
        !.generation =
          @ + Cardinality({id \in kept : r.topics[id].persistent})]
  IN  SendValues(stored, Restrict(vals, accepted),
                 [id \in accepted |-> Get(r.subscribers, id, {})])

ForgetSubscribers(r, ids) ==  \* mutant: topic_announced is kept
  [r EXCEPT !.subscribers = Drop(@, ids)]
ForgetAnnounced(r, ids) ==    \* mutant: topic_subscribers is kept
  [r EXCEPT !.announced = Drop(@, ids)]

\* delete_topic's removals from the fan-out and announcement lists
ForgetFanOut(r, ids) ==
  [r EXCEPT !.subscribers = Drop(@, ids), !.announced = Drop(@, ids)]

\* delete_topic's removals from the `matched` sets
ForgetMatches(r, ids) ==
  [r EXCEPT !.subs =
     [c \in DOMAIN r.subs |-> [uid \in DOMAIN r.subs[c] |->
        [r.subs[c][uid] EXCEPT !.matched = @ \ ids]]]]

\* What NtRegistry::delete_topic changes in the registry, for each of `ids`.
RemoveTopics(r, ids) ==
  [ForgetMatches(ForgetFanOut(r, ids), ids) EXCEPT
     !.topics = Drop(@, ids),
     !.byName = Drop(@, {r.topics[id].name : id \in ids}),
     !.freed = @ \cup ids,
     !.generation = @ + Cardinality({id \in ids : r.topics[id].persistent})]

\* NtRegistry::delete_topic_if_exists, whose caller gets no frames
DeleteTopicsIfExist(r, names) ==
  RemoveTopics(r, {r.byName[n] : n \in names \cap DOMAIN r.byName})

NoUnannounce(r, ids) == r  \* mutant: the unannounce frames are lost

\* delete_topic's unannounce frames, to the clients announced each of `ids`
SendUnannounces(r, ids) ==
  [r EXCEPT !.view = [c \in DOMAIN @ |->
     Drop(@[c], {id \in ids : c \in Get(r.announced, id, {})})]]

\* NtRegistry::delete_topic for each of `ids`; a topic's own meta topics go
\* with it, but silently.
DeleteTopics(r, ids) ==
  DeleteTopicsIfExist(RemoveTopics(SendUnannounces(r, ids), ids),
                      UNION {MetaOf(r.topics[id].name) : id \in ids})

\* NtRegistry::ensure_meta_topic for each name that `alloc` gives an id; there
\* is no ceiling here.
EnsureMetaTopics(r, alloc) ==
  AnnounceToMatching(
    AddTopics(r, alloc, [n \in DOMAIN alloc |->
                           TopicState(n, "raw", EmptyMap, NoValue, TRUE)]),
    Range(alloc))

\* NtRegistry::publish_meta for each name of `payload`
PublishMetas(r, payload, alloc) ==
  LET ensured == EnsureMetaTopics(r, alloc)
      stamped(n) == [value |-> MetaValue(payload[n]), ts |-> MetaStamp]
  IN  HandleTopicValues(ensured,
        [id \in {ensured.byName[n] : n \in DOMAIN payload} |->
           stamped(ensured.topics[id].name)])

PublishMeta(r, n, payload) ==
  PublishMetas(r, [m \in {n} |-> payload],
    IF n \in DOMAIN r.byName THEN EmptyMap ELSE [m \in {n} |-> AllocId(r)])

\* publish_meta over a collection the code visits in any order
PublishMetasInAnyOrder(r, payload) ==
  {PublishMetas(r, payload, alloc) :
     alloc \in Allocations(r, DOMAIN payload \ DOMAIN r.byName)}

\* The payloads the update_meta_ methods compute.
ClientsPayload(r) == {<<r.clientName[c], c>> : c \in Clients(r)}
ClientPubPayload(r, c) ==
  {<<uid, IF r.pubs[c][uid] \in Live(r) THEN r.topics[r.pubs[c][uid]].name
          ELSE NoValue>> : uid \in DOMAIN r.pubs[c]}
ClientSubPayload(r, c) ==
  {<<uid, r.subs[c][uid].patterns>> : uid \in DOMAIN r.subs[c]}
SubPayload(r, n) ==
  UNION {{<<r.clientName[c], uid>> :
            uid \in {u \in DOMAIN r.subs[c] :
                       r.byName[n] \in r.subs[c][u].matched}} :
         c \in Get(r.subscribers, r.byName[n], {}) \cap Clients(r)}
PubPayload(r, n) ==
  UNION {{<<r.clientName[c], uid>> :
            uid \in {u \in DOMAIN r.pubs[c] : r.pubs[c][u] = r.byName[n]}} :
         c \in Clients(r)}

UpdateMetaClients(r) == PublishMeta(r, ClientsMeta, ClientsPayload(r))
UpdateMetaClientPub(r, c) ==
  PublishMeta(r, ClientPubMeta(r.clientName[c]), ClientPubPayload(r, c))
UpdateMetaClientSub(r, c) ==
  PublishMeta(r, ClientSubMeta(r.clientName[c]), ClientSubPayload(r, c))
UpdateMetaPub(r, n) ==
  IF n \in DOMAIN r.byName THEN PublishMeta(r, PubMeta(n), PubPayload(r, n))
  ELSE r

\* NtRegistry::update_meta_sub_for: the registries it may leave
UpdateMetaSubFor(r, ids) ==
  LET names == {r.topics[id].name : id \in ids \cap Live(r)}
      about == {n \in names : ~IsMetaTopic(n)}
  IN  PublishMetasInAnyOrder(r,
        [m \in {SubMeta(n) : n \in about} |-> SubPayload(r, Name(m[2]))])

NoMetaPubs(r, names) == {r}  \* mutant: $pub$ is left as it was

\* update_meta_pub for each of `names`: the registries it may leave
UpdateMetaPubs(r, names) ==
  LET about == names \cap DOMAIN r.byName
  IN  PublishMetasInAnyOrder(r,
        [m \in {PubMeta(n) : n \in about} |-> PubPayload(r, Name(m[2]))])

NoOrphans(r, ids) == {}  \* mutant: the last publisher deletes nothing

\* The topics of `ids` that lost their last publisher and are not retained.
Orphans(r, ids) ==
  {id \in ids \cap Live(r) :
     r.topics[id].publishers = 0 /\ ~IsRetained(r.topics[id])}

SaturatingSub(a, b) == IF a <= b THEN 0 ELSE a - b

\* on_disconnect's decrements: one for each uid that the map `pubs` holds.
ReleaseAll(r, pubs) ==
  LET held(id) == Cardinality({u \in DOMAIN pubs : pubs[u] = id})
  IN  [r EXCEPT !.topics = [id \in Live(r) |->
         [r.topics[id] EXCEPT !.publishers = SaturatingSub(@, held(id))]]]

KeepPublisher(r, id) == r  \* mutant: a moved publisher is not released

\* NtRegistry::release_publisher
ReleasePublisher(r, id) ==
  IF id \notin Live(r) THEN r
  ELSE LET left == [r EXCEPT !.topics[id].publishers = SaturatingSub(@, 1)]
       IN  UpdateMetaPub(DeleteTopics(left, Orphans(left, {id})),
                         r.topics[id].name)

\* NtRegistry::dedup_client_name: base, then base@1, base@2, ...
DedupClientName(r, base) ==
  LET taken == {k \in 0 .. Cardinality(r.clientNames) :
                  <<base, k>> \in r.clientNames}
  IN  <<base, CHOOSE k \in 0 .. Cardinality(r.clientNames) :
                k \notin taken /\ \A j \in 0 .. k - 1 : j \in taken>>

-----------------------------------------------------------------------------
(* Handlers.                                                               *)

\* NtRegistry::on_connect
OnConnect(r, c, base) ==
  LET name == DedupClientName(r, base)
      joined == [r EXCEPT !.clientNames = @ \cup {name},
                          !.clientName = Put(@, c, name),
                          !.pubs = Put(@, c, EmptyMap),
                          !.subs = Put(@, c, EmptyMap),
                          !.view = Put(@, c, EmptyMap)]
      described == UpdateMetaClientSub(
                     UpdateMetaClientPub(UpdateMetaClients(joined), c), c)
  IN  PublishMeta(PublishMeta(described, ServerSubMeta, {}), ServerPubMeta, {})

\* NtRegistry::on_disconnect: the registries it may leave
OnDisconnect(r, c) ==
  LET name == r.clientName[c]
      published == Range(r.pubs[c])
      pubNames == {r.topics[id].name : id \in published \cap Live(r)}
      subscribed == UNION {sub.matched : sub \in Range(r.subs[c])}
      gone == [r EXCEPT !.clientNames = @ \ {name},
                        !.clientName = Drop(@, {c}),
                        !.pubs = Drop(@, {c}),
                        !.subs = Drop(@, {c}),
                        !.view = Drop(@, {c})]
      cleared == DeleteTopicsIfExist(gone,
                   {ClientPubMeta(name), ClientSubMeta(name)})
      released == ReleaseAll(cleared, r.pubs[c])
      pruned == DeleteTopics(released, Orphans(released, published))
  IN  UNION {UpdateMetaPubs(s, pubNames) :
               s \in UpdateMetaSubFor(UpdateMetaClients(pruned), subscribed)}

\* NtRegistry::handle_publish, once its limits have let it through
HandlePublish(r, c, n, uid, type, properties) ==
  LET isNew == n \notin DOMAIN r.byName
      id == IF isNew THEN AllocId(r) ELSE r.byName[n]
      topic == TopicState(n, type, properties, NoValue, FALSE)
      added == IF isNew
               THEN [AddTopic(r, topic) EXCEPT
                       !.generation = @ + IF topic.persistent THEN 1 ELSE 0]
               ELSE r
      moved == uid \in DOMAIN r.pubs[c] /\ r.pubs[c][uid] # id
      again == uid \in DOMAIN r.pubs[c] /\ r.pubs[c][uid] = id
      joined == [added EXCEPT
                   !.pubs[c] = Put(@, uid, id),
                   !.topics[id].publishers = IF again THEN @ ELSE @ + 1]
      told == SendAnnounces(AddAnnounced(joined, [i \in {id} |-> {c}]),
                            [d \in {c} |-> {id}])
      matched == IF isNew THEN AnnounceToMatching(told, {id}) ELSE told
      released == IF moved THEN ReleasePublisher(matched, r.pubs[c][uid])
                  ELSE matched
  IN  UpdateMetaPub(UpdateMetaClientPub(released, c), n)

\* NtRegistry::handle_unpublish of a uid the client holds
HandleUnpublish(r, c, uid) ==
  LET id == r.pubs[c][uid]
      left == [r EXCEPT !.pubs[c] = Drop(@, {uid})]
      forgotten == [left EXCEPT !.pubs =
        [d \in DOMAIN @ |-> Drop(@[d], {u \in DOMAIN @[d] : @[d][u] = id})]]
  IN  IF id \in Live(r) THEN UpdateMetaClientPub(ReleasePublisher(left, id), c)
      ELSE forgotten

\* Takes subscription uid out of client c, and c out of the fan-out of every
\* topic it matched (handle_subscribe on a reused subuid, handle_unsubscribe).
DropSubscription(r, c, uid) ==
  IF uid \notin DOMAIN r.subs[c] THEN r
  ELSE [r EXCEPT
          !.subs[c] = Drop(@, {uid}),
          !.subscribers = [id \in DOMAIN @ |->
             IF id \in r.subs[c][uid].matched THEN @[id] \ {c} ELSE @[id]]]

Touched(r, c, uid) ==
  IF uid \in DOMAIN r.subs[c] THEN r.subs[c][uid].matched ELSE {}

NothingRetained(r, ids) == {}  \* mutant: late subscribers get no value

\* handle_subscribe's retained_for_late
RetainedForLate(r, ids) ==
  {id \in ids : r.topics[id].cached /\ r.topics[id].current # NoValue}

\* NtRegistry::handle_subscribe, once its limit has let it through: the
\* registries it may leave
HandleSubscribe(r, c, uid, input) ==
  LET dropped == DropSubscription(r, c, uid)
      matched == {id \in Live(r) : SubMatches(input, r.topics[id].name)}
      toC == [id \in matched |-> {c}]
      fed == IF input.topicsOnly THEN dropped
             ELSE AddSubscribers(dropped, toC)
      told == AddAnnounced(fed, toC)
      late == IF input.topicsOnly THEN {} ELSE RetainedForLate(r, matched)
      sent == SendValues(told, [id \in late |-> r.topics[id].current],
                         [id \in late |-> {c}])
      sub == [patterns |-> input.patterns, prefix |-> input.prefix,
              topicsOnly |-> input.topicsOnly, matched |-> matched]
      held == [sent EXCEPT !.subs[c] = Put(@, uid, sub)]
  IN  UpdateMetaSubFor(UpdateMetaClientSub(held, c),
                       matched \cup Touched(r, c, uid))

\* NtRegistry::handle_unsubscribe: the registries it may leave
HandleUnsubscribe(r, c, uid) ==
  UpdateMetaSubFor(UpdateMetaClientSub(DropSubscription(r, c, uid), c),
                   Touched(r, c, uid))

\* NtRegistry::handle_upsert_value, once the ceiling has let it through
HandleUpsertValue(r, n, value, ts) ==
  LET isNew == n \notin DOMAIN r.byName
      id == IF isNew THEN AllocId(r) ELSE r.byName[n]
      topic == TopicState(n, value.type, EmptyMap, NoValue, TRUE)
      added == IF isNew THEN AddTopic(r, topic) ELSE r
  IN  HandleTopicValues(added, [i \in {id} |-> [value |-> value, ts |-> ts]])

\* NtRegistry::handle_setproperties of an existing topic
HandleSetProperties(r, n, update) ==
  LET id == r.byName[n]
      Apply(properties) == Extend(Drop(properties, update.unset), update.set)
      topic == SyncProperties(
                 [r.topics[id] EXCEPT !.properties = Apply(@)])
      told(c) == id \in DOMAIN r.view[c] /\ c \in Get(r.announced, id, {})
  IN  [r EXCEPT
         !.topics[id] = topic,
         !.generation =
           @ + IF r.topics[id].persistent \/ topic.persistent THEN 1 ELSE 0,
         !.view = [c \in DOMAIN r.view |->
           IF told(c) THEN [r.view[c] EXCEPT ![id].properties = Apply(@)]
           ELSE r.view[c]]]

\* NtRegistry::persistent_snapshot
PersistentSnapshot(r) ==
  {[name |-> t.name, type |-> t.type, value |-> t.current.value,
    properties |-> t.properties] :
     t \in {u \in Range(r.topics) :
              Get(u.properties, "persistent", FALSE) /\ u.current # NoValue}}

\* NtRegistry::restore_persistent as load_persistent calls it: the registries
\* it may leave.  It ignores MAX_TOPICS and announces nothing.
RestorePersistent(r, entries, now) ==
  LET new == {e \in entries : e.name \notin DOMAIN r.byName}
      entry(n) == CHOOSE e \in new : e.name = n
      fresh(n) == TopicState(n, entry(n).type, entry(n).properties,
                    [value |-> entry(n).value, ts |-> now], TRUE)
      restored(alloc) ==
        AddTopics(r, alloc, [n \in DOMAIN alloc |-> fresh(n)])
  IN  IF entries = {} THEN {r}
      ELSE {[restored(alloc) EXCEPT !.generation = @ + 1] :
              alloc \in Allocations(r, {e.name : e \in new})}

-----------------------------------------------------------------------------
(* The specification.                                                      *)

EmptyRegistry ==
  [topics |-> EmptyMap, byName |-> EmptyMap, pubs |-> EmptyMap,
   subs |-> EmptyMap, subscribers |-> EmptyMap, announced |-> EmptyMap,
   freed |-> {}, nextId |-> 0, clientName |-> EmptyMap, clientNames |-> {},
   generation |-> 0, view |-> EmptyMap]

\* The files load_persistent may find: one entry per name.
Files == {entries \in SUBSET SavedTopic :
            \A e1, e2 \in entries : e1.name = e2.name => e1 = e2}

Value == [type : DataType, data : Datum]

\* Server::start on a freshly bound server
Init ==
  /\ \E entries \in Files, now \in Stamp :
       reg \in RestorePersistent(EmptyRegistry, entries, now)
  /\ nextClient = 0
  /\ restarts = 0

\* A handler leaves r; the bound keeps the generation counter finite.
Leaves(r) == r.generation <= MaxGeneration /\ reg' = r

\* spawn_connection's use of on_connect, with accept_loop's next id
Connect(base) ==
  /\ nextClient < MaxClients
  /\ Leaves(OnConnect(reg, nextClient, base))
  /\ nextClient' = nextClient + 1
  /\ UNCHANGED restarts

Disconnect(c) ==
  /\ \E r \in OnDisconnect(reg, c) : Leaves(r)
  /\ UNCHANGED <<nextClient, restarts>>

PublishUncapped(c, t, uid, type, properties) ==  \* mutant: no MAX_PER_CLIENT
  /\ Name(t) \in DOMAIN reg.byName \/ Cardinality(Live(reg)) < MaxTopics
  /\ Leaves(HandlePublish(reg, c, Name(t), uid, type, properties))
  /\ UNCHANGED <<nextClient, restarts>>

Publish(c, t, uid, type, properties) ==
  /\ uid \in DOMAIN reg.pubs[c] \/ Cardinality(DOMAIN reg.pubs[c]) < MaxPerClient
  /\ Name(t) \in DOMAIN reg.byName \/ Cardinality(Live(reg)) < MaxTopics
  /\ Leaves(HandlePublish(reg, c, Name(t), uid, type, properties))
  /\ UNCHANGED <<nextClient, restarts>>

Unpublish(c, uid) ==
  /\ uid \in DOMAIN reg.pubs[c]
  /\ Leaves(HandleUnpublish(reg, c, uid))
  /\ UNCHANGED <<nextClient, restarts>>

Subscribe(c, uid, input) ==
  /\ uid \in DOMAIN reg.subs[c] \/ Cardinality(DOMAIN reg.subs[c]) < MaxPerClient
  /\ \E r \in HandleSubscribe(reg, c, uid, input) : Leaves(r)
  /\ UNCHANGED <<nextClient, restarts>>

Unsubscribe(c, uid) ==
  /\ \E r \in HandleUnsubscribe(reg, c, uid) : Leaves(r)
  /\ UNCHANGED <<nextClient, restarts>>

\* handle_value: a value for a uid the client publishes
PublishValue(c, uid, value, ts) ==
  /\ uid \in DOMAIN reg.pubs[c]
  /\ Leaves(HandleTopicValues(reg,
       [id \in {reg.pubs[c][uid]} |-> [value |-> value, ts |-> ts]]))
  /\ UNCHANGED <<nextClient, restarts>>

UpsertValue(t, value, ts) ==
  /\ Name(t) \in DOMAIN reg.byName \/ Cardinality(Live(reg)) < MaxTopics
  /\ Leaves(HandleUpsertValue(reg, Name(t), value, ts))
  /\ UNCHANGED <<nextClient, restarts>>

SetProperties(c, t, update) ==
  /\ Name(t) \in DOMAIN reg.byName
  /\ Leaves(HandleSetProperties(reg, Name(t), update))
  /\ UNCHANGED <<nextClient, restarts>>

\* Server::stop, every connection torn down, then Server::start: the same
\* registry, the file read again, and an accept loop that counts from 0.
Restart(entries, now) ==
  /\ restarts < MaxRestarts
  /\ Clients(reg) = {}
  /\ \E r \in RestorePersistent(reg, entries, now) : Leaves(r)
  /\ nextClient' = 0
  /\ restarts' = restarts + 1

Next ==
  \/ \E base \in BaseName : Connect(base)
  \/ \E c \in Clients(reg) : Disconnect(c)
  \/ \E c \in Clients(reg), t \in Topic, uid \in PubUid, type \in DataType,
        properties \in PropInput : Publish(c, t, uid, type, properties)
  \/ \E c \in Clients(reg), uid \in PubUid : Unpublish(c, uid)
  \/ \E c \in Clients(reg), uid \in SubUid, input \in SubInput :
       Subscribe(c, uid, input)
  \/ \E c \in Clients(reg), uid \in SubUid : Unsubscribe(c, uid)
  \/ \E c \in Clients(reg), uid \in PubUid, value \in Value, ts \in Stamp :
       PublishValue(c, uid, value, ts)
  \/ \E c \in Clients(reg), t \in Topic, update \in PropUpdate :
       SetProperties(c, t, update)
  \/ \E t \in UpsertTopic, value \in Value, ts \in Stamp :
       UpsertValue(t, value, ts)
  \/ \E entries \in Files, now \in Stamp : Restart(entries, now)

Spec == Init /\ [][Next]_vars

-----------------------------------------------------------------------------
(* Types.                                                                  *)

ClientId == 0 .. MaxClients - 1
TopicId == Nat
ClientName == BaseName \X Nat

AnyName ==
  ({"topic", "$pub", "$sub"} \X Topic)
    \cup ({"$clientpub", "$clientsub"} \X ClientName)
    \cup {ClientsMeta, ServerSubMeta, ServerPubMeta}

\* The state is well formed: the maps of NtRegistry go from the keys to the
\* values their Rust types declare, every map keyed by connection has the same
\* connections, and no client holds more than MAX_PER_CLIENT uids.
TypeOK ==
  /\ nextClient \in 0 .. MaxClients
  /\ restarts \in 0 .. MaxRestarts
  /\ reg.nextId \in Nat
  /\ reg.freed \subseteq TopicId
  /\ reg.generation \in Nat
  /\ DOMAIN reg.topics \subseteq TopicId
  /\ \A id \in Live(reg) :
       /\ reg.topics[id].name \in AnyName
       /\ reg.topics[id].type \in DataType \cup {"raw"}
       /\ reg.topics[id].properties \in MapsFrom(Keys, BOOLEAN)
       /\ reg.topics[id].publishers \in Nat
       /\ reg.topics[id].retained \in BOOLEAN
       /\ reg.topics[id].cached \in BOOLEAN
       /\ reg.topics[id].persistent \in BOOLEAN
  /\ DOMAIN reg.byName \subseteq AnyName
  /\ Range(reg.byName) \subseteq TopicId
  /\ Clients(reg) \subseteq ClientId
  /\ DOMAIN reg.subs = Clients(reg)
  /\ DOMAIN reg.view = Clients(reg)
  /\ DOMAIN reg.clientName = Clients(reg)
  /\ Range(reg.clientName) \subseteq ClientName
  /\ \A c \in Clients(reg) :
       /\ DOMAIN reg.pubs[c] \subseteq PubUid
       /\ DOMAIN reg.subs[c] \subseteq SubUid
       /\ Cardinality(DOMAIN reg.pubs[c]) <= MaxPerClient
       /\ Cardinality(DOMAIN reg.subs[c]) <= MaxPerClient
  /\ Range(reg.subscribers) \subseteq SUBSET ClientId
  /\ Range(reg.announced) \subseteq SUBSET ClientId

-----------------------------------------------------------------------------
(* Properties.                                                             *)

\* Names and ids are in step through every creation, deletion and reuse:
\* by_name is the exact inverse of the topics' names, and every id ever handed
\* out is either in use or on the freed list, never both (alloc_id, free_id).
NamesAndIdsAgree ==
  /\ \A n \in DOMAIN reg.byName :
       reg.byName[n] \in Live(reg) /\ reg.topics[reg.byName[n]].name = n
  /\ \A id \in Live(reg) :
       reg.topics[id].name \in DOMAIN reg.byName
         /\ reg.byName[reg.topics[id].name] = id
  /\ Live(reg) \cap reg.freed = {}
  /\ Live(reg) \cup reg.freed = 0 .. reg.nextId - 1

\* No client state refers to a topic that is gone, so a reused id (alloc_id
\* takes the lowest freed one) inherits no publisher, no subscriber, no
\* announcement and no subscription match from the topic that had it before.
NoDanglingIds ==
  /\ DOMAIN reg.subscribers \cup DOMAIN reg.announced \subseteq Live(reg)
  /\ \A c \in Clients(reg) :
       /\ Range(reg.pubs[c]) \subseteq Live(reg)
       /\ \A sub \in Range(reg.subs[c]) : sub.matched \subseteq Live(reg)

\* The publishers of a topic, as the uids that clients hold on it.
Holders(r, id) ==
  {h \in Clients(r) \X PubUid :
     h[2] \in DOMAIN r.pubs[h[1]] /\ r.pubs[h[1]][h[2]] = id}

\* TopicState::publishers, kept by increments and saturating decrements in
\* handle_publish, release_publisher and on_disconnect, is the number of
\* publisher uids that clients hold on the topic.
PublisherCountExact ==
  \A id \in Live(reg) :
    reg.topics[id].publishers = Cardinality(Holders(reg, id))

\* A topic loses its last publisher only by being deleted, unless it is
\* retained: the only way to an unretained topic without publishers is a
\* setproperties that takes the retention away (release_publisher,
\* on_disconnect).
LastPublisherDeletes ==
  [][\A id \in Live(reg') :
       reg'.topics[id].publishers = 0 /\ ~IsRetained(reg'.topics[id]) =>
         /\ id \in Live(reg)
         /\ reg.topics[id].name = reg'.topics[id].name
         /\ reg.topics[id].publishers = 0]_vars

\* Whoever gets the values of a topic was told, before, that its id stands for
\* that name, and knows the topic's current properties: a value frame carries
\* the id only (handle_topic_value, add_announced, handle_setproperties).
SubscribersWereTold ==
  \A id \in DOMAIN reg.subscribers :
    \A c \in reg.subscribers[id] \cap Clients(reg) :
      /\ id \in DOMAIN reg.view[c]
      /\ reg.view[c][id].name = reg.topics[id].name
      /\ reg.view[c][id].properties = reg.topics[id].properties

\* What a client was told of ordinary topics is what is there: after an
\* ordinary topic is deleted nobody still holds its id (delete_topic routes an
\* unannounce to everyone announced).
NoStaleAnnouncement ==
  \A c \in Clients(reg) : \A id \in DOMAIN reg.view[c] :
    ~IsMetaTopic(reg.view[c][id].name) =>
      id \in Live(reg) /\ reg.topics[id].name = reg.view[c][id].name

\* A subscription's matched set is exactly the live topics it matches, however
\* topics and subscriptions come and go (handle_subscribe,
\* announce_to_matching, delete_topic): "Unsubscribe walks `matched`, so a
\* topic left out would keep sending."
MatchedExact ==
  \A c \in Clients(reg) : \A sub \in Range(reg.subs[c]) :
    sub.matched = {id \in Live(reg) : SubMatches(sub, reg.topics[id].name)}

\* Only clients that asked are sent values: a connected client in a topic's
\* fan-out list has a subscription to values that matches it.
FedOnlyIfSubscribed ==
  \A id \in DOMAIN reg.subscribers :
    \A c \in reg.subscribers[id] \cap Clients(reg) :
      \E sub \in Range(reg.subs[c]) : ~sub.topicsOnly /\ id \in sub.matched

\* Every client that asked is sent values: a subscription to values that
\* matches a topic has its client in the topic's fan-out list.
SubscribedAreFed ==
  \A c \in Clients(reg) : \A sub \in Range(reg.subs[c]) :
    ~sub.topicsOnly =>
      \A id \in sub.matched : c \in Get(reg.subscribers, id, {})

\* The fan-out list of a topic holds the connected clients that asked, and no
\* other: nobody is left out and nobody is sent what it did not ask for.
FedExactly == SubscribedAreFed /\ FedOnlyIfSubscribed

\* A subscriber of a cached topic that holds a value has been sent one: the
\* retained value when it subscribed late, a fanned-out one otherwise.
SubscribersHoldAValue ==
  \A id \in DOMAIN reg.subscribers :
    reg.topics[id].cached /\ reg.topics[id].current # NoValue =>
      \A c \in reg.subscribers[id] \cap Clients(reg) :
        reg.view[c][id].value # NoValue

Published(r, n) == r.topics[r.byName[n]].current.value.data

\* The meta topics tell the truth after every handler: $clients, $clientpub$,
\* $clientsub$ and $pub$ always, $sub$ from the first change of the topic's
\* subscribers on.
MetaTopicsCurrent ==
  /\ Clients(reg) # {} => Published(reg, ClientsMeta) = ClientsPayload(reg)
  /\ \A c \in Clients(reg) :
       /\ Published(reg, ClientPubMeta(reg.clientName[c]))
            = ClientPubPayload(reg, c)
       /\ Published(reg, ClientSubMeta(reg.clientName[c]))
            = ClientSubPayload(reg, c)
  /\ \A id \in Live(reg) :
       LET n == reg.topics[id].name
       IN  /\ reg.topics[id].publishers > 0 =>
                Published(reg, PubMeta(n)) = PubPayload(reg, n)
           /\ ~IsMetaTopic(n) /\ SubMeta(n) \in DOMAIN reg.byName =>
                Published(reg, SubMeta(n)) = SubPayload(reg, n)

\* persistent_generation moves whenever the snapshot a saver would write
\* changes, so comparing generations never misses a change.
GenerationTracksSnapshot ==
  [][PersistentSnapshot(reg') # PersistentSnapshot(reg)
       => reg'.generation # reg.generation]_vars

====
