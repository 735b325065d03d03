------------------------- MODULE SubscriptionProofs -------------------------
(***************************************************************************)
(* Proofs about Subscription, for any number of subscriptions, publishers  *)
(* and values: BufferedListener implements Listener's promise, its         *)
(* callback runs on one thread at a time, and a callback's context is      *)
(* released once, when nothing can use it any more.                        *)
(***************************************************************************)
EXTENDS Subscription, TLAPS

-----------------------------------------------------------------------------
(* Frames.                                                                 *)

Frame ==
  {Announce} \cup {ValueFrame(v) : v \in Values}
    \cup {ReplyFrame(s, v) : s \in Sub, v \in Values \cup {NoValue}}

Asked == {"subscribe", "get", "unsubscribe"} \X Sub

LEMMA FrameFields ==
  ASSUME NEW f \in Frame
  PROVE  /\ f[1] = "value" => f[2] \in Values
         /\ f[1] = "reply" => f[2] \in Sub /\ f[3] \in Values \cup {NoValue}
BY DEF Frame, Announce, ValueFrame, ReplyFrame

LEMMA FrameForms ==
  /\ Announce \in Frame
  /\ \A v \in Values : ValueFrame(v) \in Frame
  /\ \A s \in Sub, v \in Values \cup {NoValue} : ReplyFrame(s, v) \in Frame
BY DEF Frame

\* The first of a nonempty sequence, and the rest of it.
LEMMA FirstAndRest ==
  \A b \in Seq(Values) : b # <<>> => Head(b) \in Values /\ Tail(b) \in Seq(Values)
OBVIOUS

\* What is on its way between the server and the client.
WireType ==
  /\ value \in 0 .. MaxValues
  /\ hand \in [Thread -> Seq(Frame)]
  /\ inbox \in Seq(Frame)
  /\ upstream \in Seq(Asked)

\* A thread that leaves the registry with frames holds frames.
LEMMA HoldingTypes ==
  ASSUME WireType, NEW t \in Thread, NEW frames \in Seq(Frame), Holding(t, frames)
  PROVE  hand' \in [Thread -> Seq(Frame)]
BY Zenon DEF WireType, Holding

LEMMA ValueInRange == WireType => value \in Nat /\ (value > 0 => value \in Values)
BY SubscriptionAssumption DEF WireType, Values

LEMMA WireTypeServer ==
  ASSUME WireType,
         \/ \E p \in Publisher : ServerPublish(p) \/ ServerValue(p)
         \/ ServerSubscribe \/ ServerUnsubscribe \/ ServerGet
         \/ \E t \in Thread : Dispatch(t)
  PROVE  WireType'
<1> USE DEF wire
<1>0. Conn \in Thread /\ Publisher \subseteq Thread
  BY Zenon DEF Thread
<1>1. ASSUME NEW p \in Publisher, ServerPublish(p) PROVE WireType'
  <2>1. (IF fed # {} THEN <<Announce>> ELSE <<>>) \in Seq(Frame)
    BY FrameForms
  <2> QED
    BY <1>0, <1>1, <2>1, HoldingTypes, Zenon DEF ServerPublish, WireType
<1>2. ASSUME NEW p \in Publisher, ServerValue(p) PROVE WireType'
  <2>1. value + 1 \in Values /\ value' = value + 1
    BY <1>2, SubscriptionAssumption DEF ServerValue, WireType, Values
  <2>2. (IF fed # {} THEN <<ValueFrame(value + 1)>> ELSE <<>>) \in Seq(Frame)
    BY <2>1, FrameForms
  <2> QED
    <3>1. hand' \in [Thread -> Seq(Frame)]
      BY <1>0, <1>2, <2>2, HoldingTypes, Zenon DEF ServerValue
    <3> QED
      BY <1>2, <2>1, <3>1 DEF ServerValue, WireType, Values
<1>3. CASE ServerSubscribe
  <2> DEFINE a == IF exists /\ ~announced THEN <<Announce>> ELSE <<>>
             b == IF value > 0 THEN <<ValueFrame(value)>> ELSE <<>>
  <2>1. a \in Seq(Frame)
    BY FrameForms
  <2>2. b \in Seq(Frame)
    BY FrameForms, ValueInRange
  <2>3. Holding(Conn, a \o b)
    BY <1>3, Zenon DEF ServerSubscribe
  <2> HIDE DEF a, b
  <2>4. hand' \in [Thread -> Seq(Frame)]
    <3>1. a \o b \in Seq(Frame)
      BY <2>1, <2>2
    <3> QED
      BY <1>0, <2>3, <3>1, HoldingTypes, Zenon
  <2> QED
    BY <1>3, <2>4 DEF ServerSubscribe, WireType
<1>4. CASE ServerUnsubscribe
  <2>1. hand' \in [Thread -> Seq(Frame)]
    <3>1. <<>> \in Seq(Frame)
      OBVIOUS
    <3> QED
      BY <1>0, <1>4, <3>1, HoldingTypes, Zenon DEF ServerUnsubscribe
  <2> QED
    BY <1>4, <2>1 DEF ServerUnsubscribe, WireType
<1>5. CASE ServerGet
  <2>1. Head(upstream) \in Asked
    BY <1>5 DEF ServerGet, WireType
  <2>2. Head(upstream)[2] \in Sub
    BY <2>1, Zenon DEF Asked
  <2>3. (IF value > 0 THEN value ELSE NoValue) \in Values \cup {NoValue}
    BY ValueInRange, Zenon
  <2>4. <<ReplyFrame(Head(upstream)[2], IF value > 0 THEN value ELSE NoValue)>>
          \in Seq(Frame)
    BY <2>2, <2>3, FrameForms
  <2> QED
    BY <1>0, <1>5, <2>4 DEF ServerGet, WireType
<1>6. ASSUME NEW t \in Thread, Dispatch(t) PROVE WireType'
  BY <1>6 DEF Dispatch, WireType
<1> QED
  BY <1>1, <1>2, <1>3, <1>4, <1>5, <1>6, Zenon

-----------------------------------------------------------------------------
(* The client.                                                             *)

Before == {"idle", "insert", "get", "wait", "snapshot", "open", "replay"}
After == {"register", "subscribed", "unsubscribe", "remove", "ended"}

\* Not yet called, and so nothing heard.
Unheard(s) ==
  \/ pc[s] \in {"idle", "insert", "get", "wait"}
  \/ pc[s] = "snapshot" /\ s \notin running[s]

ReaderType ==
  [value : Values \cup {NoValue}, todo : SUBSET Sub, call : Sub \cup {NoValue}]

ClientType ==
  /\ pc \in [Sub -> Before \cup After]
  /\ gate \in [Sub -> Seq(Values) \cup {Open}]
  /\ batch \in [Sub -> Seq(Values)]
  /\ got \in [Sub -> Values \cup {NoValue}]
  /\ running \in [Sub -> SUBSET (Sub \cup {"reader"})]
  /\ heard \in [Sub -> Values \cup {NoValue}]
  /\ queue \in [Sub -> Seq(Values)]
  /\ listeners \subseteq Sub
  /\ rd \in ReaderType
  /\ rd.todo # {} \/ rd.call # NoValue => rd.value \in Values

\* The gate of a listener: closed until open() found its buffer empty, which
\* is the last thing the subscribing thread does with the callback; the reader
\* calls only through an open gate.
Gate(s) ==
  /\ gate[s] = Open <=> pc[s] \in After
  /\ pc[s] # "replay" => batch[s] = <<>>
  /\ pc[s] = "replay" => s \in running[s] \/ batch[s] # <<>>
  /\ running[s] \subseteq {s, "reader"}
  /\ s \in running[s] => pc[s] \in {"snapshot", "replay"}
  /\ "reader" \in running[s] => rd.call = s
  /\ rd.call = s => pc[s] \in After
  /\ pending = s => pc[s] = "wait"
  /\ cancels = s => pc[s] = "subscribed"
  /\ pc[s] = "snapshot" => got[s] # NoValue
  /\ Unheard(s) => heard[s] = NoValue

\* Who owns the listener: the slot map until the slot is removed, the reader
\* as long as its clones last.
Owned(s) ==
  /\ s \in listeners <=> pc[s] \notin {"idle", "insert", "ended"}
  /\ s \in rd.todo \/ rd.call = s => pc[s] \notin {"idle", "insert"}
  /\ s \in rd.todo => rd.call # s
  /\ released[s] = IF pc[s] = "ended" /\ s \notin rd.todo /\ rd.call # s
                   THEN 1 ELSE 0

\* A cached subscriber's queue.
Newest(s) ==
  s \in Cached /\ queue[s] # <<>> =>
    Len(queue[s]) <= Depth /\ queue[s][Len(queue[s])] = heard[s]

ClientInv ==
  /\ ClientType
  /\ released \in [Sub -> Nat]
  /\ \A s \in Sub : Gate(s) /\ Owned(s) /\ Newest(s)

SubscriptionInv == WireType /\ ClientInv

\* The parts of the invariant, apart and together.
LEMMA InvParts ==
  ASSUME SubscriptionInv
  PROVE  /\ WireType /\ ClientInv /\ ClientType /\ released \in [Sub -> Nat]
         /\ \A q \in Sub : Gate(q)
         /\ \A q \in Sub : Owned(q)
         /\ \A q \in Sub : Newest(q)
         /\ pc \in [Sub -> Before \cup After]
         /\ running \in [Sub -> SUBSET (Sub \cup {"reader"})]
         /\ gate \in [Sub -> Seq(Values) \cup {Open}]
         /\ batch \in [Sub -> Seq(Values)]
<1>1. /\ WireType /\ ClientInv /\ ClientType /\ released \in [Sub -> Nat]
      /\ \A q \in Sub : Gate(q) /\ Owned(q) /\ Newest(q)
  BY Zenon DEF SubscriptionInv, ClientInv
<1>2. /\ pc \in [Sub -> Before \cup After]
      /\ running \in [Sub -> SUBSET (Sub \cup {"reader"})]
      /\ gate \in [Sub -> Seq(Values) \cup {Open}]
      /\ batch \in [Sub -> Seq(Values)]
  BY <1>1, Zenon DEF ClientType
<1> QED
  BY <1>1, <1>2, Zenon

LEMMA InvFolds ==
  ASSUME WireType', ClientType', (released \in [Sub -> Nat])',
         \A q \in Sub : Gate(q)' /\ Owned(q)' /\ Newest(q)'
  PROVE  SubscriptionInv'
BY Zenon DEF SubscriptionInv, ClientInv

LEMMA InitSubscription == Init => SubscriptionInv
<1> SUFFICES ASSUME Init PROVE SubscriptionInv
  BY Zenon
<1> USE SubscriptionAssumption
<1>1. WireType
  BY DEF Init, WireType, Thread
<1>2. ClientType
  BY DEF Init, ClientType, ReaderType, Before, After, Idle
<1>3. <<>> # Open
  BY Zenon DEF Open
<1>4. released \in [Sub -> Nat] /\ \A s \in Sub : Gate(s) /\ Owned(s) /\ Newest(s)
  BY <1>3, Zenon DEF Init, Gate, Unheard, Owned, Newest, Idle, After
<1> QED
  BY <1>1, <1>2, <1>4, Zenon DEF SubscriptionInv, ClientInv

\* The server's steps leave the client alone.
LEMMA ServerKeepsClient ==
  ASSUME ClientInv, UNCHANGED client
  PROVE  ClientInv'
BY DEF client, ClientInv, ClientType, Gate, Unheard, Owned, Newest

LEMMA GoesTo ==
  ASSUME pc \in [Sub -> Before \cup After], NEW s \in Sub,
         NEW where \in Before \cup After, Goto(s, where)
  PROVE  /\ pc' \in [Sub -> Before \cup After]
         /\ pc'[s] = where
         /\ \A q \in Sub \ {s} : pc'[q] = pc[q]
BY Zenon DEF Goto

\* What the promises about a listener depend on.
LEMMA SameGate ==
  ASSUME NEW q \in Sub, Gate(q), pc'[q] = pc[q], gate'[q] = gate[q],
         batch'[q] = batch[q], running'[q] = running[q], got'[q] = got[q],
         heard'[q] = heard[q], rd'.call = q <=> rd.call = q,
         pending' = q => pending = q, cancels' = q => cancels = q
  PROVE  Gate(q)'
BY Zenon DEF Gate, Unheard

LEMMA SameOwned ==
  ASSUME NEW q \in Sub, Owned(q), pc'[q] = pc[q], q \in listeners' <=> q \in listeners,
         rd'.call = q <=> rd.call = q, q \in rd'.todo <=> q \in rd.todo,
         released'[q] = released[q]
  PROVE  Owned(q)'
BY Zenon DEF Owned

LEMMA SameNewest ==
  ASSUME NEW q \in Sub, Newest(q), queue'[q] = queue[q], heard'[q] = heard[q]
  PROVE  Newest(q)'
BY Zenon DEF Newest

\* A thread of subscribe that moves on, with no callback in it and the gate as
\* it was: the other listeners are untouched.
LEMMA MovesOn ==
  ASSUME ClientInv, NEW s \in Sub, NEW where \in Before \cup After, Goto(s, where),
         UNCHANGED <<gate, batch, got, rd, running, heard, released, queue>>,
         listeners' = listeners \/ listeners' = listeners \cup {s},
         pending' \in {pending, s, NoValue}, cancels' \in {cancels, s, NoValue},
         Gate(s)', Owned(s)'
  PROVE  ClientInv'
<1>c. ClientType /\ released \in [Sub -> Nat]
  BY Zenon DEF ClientInv
<1>g. \A q \in Sub : Gate(q) /\ Owned(q) /\ Newest(q)
  BY Zenon DEF ClientInv
<1>p. pc \in [Sub -> Before \cup After]
  BY <1>c, Zenon DEF ClientType
<1>1. /\ pc' \in [Sub -> Before \cup After]
      /\ \A q \in Sub \ {s} : pc'[q] = pc[q]
  BY <1>p, GoesTo, Zenon
<1>2. ClientType'
  BY <1>c, <1>1, Zenon DEF ClientType
<1>3. ASSUME NEW q \in Sub \ {s} PROVE Gate(q)'
  BY <1>g, <1>1, SameGate, SubscriptionAssumption
<1>4. ASSUME NEW q \in Sub \ {s} PROVE Owned(q)'
  BY <1>g, <1>1, SameOwned, Zenon
<1>5. ASSUME NEW q \in Sub PROVE Newest(q)'
  BY <1>g, SameNewest, Zenon
<1> QED
  BY <1>c, <1>2, <1>3, <1>4, <1>5, Zenon DEF ClientInv

LEMMA FrontOfSubscribe ==
  ASSUME SubscriptionInv, NEW s \in Sub,
         Subscribe(s) \/ InsertListener(s) \/ Get(s) \/ GetAnswered(s) \/ GetTimesOut(s)
  PROVE  SubscriptionInv'
<1>w. WireType /\ ClientInv /\ released \in [Sub -> Nat]
  BY InvParts, Zenon
<1>c. ClientType
  BY InvParts, Zenon
<1>p. /\ pc \in [Sub -> Before \cup After]
      /\ running \in [Sub -> SUBSET (Sub \cup {"reader"})]
  BY InvParts, Zenon
<1>g. \A q \in Sub : Gate(q)
  BY InvParts, Zenon
<1>o. \A q \in Sub : Owned(q)
  BY InvParts, Zenon
<1>0. WireType'
  <2>1. CASE Subscribe(s)
    BY <1>w, <2>1 DEF Subscribe, WireType, Asked, server
  <2>2. CASE Get(s)
    BY <1>w, <2>2 DEF Get, WireType, Asked, server
  <2> QED
    BY <1>w, <2>1, <2>2, Zenon DEF WireType, InsertListener, GetAnswered, GetTimesOut, server, wire
<1>1. CASE Subscribe(s)
  <2>1. /\ pc[s] = "idle" /\ Goto(s, "insert")
        /\ UNCHANGED <<listeners, pending, cancels, gate, batch, got, rd, running,
                       heard, released, queue>>
    BY <1>1, Zenon DEF Subscribe
  <2>2. "insert" \in Before \cup After
    BY Zenon DEF Before
  <2>3. pc'[s] = "insert"
    BY <1>p, <2>1, <2>2, GoesTo, Zenon
  <2>4. Gate(s)'
    BY <1>g, <2>1, <2>3, Zenon DEF Gate, Unheard, After
  <2>5. Owned(s)'
    BY <1>o, <2>1, <2>3, Zenon DEF Owned
  <2>6. ClientInv'
    BY <1>w, <2>1, <2>2, <2>4, <2>5, MovesOn, Zenon
  <2> QED
    BY <1>0, <2>6, Zenon DEF SubscriptionInv
<1>2. CASE InsertListener(s)
  <2>1. /\ pc[s] = "insert" /\ Goto(s, "get")
        /\ listeners' = listeners \cup {s}
        /\ UNCHANGED <<pending, cancels, gate, batch, got, rd, running, heard, released,
                       queue>>
    BY <1>2, Zenon DEF InsertListener
  <2>2. "get" \in Before \cup After
    BY Zenon DEF Before
  <2>3. pc'[s] = "get"
    BY <1>p, <2>1, <2>2, GoesTo, Zenon
  <2>4. Gate(s)'
    BY <1>g, <2>1, <2>3, Zenon DEF Gate, Unheard, After
  <2>5. Owned(s)'
    BY <1>o, <2>1, <2>3, Zenon DEF Owned
  <2>6. ClientInv'
    BY <1>w, <2>1, <2>2, <2>4, <2>5, MovesOn, Zenon
  <2> QED
    BY <1>0, <2>6, Zenon DEF SubscriptionInv
<1>3. CASE Get(s)
  <2>1. /\ pc[s] = "get" /\ Goto(s, "wait")
        /\ pending' = s
        /\ UNCHANGED <<listeners, cancels, gate, batch, got, rd, running, heard, released,
                       queue>>
    BY <1>3, Zenon DEF Get
  <2>2. "wait" \in Before \cup After
    BY Zenon DEF Before
  <2>3. pc'[s] = "wait"
    BY <1>p, <2>1, <2>2, GoesTo, Zenon
  <2>4. Gate(s)'
    BY <1>g, <2>1, <2>3, Zenon DEF Gate, Unheard, After
  <2>5. Owned(s)'
    BY <1>o, <2>1, <2>3, Zenon DEF Owned
  <2>6. ClientInv'
    BY <1>w, <2>1, <2>2, <2>4, <2>5, MovesOn, Zenon
  <2> QED
    BY <1>0, <2>6, Zenon DEF SubscriptionInv
<1>4. CASE GetAnswered(s)
  <2>1. /\ pc[s] = "wait" /\ pending # s /\ Goto(s, (IF got[s] = NoValue THEN "open" ELSE "snapshot"))
        /\ UNCHANGED <<listeners, pending, cancels, gate, batch, got, rd, running,
                       heard, released, queue>>
    BY <1>4, Zenon DEF GetAnswered
  <2>2. (IF got[s] = NoValue THEN "open" ELSE "snapshot") \in Before \cup After
    BY Zenon DEF Before
  <2>3. pc'[s] = (IF got[s] = NoValue THEN "open" ELSE "snapshot")
    BY <1>p, <2>1, <2>2, GoesTo, Zenon
  <2>4. Gate(s)'
    BY <1>g, <2>1, <2>3, Zenon DEF Gate, Unheard, After
  <2>5. Owned(s)'
    BY <1>o, <2>1, <2>3, Zenon DEF Owned
  <2>6. ClientInv'
    BY <1>w, <2>1, <2>2, <2>4, <2>5, MovesOn, Zenon
  <2> QED
    BY <1>0, <2>6, Zenon DEF SubscriptionInv
<1>5. CASE GetTimesOut(s)
  <2>1. /\ pc[s] = "wait" /\ Goto(s, "open")
        /\ pending' = NoValue
        /\ UNCHANGED <<listeners, cancels, gate, batch, got, rd, running, heard, released,
                       queue>>
    BY <1>5, Zenon DEF GetTimesOut
  <2>2. "open" \in Before \cup After
    BY Zenon DEF Before
  <2>3. pc'[s] = "open"
    BY <1>p, <2>1, <2>2, GoesTo, Zenon
  <2>4. Gate(s)'
    BY <1>g, <2>1, <2>3, SubscriptionAssumption, Zenon DEF Gate, Unheard, After
  <2>5. Owned(s)'
    BY <1>o, <2>1, <2>3, Zenon DEF Owned
  <2>6. ClientInv'
    BY <1>w, <2>1, <2>2, <2>4, <2>5, MovesOn, Zenon
  <2> QED
    BY <1>0, <2>6, Zenon DEF SubscriptionInv
<1> QED
  BY <1>1, <1>2, <1>3, <1>4, <1>5, Zenon

\* A callback that starts: the thread is in it, and the value was heard and is
\* the newest a cached subscriber holds.
LEMMA CallbackStarts ==
  ASSUME ClientInv, NEW s \in Sub, NEW t \in {s, "reader"}, NEW v \in Values,
         StartCallback(t, s, v)
  PROVE  /\ running' \in [Sub -> SUBSET (Sub \cup {"reader"})]
         /\ running'[s] = running[s] \cup {t}
         /\ \A q \in Sub \ {s} : running'[q] = running[q] /\ heard'[q] = heard[q]
         /\ heard' \in [Sub -> Values \cup {NoValue}]
         /\ queue' \in [Sub -> Seq(Values)]
         /\ \A q \in Sub : Newest(q)'
<1> USE SubscriptionAssumption
<1>1. /\ running \in [Sub -> SUBSET (Sub \cup {"reader"})]
      /\ heard \in [Sub -> Values \cup {NoValue}]
      /\ queue \in [Sub -> Seq(Values)]
      /\ \A q \in Sub : Newest(q)
  BY Zenon DEF ClientInv, ClientType
<1>2. /\ running' \in [Sub -> SUBSET (Sub \cup {"reader"})]
      /\ running'[s] = running[s] \cup {t}
      /\ \A q \in Sub \ {s} : running'[q] = running[q]
  BY <1>1, Zenon DEF StartCallback
<1>3. /\ heard' \in [Sub -> Values \cup {NoValue}]
      /\ heard'[s] = v
      /\ \A q \in Sub \ {s} : heard'[q] = heard[q]
  BY <1>1, Zenon DEF StartCallback
<1> DEFINE left == IF Len(queue[s]) = Depth THEN Tail(queue[s]) ELSE queue[s]
<1>4. left \in Seq(Values) /\ (s \in Cached => Len(left) < Depth)
  <2>1. queue[s] \in Seq(Values)
    BY <1>1, Zenon
  <2>2. s \in Cached /\ queue[s] # <<>> => Len(queue[s]) <= Depth
    BY <1>1, Zenon DEF Newest
  <2>3. CASE Len(queue[s]) = Depth
    <3>1. queue[s] # <<>>
      BY <2>3, Zenon
    <3> QED
      BY <2>1, <2>3, <3>1
  <2>4. CASE Len(queue[s]) # Depth
    BY <2>1, <2>2, <2>4
  <2> QED
    BY <2>3, <2>4, Zenon
<1>5. queue' = IF s \in Cached THEN [queue EXCEPT ![s] = Append(left, v)] ELSE queue
  BY Zenon DEF StartCallback, PushCached
<1> HIDE DEF left
<1>6. queue' \in [Sub -> Seq(Values)]
  BY <1>1, <1>4, <1>5
<1>7. ASSUME NEW q \in Sub PROVE Newest(q)'
  <2>1. CASE q = s /\ s \in Cached
    <3>1. queue'[q] = Append(left, v)
      BY <1>1, <1>5, <2>1, Zenon
    <3> QED
      BY <1>3, <1>4, <2>1, <3>1 DEF Newest
  <2>2. CASE q # s
    <3>1. queue'[q] = queue[q] /\ heard'[q] = heard[q]
      BY <1>1, <1>3, <1>5, <2>2, Zenon
    <3> QED
      BY <1>1, <3>1, Zenon DEF Newest
  <2> QED
    BY <2>1, <2>2, Zenon DEF Newest
<1> QED
  BY <1>2, <1>3, <1>6, <1>7, Zenon

LEMMA CallbackEnds ==
  ASSUME running \in [Sub -> SUBSET (Sub \cup {"reader"})], NEW s \in Sub, NEW t,
         FinishCallback(t, s)
  PROVE  /\ running' \in [Sub -> SUBSET (Sub \cup {"reader"})]
         /\ running'[s] = running[s] \ {t}
         /\ \A q \in Sub \ {s} : running'[q] = running[q]
BY Zenon DEF FinishCallback

LEMMA OpeningTheGate ==
  ASSUME SubscriptionInv, NEW s \in Sub,
         CallSnapshot(s) \/ OpenGate(s) \/ Replay(s)
  PROVE  SubscriptionInv'
<1> USE SubscriptionAssumption
<1>w. WireType /\ ClientInv /\ released \in [Sub -> Nat]
  BY InvParts, Zenon
<1>c. ClientType
  BY InvParts, Zenon
<1>p. /\ pc \in [Sub -> Before \cup After]
      /\ running \in [Sub -> SUBSET (Sub \cup {"reader"})]
  BY InvParts, Zenon
<1>g. \A q \in Sub : Gate(q)
  BY InvParts, Zenon
<1>o. \A q \in Sub : Owned(q)
  BY InvParts, Zenon
<1>n. \A q \in Sub : Newest(q)
  BY InvParts, Zenon
<1>0. WireType'
  BY <1>w, Zenon DEF WireType, CallSnapshot, OpenGate, Replay, server, wire
<1>1. CASE CallSnapshot(s) /\ s \in running[s]
  <2>1. /\ FinishCallback(s, s) /\ Goto(s, "open")
        /\ UNCHANGED <<heard, queue, listeners, gate, batch, pending, got, cancels, rd,
                       released>>
        /\ pc[s] = "snapshot"
    BY <1>1, Zenon DEF CallSnapshot
  <2>2. "open" \in Before \cup After
    BY Zenon DEF Before
  <2>3. /\ running' \in [Sub -> SUBSET (Sub \cup {"reader"})]
        /\ running'[s] = running[s] \ {s}
        /\ \A q \in Sub \ {s} : running'[q] = running[q]
    BY <1>p, <2>1, CallbackEnds, Zenon
  <2>4. /\ pc' \in [Sub -> Before \cup After]
        /\ pc'[s] = "open"
        /\ \A q \in Sub \ {s} : pc'[q] = pc[q]
    BY <1>p, <2>1, <2>2, GoesTo, Zenon
  <2>5. ClientType'
    BY <1>c, <2>1, <2>3, <2>4, Zenon DEF ClientType
  <2>6. Gate(s)'
    BY <1>g, <2>1, <2>3, <2>4, Zenon DEF Gate, Unheard, After
  <2>7. Owned(s)' /\ Newest(s)'
    BY <1>o, <1>n, <2>1, <2>4, Zenon DEF Owned, Newest
  <2>8. ASSUME NEW q \in Sub \ {s} PROVE Gate(q)' /\ Owned(q)' /\ Newest(q)'
    BY <1>g, <1>o, <1>n, <2>1, <2>3, <2>4,
       SameGate, SameOwned, SameNewest, Zenon
  <2> QED
    BY <1>w, <1>0, <2>1, <2>5, <2>6, <2>7, <2>8, InvFolds, Zenon
<1>2. CASE CallSnapshot(s) /\ s \notin running[s]
  <2>1. /\ StartCallback(s, s, got[s]) /\ pc[s] = "snapshot"
        /\ UNCHANGED <<pc, listeners, gate, batch, pending, got, cancels, rd, released>>
    BY <1>2, Zenon DEF CallSnapshot
  <2>2. got[s] \in Values
    BY <1>c, <1>g, <2>1 DEF Gate, ClientType
  <2>3. /\ running' \in [Sub -> SUBSET (Sub \cup {"reader"})]
        /\ running'[s] = running[s] \cup {s}
        /\ \A q \in Sub \ {s} : running'[q] = running[q] /\ heard'[q] = heard[q]
        /\ heard' \in [Sub -> Values \cup {NoValue}]
        /\ queue' \in [Sub -> Seq(Values)]
        /\ \A q \in Sub : Newest(q)'
    BY <1>w, <2>1, <2>2, CallbackStarts, Zenon
  <2>4. ClientType'
    BY <1>c, <2>1, <2>3, Zenon DEF ClientType
  <2>5. Gate(s)'
    BY <1>g, <2>1, <2>3, Zenon DEF Gate, Unheard
  <2>6. ASSUME NEW q \in Sub \ {s} PROVE Gate(q)'
    BY <1>g, <2>1, <2>3, SameGate, Zenon
  <2>7. ASSUME NEW q \in Sub PROVE Owned(q)'
    BY <1>o, <2>1, Zenon DEF Owned
  <2> QED
    BY <1>w, <1>0, <2>1, <2>3, <2>4, <2>5, <2>6, <2>7, InvFolds, Zenon
<1>3. CASE OpenGate(s)
  <2>0. pc[s] = "open"
    BY <1>3, Zenon DEF OpenGate
  <2>1. pc[s] = "open" /\ gate[s] # Open /\ gate[s] \in Seq(Values)
    <3>1. gate[s] # Open
      BY <1>g, <2>0, Zenon DEF Gate, After
    <3> QED
      BY <1>c, <2>0, <3>1, Zenon DEF ClientType
  <2>2. released' = released
    <3>1. ASSUME NEW q \in Sub PROVE released'[q] = released[q]
      <4>1. Owners(q, listeners', pc'[q], rd') # {} \/ Owners(q, listeners, pc[q], rd) = {}
        BY <1>c, <1>o, <1>3, <2>1 DEF OpenGate, Goto, Owners, Owned, ClientType
      <4> QED
        BY <1>3, <4>1, Zenon DEF OpenGate, ReleaseUnowned
    <3>2. released' = [q \in Sub |-> released'[q]]
      BY <1>3, Zenon DEF OpenGate, ReleaseUnowned
    <3> QED
      BY <1>w, <3>1, <3>2, Zenon
  <2>a. UNCHANGED <<listeners, pending, got, cancels, rd, running, heard, queue>>
    BY <1>3, Zenon DEF OpenGate
  <2>3. CASE gate[s] = <<>>
    <3>1. gate' = [gate EXCEPT ![s] = Open] /\ batch' = batch /\ Goto(s, "register")
      BY <1>3, <2>3, Zenon DEF OpenGate
    <3>2. "register" \in Before \cup After
      BY Zenon DEF After
    <3>3. /\ pc' \in [Sub -> Before \cup After]
          /\ pc'[s] = "register"
          /\ \A q \in Sub \ {s} : pc'[q] = pc[q]
      BY <1>p, <3>1, <3>2, GoesTo, Zenon
    <3>4. /\ gate' \in [Sub -> Seq(Values) \cup {Open}]
          /\ gate'[s] = Open
          /\ \A q \in Sub \ {s} : gate'[q] = gate[q]
      BY <1>c, <3>1, Zenon DEF ClientType
    <3>5. ClientType'
      BY <1>c, <2>a, <3>1, <3>3, <3>4, Zenon DEF ClientType
    <3>6. Gate(s)'
      BY <1>g, <2>1, <2>a, <3>1, <3>3, <3>4, Zenon DEF Gate, Unheard, After
    <3>7. ASSUME NEW q \in Sub \ {s} PROVE Gate(q)'
      BY <1>g, <2>a, <3>1, <3>3, <3>4, SameGate, Zenon
    <3>8. ASSUME NEW q \in Sub PROVE Owned(q)' /\ Newest(q)'
      BY <1>o, <1>n, <2>1, <2>2, <2>a, <3>3, Zenon DEF Owned, Newest
    <3> QED
      BY <1>w, <1>0, <2>2, <3>5, <3>6, <3>7, <3>8, InvFolds, Zenon
  <2>4. CASE gate[s] # <<>>
    <3>1. /\ batch' = [batch EXCEPT ![s] = gate[s]]
          /\ gate' = [gate EXCEPT ![s] = <<>>]
          /\ Goto(s, "replay")
      BY <1>3, <2>1, <2>4, Zenon DEF OpenGate
    <3>2. "replay" \in Before \cup After /\ <<>> \in Seq(Values) /\ <<>> # Open
      BY DEF Before, Open
    <3>3. /\ pc' \in [Sub -> Before \cup After]
          /\ pc'[s] = "replay"
          /\ \A q \in Sub \ {s} : pc'[q] = pc[q]
      BY <1>p, <3>1, <3>2, GoesTo, Zenon
    <3>4. /\ gate' \in [Sub -> Seq(Values) \cup {Open}]
          /\ gate'[s] = <<>>
          /\ \A q \in Sub \ {s} : gate'[q] = gate[q]
      BY <1>c, <3>1, <3>2, Zenon DEF ClientType
    <3>5. /\ batch' \in [Sub -> Seq(Values)]
          /\ batch'[s] = gate[s]
          /\ \A q \in Sub \ {s} : batch'[q] = batch[q]
      BY <1>c, <2>1, <3>1, Zenon DEF ClientType
    <3>6. ClientType'
      BY <1>c, <2>a, <3>3, <3>4, <3>5, Zenon DEF ClientType
    <3>7. Gate(s)'
      BY <1>g, <2>1, <2>4, <2>a, <3>2, <3>3, <3>4, <3>5, Zenon DEF Gate, Unheard, After
    <3>8. ASSUME NEW q \in Sub \ {s} PROVE Gate(q)'
      BY <1>g, <2>a, <3>3, <3>4, <3>5, SameGate, Zenon
    <3>9. ASSUME NEW q \in Sub PROVE Owned(q)' /\ Newest(q)'
      BY <1>o, <1>n, <2>1, <2>2, <2>a, <3>3, Zenon DEF Owned, Newest
    <3> QED
      BY <1>w, <1>0, <2>2, <3>6, <3>7, <3>8, <3>9, InvFolds, Zenon
  <2> QED
    BY <2>3, <2>4, Zenon
<1>4. CASE Replay(s) /\ s \in running[s]
  <2>1. /\ FinishCallback(s, s) /\ Goto(s, (IF batch[s] = <<>> THEN "open" ELSE "replay"))
        /\ UNCHANGED <<heard, queue, listeners, gate, batch, pending, got, cancels, rd,
                       released>>
        /\ pc[s] = "replay"
    BY <1>4, Zenon DEF Replay
  <2>2. (IF batch[s] = <<>> THEN "open" ELSE "replay") \in Before \cup After
    BY Zenon DEF Before
  <2>3. /\ running' \in [Sub -> SUBSET (Sub \cup {"reader"})]
        /\ running'[s] = running[s] \ {s}
        /\ \A q \in Sub \ {s} : running'[q] = running[q]
    BY <1>p, <2>1, CallbackEnds, Zenon
  <2>4. /\ pc' \in [Sub -> Before \cup After]
        /\ pc'[s] = (IF batch[s] = <<>> THEN "open" ELSE "replay")
        /\ \A q \in Sub \ {s} : pc'[q] = pc[q]
    BY <1>p, <2>1, <2>2, GoesTo, Zenon
  <2>5. ClientType'
    BY <1>c, <2>1, <2>3, <2>4, Zenon DEF ClientType
  <2>6. Gate(s)'
    BY <1>g, <2>1, <2>3, <2>4, Zenon DEF Gate, Unheard, After
  <2>7. Owned(s)' /\ Newest(s)'
    BY <1>o, <1>n, <2>1, <2>4, Zenon DEF Owned, Newest
  <2>8. ASSUME NEW q \in Sub \ {s} PROVE Gate(q)' /\ Owned(q)' /\ Newest(q)'
    BY <1>g, <1>o, <1>n, <2>1, <2>3, <2>4,
       SameGate, SameOwned, SameNewest, Zenon
  <2> QED
    BY <1>w, <1>0, <2>1, <2>5, <2>6, <2>7, <2>8, InvFolds, Zenon
<1>5. CASE Replay(s) /\ s \notin running[s]
  <2>1. /\ StartCallback(s, s, Head(batch[s])) /\ pc[s] = "replay"
        /\ batch' = [batch EXCEPT ![s] = Tail(batch[s])]
        /\ UNCHANGED <<pc, listeners, gate, pending, got, cancels, rd, released>>
    BY <1>5, Zenon DEF Replay
  <2>2. batch \in [Sub -> Seq(Values)] /\ batch[s] # <<>>
    BY <1>c, <1>g, <1>5, <2>1, Zenon DEF Gate, ClientType
  <2>3. Head(batch[s]) \in Values /\ Tail(batch[s]) \in Seq(Values)
    BY <2>2, FirstAndRest, Zenon
  <2>4. /\ batch' \in [Sub -> Seq(Values)]
        /\ \A q \in Sub \ {s} : batch'[q] = batch[q]
    BY <2>1, <2>2, <2>3, Zenon
  <2>5. /\ running' \in [Sub -> SUBSET (Sub \cup {"reader"})]
        /\ running'[s] = running[s] \cup {s}
        /\ \A q \in Sub \ {s} : running'[q] = running[q] /\ heard'[q] = heard[q]
        /\ heard' \in [Sub -> Values \cup {NoValue}]
        /\ queue' \in [Sub -> Seq(Values)]
        /\ \A q \in Sub : Newest(q)'
    BY <1>w, <2>1, <2>3, CallbackStarts, Zenon
  <2>6. ClientType'
    BY <1>c, <2>1, <2>4, <2>5, Zenon DEF ClientType
  <2>7. Gate(s)'
    BY <1>g, <2>1, <2>5, Zenon DEF Gate, Unheard
  <2>8. ASSUME NEW q \in Sub \ {s} PROVE Gate(q)'
    BY <1>g, <2>1, <2>4, <2>5, SameGate, Zenon
  <2>9. ASSUME NEW q \in Sub PROVE Owned(q)'
    BY <1>o, <2>1, Zenon DEF Owned
  <2> QED
    BY <1>w, <1>0, <2>1, <2>5, <2>6, <2>7, <2>8, <2>9, InvFolds, Zenon
<1> QED
  BY <1>1, <1>2, <1>3, <1>4, <1>5, Zenon

LEMMA EndOfSubscription ==
  ASSUME SubscriptionInv, NEW s \in Sub,
         \/ Register(s) \/ Cancel(s) \/ Unsubscribe(s) \/ RemoveListener(s)
         \/ ReadAll(s)
  PROVE  SubscriptionInv'
<1>w. WireType /\ ClientInv /\ released \in [Sub -> Nat]
  BY InvParts, Zenon
<1>c. ClientType
  BY InvParts, Zenon
<1>p. /\ pc \in [Sub -> Before \cup After]
      /\ running \in [Sub -> SUBSET (Sub \cup {"reader"})]
  BY InvParts, Zenon
<1>g. \A q \in Sub : Gate(q)
  BY InvParts, Zenon
<1>o. \A q \in Sub : Owned(q)
  BY InvParts, Zenon
<1>n. \A q \in Sub : Newest(q)
  BY InvParts, Zenon
<1>0. WireType'
  <2>1. CASE Unsubscribe(s)
    BY <1>w, <2>1 DEF Unsubscribe, WireType, Asked, server
  <2> QED
    BY <1>w, <2>1, Zenon DEF WireType, Register, Cancel, RemoveListener, ReadAll, server, wire
<1>1. CASE Register(s)
  <2>0. cancels # s /\ pc[s] = "register"
    BY <1>g, <1>1, Zenon DEF Register, Gate
  <2>1. UNCHANGED <<listeners, pending, gate, batch, got, rd, running, heard, released, queue>>
    BY <1>1, Zenon DEF Register
  <2>2. PICK where \in {"subscribed", "unsubscribe"} :
          /\ Goto(s, where)
          /\ cancels' = (IF where = "subscribed" THEN s ELSE cancels)
    BY <1>1, Zenon DEF Register
  <2>3. where \in Before \cup After
    BY Zenon DEF After
  <2>4. pc'[s] = where
    BY <1>p, <2>2, <2>3, GoesTo, Zenon
  <2>5. Gate(s)'
    BY <1>g, <2>0, <2>1, <2>2, <2>4, Zenon DEF Gate, Unheard, After
  <2>6. Owned(s)'
    BY <1>o, <2>0, <2>1, <2>4, Zenon DEF Owned
  <2>7. ClientInv'
    BY <1>w, <2>1, <2>2, <2>3, <2>5, <2>6, MovesOn, Zenon
  <2> QED
    BY <1>0, <2>7, Zenon DEF SubscriptionInv
<1>2. CASE Cancel(s)
  <2>1. /\ cancels = s /\ Goto(s, "unsubscribe")
        /\ cancels' = NoValue
        /\ UNCHANGED <<listeners, pending, gate, batch, got, rd, running, heard, released,
                       queue>>
    BY <1>2, Zenon DEF Cancel
  <2>a. pc[s] = "subscribed"
    BY <1>g, <2>1, Zenon DEF Gate
  <2>2. "unsubscribe" \in Before \cup After
    BY Zenon DEF After
  <2>3. pc'[s] = "unsubscribe"
    BY <1>p, <2>1, <2>2, GoesTo, Zenon
  <2>4. Gate(s)'
    BY <1>g, <2>1, <2>3, <2>a, SubscriptionAssumption, Zenon DEF Gate, Unheard, After
  <2>5. Owned(s)'
    BY <1>o, <2>1, <2>3, <2>a, Zenon DEF Owned
  <2>6. ClientInv'
    BY <1>w, <2>1, <2>2, <2>4, <2>5, MovesOn, Zenon
  <2> QED
    BY <1>0, <2>6, Zenon DEF SubscriptionInv
<1>3. CASE Unsubscribe(s)
  <2>1. /\ pc[s] = "unsubscribe" /\ Goto(s, "remove")
        /\ UNCHANGED <<listeners, pending, cancels, gate, batch, got, rd, running,
                       heard, released, queue>>
    BY <1>3, Zenon DEF Unsubscribe
  <2>2. "remove" \in Before \cup After
    BY Zenon DEF After
  <2>3. pc'[s] = "remove"
    BY <1>p, <2>1, <2>2, GoesTo, Zenon
  <2>4. Gate(s)'
    BY <1>g, <2>1, <2>3, Zenon DEF Gate, Unheard, After
  <2>5. Owned(s)'
    BY <1>o, <2>1, <2>3, Zenon DEF Owned
  <2>6. ClientInv'
    BY <1>w, <2>1, <2>2, <2>4, <2>5, MovesOn, Zenon
  <2> QED
    BY <1>0, <2>6, Zenon DEF SubscriptionInv
<1>4. CASE RemoveListener(s)
  <2>1. /\ pc[s] = "remove" /\ listeners' = listeners \ {s} /\ Goto(s, "ended")
        /\ UNCHANGED <<gate, batch, pending, got, cancels, rd, running, heard, queue>>
        /\ ReleaseUnowned
    BY <1>4, Zenon DEF RemoveListener
  <2>2. "ended" \in Before \cup After
    BY Zenon DEF After
  <2>3. /\ pc' \in [Sub -> Before \cup After]
        /\ pc'[s] = "ended"
        /\ \A q \in Sub \ {s} : pc'[q] = pc[q]
    BY <1>p, <2>1, <2>2, GoesTo, Zenon
  <2>4. ClientType'
    BY <1>c, <2>1, <2>3, Zenon DEF ClientType
  <2>5. ASSUME NEW q \in Sub PROVE Gate(q)'
    BY <1>g, <2>1, <2>3 DEF Gate, Unheard, After
  <2>6. released' \in [Sub -> Nat]
    BY <1>w, <2>1 DEF ReleaseUnowned
  <2>7. Owned(s)'
    <3>1. released'[s] = IF /\ Owners(s, listeners, pc[s], rd) # {}
                            /\ Owners(s, listeners', pc'[s], rd') = {}
                         THEN released[s] + 1 ELSE released[s]
      BY <2>1, Zenon DEF ReleaseUnowned
    <3>2. Owners(s, listeners, pc[s], rd) # {} /\ released[s] = 0
      BY <1>o, <2>1, Zenon DEF Owners, Owned
    <3>3. Owners(s, listeners', pc'[s], rd') = {} <=> s \notin rd.todo /\ rd.call # s
      BY <2>1, <2>3, Zenon DEF Owners
    <3> QED
      BY <1>o, <2>1, <2>3, <3>1, <3>2, <3>3 DEF Owned
  <2>8. ASSUME NEW q \in Sub \ {s} PROVE Owned(q)'
    <3>1. released'[q] = released[q]
      <4>1. Owners(q, listeners', pc'[q], rd') = Owners(q, listeners, pc[q], rd)
        BY <2>1, <2>3, Zenon DEF Owners
      <4> QED
        BY <2>1, <4>1, Zenon DEF ReleaseUnowned
    <3> QED
      BY <1>o, <2>1, <2>3, <3>1, Zenon DEF Owned
  <2>9. ASSUME NEW q \in Sub PROVE Newest(q)'
    BY <1>n, <2>1, Zenon DEF Newest
  <2> QED
    BY <1>w, <1>0, <2>4, <2>5, <2>6, <2>7, <2>8, <2>9, InvFolds, Zenon
<1>5. CASE ReadAll(s)
  <2>1. /\ queue' = [queue EXCEPT ![s] = <<>>]
        /\ UNCHANGED <<pc, listeners, gate, batch, pending, got, cancels, rd, running,
                       heard, released>>
    BY <1>5, Zenon DEF ReadAll
  <2>2. /\ queue' \in [Sub -> Seq(Values)]
        /\ queue'[s] = <<>>
        /\ \A q \in Sub \ {s} : queue'[q] = queue[q]
    BY <1>c, <2>1 DEF ClientType
  <2>3. ClientType'
    BY <1>c, <2>1, <2>2, Zenon DEF ClientType
  <2>4. ASSUME NEW q \in Sub PROVE Gate(q)' /\ Owned(q)'
    BY <1>g, <1>o, <2>1, SameGate, SameOwned, Zenon
  <2>5. ASSUME NEW q \in Sub PROVE Newest(q)'
    BY <1>n, <2>1, <2>2, Zenon DEF Newest
  <2> QED
    BY <1>w, <1>0, <2>1, <2>3, <2>4, <2>5, InvFolds, Zenon
<1> QED
  BY <1>1, <1>2, <1>3, <1>4, <1>5, Zenon

LEMMA ReaderReads ==
  ASSUME SubscriptionInv, ReadAnnounce \/ ReadReply \/ ReadValue
  PROVE  SubscriptionInv'
<1>w. WireType /\ ClientInv /\ released \in [Sub -> Nat]
  BY InvParts, Zenon
<1>c. ClientType
  BY InvParts, Zenon
<1>p. /\ pc \in [Sub -> Before \cup After]
      /\ running \in [Sub -> SUBSET (Sub \cup {"reader"})]
  BY InvParts, Zenon
<1>g. \A q \in Sub : Gate(q)
  BY InvParts, Zenon
<1>o. \A q \in Sub : Owned(q)
  BY InvParts, Zenon
<1>n. \A q \in Sub : Newest(q)
  BY InvParts, Zenon
<1>0. WireType' /\ Head(inbox) \in Frame /\ rd = Idle
  <2>1. /\ inbox # <<>> /\ inbox' = Tail(inbox) /\ rd = Idle
        /\ UNCHANGED <<value, hand, upstream>>
    BY Zenon DEF ReadAnnounce, ReadReply, ReadValue, server
  <2>2. inbox \in Seq(Frame)
    BY <1>w, Zenon DEF WireType
  <2>3. Head(inbox) \in Frame /\ Tail(inbox) \in Seq(Frame)
    BY <2>1, <2>2
  <2> QED
    BY <1>w, <2>1, <2>3, Zenon DEF WireType
<1>1. CASE ReadAnnounce
  <2>1. UNCHANGED <<listeners, gate, batch, pending, got, pc, cancels, rd, running,
                    heard, released, queue>>
    BY <1>1, Zenon DEF ReadAnnounce
  <2>2. ClientType'
    BY <1>c, <2>1, Zenon DEF ClientType
  <2>3. \A q \in Sub : Gate(q)' /\ Owned(q)' /\ Newest(q)'
    BY <1>g, <1>o, <1>n, <2>1,
       SameGate, SameOwned, SameNewest, Zenon
  <2> QED
    BY <1>w, <1>0, <2>1, <2>2, <2>3, InvFolds, Zenon
<1>2. CASE ReadReply
  <2>1. Head(inbox)[2] \in Sub /\ Head(inbox)[3] \in Values \cup {NoValue}
    BY <1>0, <1>2, FrameFields, Zenon DEF ReadReply
  <2> DEFINE s == Head(inbox)[2]
             v == Head(inbox)[3]
  <2>2. /\ \/ pending = s /\ pending' = NoValue /\ got' = [got EXCEPT ![s] = v]
           \/ UNCHANGED <<pending, got>>
        /\ UNCHANGED <<listeners, gate, batch, pc, cancels, rd, running, heard,
                       released, queue>>
    BY <1>2, Zenon DEF ReadReply
  <2> HIDE DEF s, v
  <2>3. s \in Sub /\ v \in Values \cup {NoValue}
    BY <2>1, Zenon DEF s, v
  <2>4. /\ got' \in [Sub -> Values \cup {NoValue}]
        /\ \A q \in Sub : got'[q] = got[q] \/ pending = q
    <3>1. got \in [Sub -> Values \cup {NoValue}]
      BY <1>c, Zenon DEF ClientType
    <3> QED
      BY <2>2, <2>3, <3>1, Zenon
  <2>5. ClientType'
    BY <1>c, <2>2, <2>4, Zenon DEF ClientType
  <2>6. ASSUME NEW q \in Sub PROVE Gate(q)'
    BY <1>g, <2>2, <2>4, SubscriptionAssumption DEF Gate, Unheard
  <2>7. ASSUME NEW q \in Sub PROVE Owned(q)' /\ Newest(q)'
    BY <1>o, <1>n, <2>2, Zenon DEF Owned, Newest
  <2> QED
    BY <1>w, <1>0, <2>2, <2>5, <2>6, <2>7, InvFolds, Zenon
<1>3. CASE ReadValue
  <2>1. Head(inbox)[2] \in Values
    BY <1>0, <1>3, FrameFields, Zenon DEF ReadValue
  <2>2. /\ rd'.call = NoValue /\ rd'.todo \in {{}, listeners}
        /\ rd'.todo # {} => rd'.value \in Values
        /\ rd' \in ReaderType
    <3>1. listeners \subseteq Sub
      BY <1>c, Zenon DEF ClientType
    <3> QED
      BY <1>3, <2>1, <3>1, Zenon DEF ReadValue, Idle, ReaderType
  <2>3. UNCHANGED <<listeners, gate, batch, pending, got, pc, cancels, running,
                    heard, released, queue>>
    BY <1>3, Zenon DEF ReadValue
  <2>4. rd.todo = {} /\ rd.call = NoValue
    BY <1>0, Zenon DEF Idle
  <2>5. ClientType'
    BY <1>c, <2>2, <2>3, Zenon DEF ClientType
  <2>6. ASSUME NEW q \in Sub PROVE Gate(q)'
    BY <1>g, <2>2, <2>3, <2>4, SubscriptionAssumption DEF Gate, Unheard
  <2>7. ASSUME NEW q \in Sub PROVE Owned(q)' /\ Newest(q)'
    BY <1>o, <1>n, <2>2, <2>3, <2>4, SubscriptionAssumption DEF Owned, Newest
  <2> QED
    BY <1>w, <1>0, <2>3, <2>5, <2>6, <2>7, InvFolds, Zenon
<1> QED
  BY <1>1, <1>2, <1>3, Zenon

\* The reader with a listener behind it.
LEMMA PastFields ==
  ASSUME ClientType, NEW s
  PROVE  /\ Past(rd, s) \in ReaderType
         /\ Past(rd, s).call = NoValue
         /\ Past(rd, s).todo = rd.todo \ {s}
         /\ Past(rd, s).todo # {} => Past(rd, s).value = rd.value
BY Zenon DEF ClientType, ReaderType, Past, Idle

\* The context of a listener is dropped when the reader was its last owner.
LEMMA ReleasedCount ==
  ASSUME ClientInv, ReleaseUnowned, NEW q \in Sub, pc' = pc, listeners' = listeners,
         q \in rd'.todo \/ rd'.call = q => q \in rd.todo \/ rd.call = q
  PROVE  /\ released' \in [Sub -> Nat]
         /\ released'[q] = IF pc[q] = "ended" /\ q \notin rd'.todo /\ rd'.call # q
                           THEN 1 ELSE 0
<1>0. released \in [Sub -> Nat] /\ Owned(q)
  BY Zenon DEF ClientInv
<1>1. released' \in [Sub -> Nat]
  BY <1>0 DEF ReleaseUnowned
<1>2. released'[q] = IF /\ Owners(q, listeners, pc[q], rd) # {}
                        /\ Owners(q, listeners, pc[q], rd') = {}
                     THEN released[q] + 1 ELSE released[q]
  BY Zenon DEF ReleaseUnowned
<1>3. pc[q] = "ended" => /\ Owners(q, listeners, pc[q], rd) # {}
                              <=> (q \in rd.todo \/ rd.call = q)
                         /\ Owners(q, listeners, pc[q], rd') # {}
                              <=> (q \in rd'.todo \/ rd'.call = q)
  BY <1>0, Zenon DEF Owners, Owned
<1>4. pc[q] \notin {"ended", "idle", "insert"} => Owners(q, listeners, pc[q], rd') # {}
  BY <1>0, Zenon DEF Owners, Owned
<1>5. pc[q] \in {"idle", "insert"} =>
        (Owners(q, listeners, pc[q], rd) # {} => Owners(q, listeners, pc[q], rd') # {})
  BY <1>0, Zenon DEF Owners, Owned
<1> QED
  BY <1>1, <1>2, <1>3, <1>4, <1>5, <1>0 DEF Owned

LEMMA ReaderDelivers ==
  ASSUME SubscriptionInv, NEW s \in Sub, Deliver(s) \/ ReaderCalls(s)
  PROVE  SubscriptionInv'
<1>w. WireType /\ ClientInv /\ released \in [Sub -> Nat]
  BY InvParts, Zenon
<1>c. ClientType
  BY InvParts, Zenon
<1>p. /\ pc \in [Sub -> Before \cup After]
      /\ running \in [Sub -> SUBSET (Sub \cup {"reader"})]
  BY InvParts, Zenon
<1>g. \A q \in Sub : Gate(q)
  BY InvParts, Zenon
<1>o. \A q \in Sub : Owned(q)
  BY InvParts, Zenon
<1>n. \A q \in Sub : Newest(q)
  BY InvParts, Zenon
<1>0. WireType'
  BY <1>w, Zenon DEF WireType, Deliver, ReaderCalls, server, wire
<1>1. CASE Deliver(s) /\ gate[s] = Open
  <2>1. /\ rd' = [rd EXCEPT !.todo = @ \ {s}, !.call = s]
        /\ s \in rd.todo /\ rd.call = NoValue /\ gate' = gate
        /\ pc' = pc /\ listeners' = listeners /\ ReleaseUnowned
    BY <1>1, Zenon DEF Deliver
  <2>a. UNCHANGED <<batch, pending, got, cancels, running, heard, queue>>
    BY <1>1, Zenon DEF Deliver
  <2>2. rd'.todo = rd.todo \ {s} /\ rd'.call = s /\ rd'.value = rd.value
    BY <1>c, <2>1 DEF ClientType
  <2>3. \A q \in Sub :
          /\ released' \in [Sub -> Nat]
          /\ released'[q] = IF pc[q] = "ended" /\ q \notin rd'.todo /\ rd'.call # q
                            THEN 1 ELSE 0
    BY <1>w, <2>1, <2>2, ReleasedCount, SubscriptionAssumption, Zenon
  <2>4. ClientType'
    <3>1. rd' \in ReaderType
      BY <1>c, <2>1, Zenon DEF ClientType, ReaderType
    <3>2. rd'.value \in Values
      BY <1>c, <2>1, <2>2, Zenon DEF ClientType
    <3> QED
      BY <1>c, <2>1, <2>a, <3>1, <3>2, Zenon DEF ClientType
  <2>5. ASSUME NEW q \in Sub PROVE Gate(q)' /\ Owned(q)' /\ Newest(q)'
    <3>1. rd'.call = q => gate[q] = Open
      BY <1>1, <2>2, Zenon
    <3>2. Gate(q)'
      BY <1>g, <2>1, <2>2, <2>a, <3>1, SubscriptionAssumption, Zenon DEF Gate, Unheard
    <3>3. Owned(q)'
      BY <1>o, <2>1, <2>2, <2>3, SubscriptionAssumption, Zenon DEF Owned
    <3>4. Newest(q)'
      BY <1>n, <2>a, Zenon DEF Newest
    <3> QED
      BY <3>2, <3>3, <3>4, Zenon
  <2>6. (released \in [Sub -> Nat])'
    BY <2>3, Zenon
  <2> QED
    BY <1>w, <1>0, <2>4, <2>5, <2>6, InvFolds, Zenon
<1>2. CASE Deliver(s) /\ gate[s] # Open
  <2>1. /\ rd' = Past(rd, s)
        /\ s \in rd.todo /\ rd.call = NoValue
        /\ gate' = [gate EXCEPT ![s] = Append(@, rd.value)]
        /\ pc' = pc /\ listeners' = listeners /\ ReleaseUnowned
    BY <1>2, Zenon DEF Deliver
  <2>a. UNCHANGED <<batch, pending, got, cancels, running, heard, queue>>
    BY <1>2, Zenon DEF Deliver
  <2>2. /\ rd' \in ReaderType
        /\ rd'.todo = rd.todo \ {s} /\ rd'.call = NoValue
        /\ rd'.todo # {} => rd'.value = rd.value
    BY <1>c, <2>1, PastFields, Zenon
  <2>3. \A q \in Sub :
          /\ released' \in [Sub -> Nat]
          /\ released'[q] = IF pc[q] = "ended" /\ q \notin rd'.todo /\ rd'.call # q
                            THEN 1 ELSE 0
    BY <1>w, <2>1, <2>2, ReleasedCount, SubscriptionAssumption, Zenon
  <2>4. /\ gate' \in [Sub -> Seq(Values) \cup {Open}]
        /\ gate'[s] # Open
        /\ \A q \in Sub \ {s} : gate'[q] = gate[q]
    <3>1. gate[s] \in Seq(Values) /\ rd.value \in Values
      BY <1>c, <1>2, <2>1, Zenon DEF ClientType
    <3>2. Append(gate[s], rd.value) \in Seq(Values)
      BY <3>1
    <3>3. Open \notin Seq(Values)
      BY SubscriptionAssumption DEF Open, Values
    <3>4. gate \in [Sub -> Seq(Values) \cup {Open}]
      BY <1>c, Zenon DEF ClientType
    <3>5. gate'[s] = Append(gate[s], rd.value)
      BY <2>1, <3>4, Zenon
    <3> QED
      BY <2>1, <3>2, <3>3, <3>4, <3>5, Zenon
  <2>5. ClientType'
    BY <1>c, <2>1, <2>2, <2>4, <2>a, Zenon DEF ClientType
  <2>6. ASSUME NEW q \in Sub PROVE Gate(q)' /\ Owned(q)' /\ Newest(q)'
    <3>1. gate'[q] = Open <=> gate[q] = Open
      BY <1>2, <2>4, Zenon
    <3>2. Gate(q)'
      BY <1>g, <2>1, <2>2, <2>a, <3>1, SubscriptionAssumption DEF Gate, Unheard
    <3>3. Owned(q)'
      BY <1>o, <2>1, <2>2, <2>3, SubscriptionAssumption, Zenon DEF Owned
    <3>4. Newest(q)'
      BY <1>n, <2>a, Zenon DEF Newest
    <3> QED
      BY <3>2, <3>3, <3>4, Zenon
  <2>7. (released \in [Sub -> Nat])'
    BY <2>3, Zenon
  <2> QED
    BY <1>w, <1>0, <2>5, <2>6, <2>7, InvFolds, Zenon
<1>3. CASE ReaderCalls(s) /\ "reader" \in running[s]
  <2>1. /\ rd' = Past(rd, s) /\ rd.call = s
        /\ pc' = pc /\ listeners' = listeners /\ ReleaseUnowned
    BY <1>3, Zenon DEF ReaderCalls
  <2>a. UNCHANGED <<gate, batch, pending, got, cancels, heard, queue>>
    BY <1>3, Zenon DEF ReaderCalls
  <2>b. /\ running' \in [Sub -> SUBSET (Sub \cup {"reader"})]
        /\ running'[s] = running[s] \ {"reader"}
        /\ \A q \in Sub \ {s} : running'[q] = running[q]
    BY <1>p, <1>3, CallbackEnds, Zenon DEF ReaderCalls
  <2>2. /\ rd' \in ReaderType
        /\ rd'.todo = rd.todo \ {s} /\ rd'.call = NoValue
        /\ rd'.todo # {} => rd'.value = rd.value
    BY <1>c, <2>1, PastFields, Zenon
  <2>3. \A q \in Sub :
          /\ released' \in [Sub -> Nat]
          /\ released'[q] = IF pc[q] = "ended" /\ q \notin rd'.todo /\ rd'.call # q
                            THEN 1 ELSE 0
    BY <1>w, <2>1, <2>2, ReleasedCount, SubscriptionAssumption, Zenon
  <2>4. ClientType'
    BY <1>c, <2>1, <2>2, <2>a, <2>b, Zenon DEF ClientType
  <2>5. ASSUME NEW q \in Sub PROVE Gate(q)' /\ Owned(q)' /\ Newest(q)'
    <3>0. s \in running'[s] <=> s \in running[s]
      BY <2>b, SubscriptionAssumption, Zenon
    <3>1. Gate(q)'
      BY <1>g, <2>1, <2>2, <2>a, <2>b, <3>0, SubscriptionAssumption DEF Gate, Unheard
    <3>2. Owned(q)'
      BY <1>o, <2>1, <2>2, <2>3, SubscriptionAssumption, Zenon DEF Owned
    <3>3. Newest(q)'
      BY <1>n, <2>a, Zenon DEF Newest
    <3> QED
      BY <3>1, <3>2, <3>3, Zenon
  <2>6. (released \in [Sub -> Nat])'
    BY <2>3, Zenon
  <2> QED
    BY <1>w, <1>0, <2>4, <2>5, <2>6, InvFolds, Zenon
<1>4. CASE ReaderCalls(s) /\ "reader" \notin running[s]
  <2>1. /\ rd' = rd /\ rd.call = s
        /\ pc' = pc /\ listeners' = listeners /\ ReleaseUnowned
    BY <1>4, Zenon DEF ReaderCalls
  <2>2. rd.value \in Values /\ StartCallback("reader", s, rd.value)
    <3>1. rd.value \in Values
      BY <1>c, <2>1, SubscriptionAssumption, Zenon DEF ClientType
    <3> QED
      BY <1>4, <3>1, Zenon DEF ReaderCalls
  <2>3. \A q \in Sub :
          /\ released' \in [Sub -> Nat]
          /\ released'[q] = IF pc[q] = "ended" /\ q \notin rd'.todo /\ rd'.call # q
                            THEN 1 ELSE 0
    BY <1>w, <2>1, ReleasedCount, SubscriptionAssumption, Zenon
  <2>a. UNCHANGED <<gate, batch, pending, got, cancels>>
    BY <1>4, Zenon DEF ReaderCalls
  <2>b. /\ running' \in [Sub -> SUBSET (Sub \cup {"reader"})]
        /\ running'[s] = running[s] \cup {"reader"}
        /\ \A q \in Sub \ {s} : running'[q] = running[q] /\ heard'[q] = heard[q]
        /\ heard' \in [Sub -> Values \cup {NoValue}]
        /\ queue' \in [Sub -> Seq(Values)]
        /\ \A q \in Sub : Newest(q)'
    BY <1>w, <2>2, CallbackStarts, Zenon
  <2>4. ClientType'
    BY <1>c, <2>1, <2>2, <2>a, <2>b, Zenon DEF ClientType
  <2>5. Gate(s)'
    <3>1. s \in running'[s] <=> s \in running[s]
      BY <2>b, SubscriptionAssumption, Zenon
    <3>2. pc[s] \in After
      BY <1>g, <2>1, Zenon DEF Gate
    <3> QED
      BY <1>g, <2>1, <2>a, <2>b, <3>1, <3>2, Zenon DEF Gate, Unheard, After
  <2>6. ASSUME NEW q \in Sub \ {s} PROVE Gate(q)'
    BY <1>g, <2>1, <2>a, <2>b, SameGate, Zenon
  <2>7. ASSUME NEW q \in Sub PROVE Owned(q)'
    BY <1>o, <2>1, <2>3, Zenon DEF Owned
  <2>8. (released \in [Sub -> Nat])'
    BY <2>3, Zenon
  <2> QED
    BY <1>w, <1>0, <2>4, <2>5, <2>6, <2>7, <2>8, <2>b, InvFolds, Zenon
<1> QED
  BY <1>1, <1>2, <1>3, <1>4, Zenon

\* What the other steps leave to the lemmas above.
ClientStep(s) ==
  \/ Subscribe(s) \/ InSubscribe(s) \/ GetTimesOut(s) \/ Cancel(s) \/ ReadAll(s)

LEMMA SubscriptionInvStep ==
  ASSUME SubscriptionInv, [Next]_vars
  PROVE  SubscriptionInv'
<1>1. ASSUME NEW p \in Publisher, ServerPublish(p) \/ ServerValue(p) \/ Dispatch(p)
      PROVE  SubscriptionInv'
  <2>1. UNCHANGED client /\ p \in Thread
    BY <1>1, Zenon DEF ServerPublish, ServerValue, Dispatch, Thread
  <2>2. WireType'
    BY <1>1, <2>1, WireTypeServer, InvParts, Zenon
  <2> QED
    BY <2>1, <2>2, ServerKeepsClient, Zenon DEF SubscriptionInv
<1>2. CASE ServerConn
  <2>1. UNCHANGED client /\ Conn \in Thread
    BY <1>2, Zenon DEF ServerConn, ServerSubscribe, ServerUnsubscribe, ServerGet, Dispatch,
                Thread
  <2>2. WireType'
    BY <1>2, <2>1, WireTypeServer, Zenon DEF SubscriptionInv, ServerConn
  <2> QED
    BY <2>1, <2>2, ServerKeepsClient, Zenon DEF SubscriptionInv
<1>3. ASSUME NEW s \in Sub, ClientStep(s) PROVE SubscriptionInv'
  BY <1>3, FrontOfSubscribe, OpeningTheGate, EndOfSubscription, Zenon
     DEF ClientStep, InSubscribe
<1>4. CASE CancelEarlier
  <2>0. /\ WireType /\ ClientType /\ released \in [Sub -> Nat]
        /\ \A q \in Sub : Gate(q) /\ Owned(q) /\ Newest(q)
    BY InvParts, Zenon
  <2>1. /\ cancels' = NoValue
        /\ UNCHANGED <<listeners, gate, batch, pending, got, pc, rd, running, heard,
                       released, queue>>
    BY <1>4, Zenon DEF CancelEarlier
  <2>2. WireType'
    BY <1>4, <2>0, Zenon DEF CancelEarlier, WireType, server, wire
  <2>3. ClientType'
    BY <2>0, <2>1, Zenon DEF ClientType
  <2>4. \A q \in Sub : Gate(q)' /\ Owned(q)' /\ Newest(q)'
    BY <2>0, <2>1, SubscriptionAssumption,
       SameGate, SameOwned, SameNewest, Zenon
  <2> QED
    BY <2>0, <2>1, <2>2, <2>3, <2>4, InvFolds, Zenon
<1>5. CASE Reader
  BY <1>5, ReaderReads, ReaderDelivers, Zenon DEF Reader
<1>6. CASE UNCHANGED vars
  <2>1. WireType'
    BY <1>6, Zenon DEF vars, server, wire, WireType, SubscriptionInv
  <2> QED
    BY <1>6, <2>1, ServerKeepsClient, Zenon DEF vars, SubscriptionInv
<1> QED
  BY <1>1, <1>2, <1>3, <1>4, <1>5, <1>6, Zenon DEF Next, ClientStep

LEMMA SubscriptionInvariant == Spec => []SubscriptionInv
<1>1. Init => SubscriptionInv
  BY InitSubscription, Zenon
<1>2. SubscriptionInv /\ [Next]_vars => SubscriptionInv'
  BY SubscriptionInvStep, Zenon
<1> QED
  BY <1>1, <1>2, PTL DEF Spec

-----------------------------------------------------------------------------
(* What holds throughout.                                                  *)

LEMMA ReleasedOnce == SubscriptionInv => ReleasedOnceUnused
<1> SUFFICES ASSUME SubscriptionInv, NEW s \in Sub
             PROVE  /\ released[s] <= 1
                    /\ released[s] = 1 => /\ running[s] = {}
                                          /\ s \notin listeners \cup rd.todo
                                          /\ rd.call # s
  BY Zenon DEF ReleasedOnceUnused
<1>1. Gate(s) /\ Owned(s)
  BY Zenon DEF SubscriptionInv, ClientInv
<1>2. released[s] = 1 => pc[s] = "ended" /\ s \notin rd.todo /\ rd.call # s
  BY <1>1 DEF Owned
<1>3. released[s] = 1 => running[s] = {}
  BY <1>1, <1>2, Zenon DEF Gate
<1> QED
  BY <1>1, <1>2, <1>3 DEF Owned

\* The context of a callback is released at most once, and then no thread is in
\* the callback, holds the listener or will find it in the slot map.
THEOREM ReleasedOnceUnusedHolds == Spec => []ReleasedOnceUnused
BY SubscriptionInvariant, ReleasedOnce, PTL

-----------------------------------------------------------------------------
(* The listener's promise.                                                 *)

\* Two facts about sequences.
LEMMA ConcatAppend ==
  ASSUME NEW b \in Seq(Values), NEW g \in Seq(Values), NEW v \in Values
  PROVE  b \o Append(g, v) = Append(b \o g, v)
<1>1. Append(g, v) \in Seq(Values) /\ b \o g \in Seq(Values)
  OBVIOUS
<1>2. b \o Append(g, v) \in Seq(Values) /\ Append(b \o g, v) \in Seq(Values)
  BY <1>1
<1>3. Len(b \o Append(g, v)) = Len(Append(b \o g, v))
  BY <1>1
<1>4. ASSUME NEW i \in 1 .. Len(b \o Append(g, v))
      PROVE  (b \o Append(g, v))[i] = Append(b \o g, v)[i]
  BY <1>1
<1> QED
  BY <1>2, <1>3, <1>4

LEMMA ConcatHead ==
  ASSUME NEW b \in Seq(Values), NEW g \in Seq(Values), b # <<>>
  PROVE  b \o g = <<Head(b)>> \o (Tail(b) \o g)
<1>1. Tail(b) \o g \in Seq(Values) /\ <<Head(b)>> \in Seq(Values) /\ Tail(b) \in Seq(Values)
  OBVIOUS
<1>2. b \o g \in Seq(Values) /\ <<Head(b)>> \o (Tail(b) \o g) \in Seq(Values)
  BY <1>1
<1>3. Len(b \o g) = Len(<<Head(b)>> \o (Tail(b) \o g))
  BY <1>1
<1>4. ASSUME NEW i \in 1 .. Len(b \o g)
      PROVE  (b \o g)[i] = (<<Head(b)>> \o (Tail(b) \o g))[i]
  BY <1>1
<1> QED
  BY <1>2, <1>3, <1>4
DueOf(s) ==
  batch[s] \o (IF gate[s] = Open THEN <<>> ELSE gate[s])
    \o (IF rd.call = s /\ "reader" \notin running[s] THEN <<rd.value>> ELSE <<>>)

LEMMA DueIsDueOf ==
  Due = [s \in Sub |-> DueOf(s)] /\ Due' = [s \in Sub |-> DueOf(s)']
BY Zenon DEF Due, DueOf

\* What a listener is due depends on its batch, its gate and the reader's call.
LEMMA SameDue ==
  ASSUME NEW s, batch'[s] = batch[s], gate'[s] = gate[s],
         /\ rd.call = s /\ "reader" \notin running[s]
         <=> rd'.call = s /\ "reader" \notin running'[s],
         rd.call = s => rd'.value = rd.value
  PROVE  DueOf(s)' = DueOf(s)
BY Zenon DEF DueOf

LEMMA InitPromise == Init => Abstract!PromiseInit
<1> SUFFICES ASSUME Init, NEW s \in Sub PROVE DueOf(s) = <<>>
  BY DueIsDueOf, Zenon DEF Init, Abstract!PromiseInit
<1>1. <<>> # Open /\ Idle.call # s
  BY SubscriptionAssumption, Zenon DEF Open, Idle
<1> QED
  BY <1>1 DEF DueOf, Init

\* A step that leaves every listener with what it heard and what it is due.
LEMMA PromiseStutters ==
  ASSUME heard' = heard, \A s \in Sub : DueOf(s)' = DueOf(s)
  PROVE  UNCHANGED Abstract!promise
<1>1. Due' = Due
  BY DueIsDueOf, Zenon
<1> QED
  BY <1>1, Zenon DEF Abstract!promise

\* The three kinds of step: a value handed over, a snapshot, a value heard.
LEMMA Offered ==
  ASSUME NEW s \in Sub, NEW v \in Values, heard' = heard,
         DueOf(s)' = Append(DueOf(s), v),
         \A q \in Sub \ {s} : DueOf(q)' = DueOf(q)
  PROVE  Abstract!PromiseNext
<1>1. Due' = [Due EXCEPT ![s] = Append(@, v)]
  BY DueIsDueOf, Zenon
<1> QED
  BY <1>1, Zenon DEF Abstract!PromiseNext, Abstract!Offer

LEMMA Snapped ==
  ASSUME NEW s \in Sub, NEW v \in Values, heard[s] = NoValue,
         heard' = [heard EXCEPT ![s] = v],
         \A q \in Sub : DueOf(q)' = DueOf(q)
  PROVE  Abstract!PromiseNext
<1>1. Due' = Due
  BY DueIsDueOf, Zenon
<1> QED
  BY <1>1, Zenon DEF Abstract!PromiseNext, Abstract!Snapshot

LEMMA Heard ==
  ASSUME NEW s \in Sub, NEW rest \in Seq(Values), NEW v \in Values,
         DueOf(s) = <<v>> \o rest, DueOf(s)' = rest,
         heard' = [heard EXCEPT ![s] = v],
         \A q \in Sub \ {s} : DueOf(q)' = DueOf(q)
  PROVE  Abstract!PromiseNext
<1>1. Due[s] # <<>> /\ Head(Due[s]) = v /\ Tail(Due[s]) = rest
  <2>1. Due[s] = <<v>> \o rest
    BY DueIsDueOf, Zenon
  <2> QED
    BY <2>1
<1>2. Due' = [Due EXCEPT ![s] = Tail(@)]
  BY <1>1, DueIsDueOf, Zenon
<1> QED
  BY <1>1, <1>2, Zenon DEF Abstract!PromiseNext, Abstract!Hear

LEMMA PromiseOpening ==
  ASSUME SubscriptionInv, NEW s \in Sub,
         CallSnapshot(s) \/ OpenGate(s) \/ Replay(s)
  PROVE  Abstract!PromiseNext \/ UNCHANGED Abstract!promise
<1>0. /\ ClientInv /\ ClientType
      /\ \A q \in Sub : Gate(q)
      /\ gate \in [Sub -> Seq(Values) \cup {Open}]
      /\ batch \in [Sub -> Seq(Values)]
      /\ running \in [Sub -> SUBSET (Sub \cup {"reader"})]
      /\ s # "reader"
  BY InvParts, SubscriptionAssumption, Zenon
<1>1. ASSUME FinishCallback(s, s), UNCHANGED <<batch, gate, rd, heard>>
      PROVE  UNCHANGED Abstract!promise
  <2>1. /\ running'[s] = running[s] \ {s}
        /\ \A q \in Sub \ {s} : running'[q] = running[q]
    BY <1>0, <1>1, CallbackEnds, Zenon
  <2>2. ASSUME NEW q \in Sub PROVE DueOf(q)' = DueOf(q)
    BY <1>0, <1>1, <2>1, Zenon DEF DueOf
  <2> QED
    BY <1>1, <2>2, PromiseStutters, Zenon
<1>2. CASE CallSnapshot(s) /\ s \in running[s]
  BY <1>1, <1>2, Zenon DEF CallSnapshot
<1>3. CASE CallSnapshot(s) /\ s \notin running[s]
  <2>1. got[s] \in Values /\ heard[s] = NoValue
    BY <1>0, <1>3 DEF CallSnapshot, Gate, Unheard, ClientType
  <2>2. StartCallback(s, s, got[s])
    BY <1>3, Zenon DEF CallSnapshot
  <2>3. /\ running'[s] = running[s] \cup {s}
        /\ \A q \in Sub \ {s} : running'[q] = running[q]
    BY <1>0, <2>1, <2>2, CallbackStarts, Zenon
  <2>4. ASSUME NEW q \in Sub PROVE DueOf(q)' = DueOf(q)
    BY <1>0, <1>3, <2>3, Zenon DEF DueOf, CallSnapshot
  <2>5. heard' = [heard EXCEPT ![s] = got[s]]
    BY <2>2, Zenon DEF StartCallback
  <2> QED
    BY <2>1, <2>4, <2>5, Snapped, Zenon
<1>4. CASE OpenGate(s)
  <2>1. /\ gate[s] # Open /\ batch[s] = <<>> /\ rd.call # s
        /\ gate[s] \in Seq(Values)
    BY <1>0, <1>4 DEF OpenGate, Gate, After
  <2>2. DueOf(s) = gate[s]
    <3>1. DueOf(s) = <<>> \o gate[s] \o <<>>
      BY <2>1, Zenon DEF DueOf
    <3> QED
      BY <2>1, <3>1
  <2>3. DueOf(s)' = gate[s]
    <3>0. <<>> # Open
      BY Zenon DEF Open
    <3>1. CASE gate[s] = <<>>
      <4>1. gate'[s] = Open /\ batch'[s] = <<>> /\ rd' = rd
        BY <1>0, <1>4, <2>1, <3>1, Zenon DEF OpenGate
      <4>2. DueOf(s)' = <<>> \o <<>> \o <<>>
        BY <2>1, <4>1, Zenon DEF DueOf
      <4> QED
        BY <3>1, <4>2
    <3>2. CASE gate[s] # <<>>
      <4>1. gate'[s] = <<>> /\ batch'[s] = gate[s] /\ rd' = rd
        BY <1>0, <1>4, <2>1, <3>2, Zenon DEF OpenGate
      <4>2. DueOf(s)' = gate[s] \o <<>> \o <<>>
        BY <2>1, <3>0, <4>1, Zenon DEF DueOf
      <4> QED
        BY <2>1, <4>2
    <3> QED
      BY <3>1, <3>2, Zenon
  <2>4. ASSUME NEW q \in Sub, q # s PROVE DueOf(q)' = DueOf(q)
    <3>1. gate'[q] = gate[q] /\ batch'[q] = batch[q] /\ rd' = rd /\ running' = running
      BY <1>0, <1>4, <2>4, Zenon DEF OpenGate
    <3> QED
      BY <3>1, Zenon DEF DueOf
  <2> QED
    BY <1>4, <2>2, <2>3, <2>4, PromiseStutters, Zenon DEF OpenGate
<1>5. CASE Replay(s) /\ s \in running[s]
  BY <1>1, <1>5, Zenon DEF Replay
<1>6. CASE Replay(s) /\ s \notin running[s]
  <2>1. /\ batch[s] # <<>> /\ batch[s] \in Seq(Values)
        /\ gate[s] # Open /\ gate[s] \in Seq(Values) /\ rd.call # s
    <3>1. Gate(s) /\ pc[s] = "replay" /\ s \notin running[s]
      BY <1>0, <1>6, Zenon DEF Replay
    <3>2. batch[s] # <<>> /\ gate[s] # Open /\ rd.call # s
      BY <3>1 DEF Gate, After
    <3> QED
      BY <1>0, <3>2, Zenon
  <2>2. StartCallback(s, s, Head(batch[s]))
    BY <1>6, Zenon DEF Replay
  <2>3. \A q \in Sub \ {s} : running'[q] = running[q] /\ batch'[q] = batch[q]
    <3>1. Head(batch[s]) \in Values
      BY <2>1
    <3>2. \A q \in Sub \ {s} : running'[q] = running[q]
      BY <1>0, <2>2, <3>1, CallbackStarts, Zenon
    <3> QED
      BY <1>0, <1>6, <3>2, Zenon DEF Replay
  <2>4. batch'[s] = Tail(batch[s]) /\ gate' = gate /\ rd' = rd
    BY <1>0, <1>6, Zenon DEF Replay
  <2> DEFINE v == Head(batch[s])
             rest == Tail(batch[s]) \o gate[s]
  <2>5. v \in Values /\ rest \in Seq(Values) /\ batch[s] = <<v>> \o Tail(batch[s])
    BY <2>1
  <2>6. DueOf(s) = <<v>> \o rest
    <3>1. DueOf(s) = batch[s] \o gate[s] \o <<>>
      BY <2>1, Zenon DEF DueOf
    <3>2. DueOf(s) = batch[s] \o gate[s]
      BY <2>1, <3>1
    <3> QED
      BY <2>1, <3>2, ConcatHead, Zenon
  <2>7. DueOf(s)' = rest
    <3>1. DueOf(s)' = Tail(batch[s]) \o gate[s] \o <<>>
      BY <2>1, <2>4, Zenon DEF DueOf
    <3> QED
      BY <2>1, <3>1
  <2>8. ASSUME NEW q \in Sub \ {s} PROVE DueOf(q)' = DueOf(q)
    BY <2>3, <2>4, Zenon DEF DueOf
  <2>9. heard' = [heard EXCEPT ![s] = v]
    BY <2>2, Zenon DEF StartCallback
  <2> HIDE DEF v, rest
  <2> QED
    BY <2>5, <2>6, <2>7, <2>8, <2>9, Heard, Zenon
<1> QED
  BY <1>2, <1>3, <1>4, <1>5, <1>6, Zenon

LEMMA PromiseReader ==
  ASSUME SubscriptionInv, NEW s \in Sub, Deliver(s) \/ ReaderCalls(s)
  PROVE  Abstract!PromiseNext \/ UNCHANGED Abstract!promise
<1>0. /\ ClientInv /\ ClientType
      /\ \A q \in Sub : Gate(q) /\ q # NoValue
      /\ gate \in [Sub -> Seq(Values) \cup {Open}]
      /\ batch \in [Sub -> Seq(Values)]
      /\ running \in [Sub -> SUBSET (Sub \cup {"reader"})]
  BY InvParts, SubscriptionAssumption, Zenon
<1>1. CASE Deliver(s) /\ gate[s] = Open
  <2>1. /\ rd.call = NoValue /\ rd'.call = s /\ rd'.value = rd.value
        /\ rd.value \in Values
        /\ UNCHANGED <<gate, batch, running, heard>>
    BY <1>0, <1>1, Zenon DEF Deliver, ClientType, ReaderType
  <2>2. batch[s] = <<>> /\ "reader" \notin running[s]
    BY <1>0, <1>1, <2>1, Zenon DEF Gate, After
  <2>3. DueOf(s) = <<>> \o <<>> \o <<>>
    BY <1>0, <1>1, <2>1, <2>2, Zenon DEF DueOf
  <2>4. DueOf(s)' = <<>> \o <<>> \o <<rd.value>>
    BY <1>0, <1>1, <2>1, <2>2, Zenon DEF DueOf
  <2>5. DueOf(s)' = Append(DueOf(s), rd.value)
    BY <2>3, <2>4
  <2>6. ASSUME NEW q \in Sub \ {s} PROVE DueOf(q)' = DueOf(q)
    BY <1>0, <2>1, Zenon DEF DueOf
  <2> QED
    BY <2>1, <2>5, <2>6, Offered, Zenon
<1>2. CASE Deliver(s) /\ gate[s] # Open
  <2>1. /\ rd.call = NoValue /\ rd'.call = NoValue /\ rd.value \in Values
        /\ gate' = [gate EXCEPT ![s] = Append(@, rd.value)]
        /\ UNCHANGED <<batch, running, heard>>
    BY <1>0, <1>2, PastFields, Zenon DEF Deliver, ClientType
  <2>2. gate[s] \in Seq(Values) /\ batch[s] \in Seq(Values)
    BY <1>0, <1>2, Zenon
  <2>3. gate'[s] = Append(gate[s], rd.value) /\ gate'[s] # Open
    <3>1. gate'[s] = Append(gate[s], rd.value)
      BY <1>0, <2>1, Zenon
    <3>2. Append(gate[s], rd.value) \in Seq(Values)
      BY <2>1, <2>2
    <3>3. Open \notin Seq(Values)
      BY SubscriptionAssumption DEF Open, Values
    <3> QED
      BY <3>1, <3>2, <3>3, Zenon
  <2>4. DueOf(s) = batch[s] \o gate[s] \o <<>>
    BY <1>0, <1>2, <2>1, Zenon DEF DueOf
  <2>5. DueOf(s)' = batch[s] \o Append(gate[s], rd.value) \o <<>>
    BY <1>0, <2>1, <2>3, Zenon DEF DueOf
  <2>6. DueOf(s)' = Append(DueOf(s), rd.value)
    <3>1. Append(gate[s], rd.value) \in Seq(Values)
      BY <2>1, <2>2
    <3>2. DueOf(s) = batch[s] \o gate[s]
      BY <2>2, <2>4
    <3>3. DueOf(s)' = batch[s] \o Append(gate[s], rd.value)
      BY <2>2, <2>5, <3>1
    <3>4. rd.value \in Values
      BY <2>1, Zenon
    <3>5. batch[s] \o Append(gate[s], rd.value) = Append(batch[s] \o gate[s], rd.value)
      BY <2>2, <3>4, ConcatAppend, Zenon
    <3> QED
      BY <3>2, <3>3, <3>5, Zenon
  <2>7. ASSUME NEW q \in Sub \ {s} PROVE DueOf(q)' = DueOf(q)
    BY <1>0, <2>1, Zenon DEF DueOf
  <2> QED
    BY <2>1, <2>6, <2>7, Offered, Zenon
<1>3. CASE ReaderCalls(s) /\ "reader" \in running[s]
  <2>1. /\ rd.call = s /\ rd'.call = NoValue
        /\ UNCHANGED <<batch, gate, heard>>
    BY <1>0, <1>3, PastFields, Zenon DEF ReaderCalls
  <2>2. ASSUME NEW q \in Sub PROVE DueOf(q)' = DueOf(q)
    BY <1>0, <1>3, <2>1, Zenon DEF DueOf
  <2> QED
    BY <2>1, <2>2, PromiseStutters, Zenon
<1>4. CASE ReaderCalls(s) /\ "reader" \notin running[s]
  <2>1. /\ rd.call = s /\ rd' = rd /\ rd.value \in Values
        /\ UNCHANGED <<batch, gate>>
        /\ StartCallback("reader", s, rd.value)
    BY <1>0, <1>4, Zenon DEF ReaderCalls, ClientType
  <2>2. /\ running'[s] = running[s] \cup {"reader"}
        /\ \A q \in Sub \ {s} : running'[q] = running[q]
    BY <1>0, <2>1, CallbackStarts, Zenon
  <2>3. batch[s] = <<>> /\ gate[s] = Open
    BY <1>0, <2>1, Zenon DEF Gate, After
  <2>4. DueOf(s) = <<>> \o <<>> \o <<rd.value>> /\ DueOf(s)' = <<>> \o <<>> \o <<>>
    BY <1>4, <2>1, <2>2, <2>3, Zenon DEF DueOf
  <2>5. DueOf(s) = <<rd.value>> \o <<>> /\ DueOf(s)' = <<>> /\ <<>> \in Seq(Values)
    BY <2>1, <2>4
  <2>6. ASSUME NEW q \in Sub \ {s} PROVE DueOf(q)' = DueOf(q)
    BY <2>1, <2>2, Zenon DEF DueOf
  <2>7. heard' = [heard EXCEPT ![s] = rd.value]
    BY <2>1, Zenon DEF StartCallback
  <2> QED
    BY <2>1, <2>5, <2>6, <2>7, Heard, Zenon
<1> QED
  BY <1>1, <1>2, <1>3, <1>4, Zenon

LEMMA PromiseStep ==
  ASSUME SubscriptionInv, [Next]_vars
  PROVE  Abstract!PromiseNext \/ UNCHANGED Abstract!promise
<1>1. ASSUME UNCHANGED <<heard, batch, gate, running, rd>>
      PROVE  UNCHANGED Abstract!promise
  <2>1. ASSUME NEW q \in Sub PROVE DueOf(q)' = DueOf(q)
    BY <1>1, Zenon DEF DueOf
  <2> QED
    BY <1>1, <2>1, PromiseStutters, Zenon
<1>2. ASSUME NEW p \in Publisher, ServerPublish(p) \/ ServerValue(p) \/ Dispatch(p)
      PROVE  UNCHANGED Abstract!promise
  BY <1>1, <1>2, Zenon DEF ServerPublish, ServerValue, Dispatch, client
<1>3. CASE ServerConn
  BY <1>1, <1>3, Zenon
     DEF ServerConn, ServerSubscribe, ServerUnsubscribe, ServerGet, Dispatch, client
<1>4. ASSUME NEW s \in Sub, ClientStep(s)
      PROVE  Abstract!PromiseNext \/ UNCHANGED Abstract!promise
  <2>1. CASE CallSnapshot(s) \/ OpenGate(s) \/ Replay(s)
    BY <2>1, PromiseOpening, Zenon
  <2>2. CASE \/ Subscribe(s) \/ InsertListener(s) \/ Get(s) \/ GetAnswered(s)
             \/ GetTimesOut(s) \/ Register(s) \/ Cancel(s) \/ Unsubscribe(s)
             \/ RemoveListener(s) \/ ReadAll(s)
    BY <1>1, <2>2, Zenon DEF Subscribe, InsertListener, Get, GetAnswered, GetTimesOut,
         Register, Cancel, Unsubscribe, RemoveListener, ReadAll
  <2> QED
    BY <1>4, <2>1, <2>2, Zenon DEF ClientStep, InSubscribe
<1>5. CASE CancelEarlier
  BY <1>1, <1>5, Zenon DEF CancelEarlier
<1>6. CASE ReadAnnounce \/ ReadReply
  BY <1>1, <1>6, Zenon DEF ReadAnnounce, ReadReply
<1>7. CASE ReadValue
  <2>1. rd.call = NoValue /\ rd'.call = NoValue /\ UNCHANGED <<heard, batch, gate, running>>
    BY <1>7, Zenon DEF ReadValue, Idle
  <2>2. ASSUME NEW q \in Sub PROVE DueOf(q)' = DueOf(q)
    BY <2>1, SubscriptionAssumption, Zenon DEF DueOf
  <2> QED
    BY <2>1, <2>2, PromiseStutters, Zenon
<1>8. ASSUME NEW s \in Sub, Deliver(s) \/ ReaderCalls(s)
      PROVE  Abstract!PromiseNext \/ UNCHANGED Abstract!promise
  BY <1>8, PromiseReader, Zenon
<1>9. CASE UNCHANGED vars
  BY <1>1, <1>9, Zenon DEF vars, client
<1> QED
  BY <1>2, <1>3, <1>4, <1>5, <1>6, <1>7, <1>8, <1>9, Zenon DEF Next, Reader, ClientStep

\* BufferedListener keeps the promise of module Listener, whatever the threads
\* do: the snapshot comes first, and each value handed to a listener is heard
\* once, in the order it was handed over.
THEOREM ListenerPromiseKept == Spec => Abstract!PromiseSafety
<1>1. Init => Abstract!PromiseInit
  BY InitPromise, Zenon
<1>2. SubscriptionInv /\ [Next]_vars => [Abstract!PromiseNext]_(Abstract!promise)
  BY PromiseStep, Zenon
<1> QED
  BY <1>1, <1>2, SubscriptionInvariant, PTL DEF Spec, Abstract!PromiseSafety

-----------------------------------------------------------------------------
(* One call at a time.                                                     *)

\* The library's facts about finite sets, for the one lemma that counts one.
Sets == INSTANCE FiniteSetTheorems

LEMMA SmallSets == Cardinality({}) = 0 /\ \A x : Cardinality({x}) = 1
<1>1. \A S : Cardinality(S) = Sets!Cardinality(S)
  BY Zenon DEF Cardinality, Sets!Cardinality
<1> QED
  BY <1>1, Sets!FS_EmptySet, Sets!FS_Singleton, Zenon

LEMMA OneCallAtATime == SubscriptionInv => NeverTwoCalls
<1>1. ASSUME SubscriptionInv, NEW s \in Sub PROVE Cardinality(running[s]) <= 1
  <2>1. Gate(s)
    BY <1>1, Zenon DEF SubscriptionInv, ClientInv
  <2>2. ~(s \in running[s] /\ "reader" \in running[s])
    BY <2>1, Zenon DEF Gate, After
  <2>3. running[s] = {} \/ running[s] = {s} \/ running[s] = {"reader"}
    BY <2>1, <2>2, Zenon DEF Gate
  <2>4. Cardinality({}) = 0 /\ Cardinality({s}) = 1 /\ Cardinality({"reader"}) = 1
    BY SmallSets, Zenon
  <2> QED
    BY <2>3, <2>4
<1> QED
  BY <1>1, Zenon DEF NeverTwoCalls

\* A subscription's callback never runs on two threads at once, though the
\* subscribing thread and the reader both call it: the gate opens only when the
\* subscribing thread has made its last call.
THEOREM NeverTwoCallsHolds == Spec => []NeverTwoCalls
BY SubscriptionInvariant, OneCallAtATime, PTL

=============================================================================
