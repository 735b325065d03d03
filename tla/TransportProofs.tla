-------------------------- MODULE TransportProofs ---------------------------
(***************************************************************************)
(* Frames to one client are never reordered, and the counter that decides  *)
(* between an inline write and the queue is exact: for any number of       *)
(* dispatching threads, any dispatches, any capacity and batch size.       *)
(***************************************************************************)
EXTENDS Transport, FiniteSetTheorems, TLAPS

-----------------------------------------------------------------------------
(* Frames and the numbers of a sequence of frames.                         *)

\* The frames that may exist once k have been dispatched
Frames(k) == [kind : Kinds, n : Nat, after : SUBSET (1 .. k)]

LEMMA FramesGrow ==
  ASSUME NEW k \in Nat, NEW l \in Nat, k <= l
  PROVE  Frames(k) \subseteq Frames(l)
<1>1. SUBSET (1 .. k) \subseteq SUBSET (1 .. l)
  OBVIOUS
<1> QED
  BY <1>1 DEF Frames

LEMMA SeqGrows ==
  ASSUME NEW S, NEW T, S \subseteq T
  PROVE  Seq(S) \subseteq Seq(T)
  OBVIOUS

LEMMA NumbersEmpty == Numbers(<<>>) = {}
  BY DEF Numbers, Range

LEMMA NumbersMember ==
  ASSUME NEW S, NEW q \in Seq(S), NEW i \in 1 .. Len(q)
  PROVE  q[i].n \in Numbers(q)
  BY DEF Numbers, Range

LEMMA NumbersElim ==
  ASSUME NEW S, NEW q \in Seq(S), NEW m \in Numbers(q)
  PROVE  \E i \in 1 .. Len(q) : q[i].n = m
  BY DEF Numbers, Range

\* a is q with f at its end.
Extends(a, q, f) == a = Append(q, f)

LEMMA NumbersAppend ==
  ASSUME NEW S, NEW q \in Seq(S), NEW f \in S, NEW a, Extends(a, q, f)
  PROVE  Numbers(a) = Numbers(q) \cup {f.n}
<1>1. a \in Seq(S) /\ Len(a) = Len(q) + 1 /\ a[Len(q) + 1] = f
      /\ \A i \in 1 .. Len(q) : a[i] = q[i]
  BY DEF Extends
<1>2. ASSUME NEW m \in Numbers(a) PROVE m \in Numbers(q) \cup {f.n}
  <2>1. PICK i \in 1 .. Len(a) : a[i].n = m
    BY <1>1, NumbersElim
  <2> QED
    BY <1>1, <2>1, NumbersMember
<1>3. ASSUME NEW m \in Numbers(q) PROVE m \in Numbers(a)
  <2>1. PICK i \in 1 .. Len(q) : q[i].n = m
    BY NumbersElim
  <2>2. i \in 1 .. Len(a) /\ a[i].n = m
    BY <1>1, <2>1
  <2> QED
    BY <1>1, <2>2, NumbersMember
<1>4. f.n \in Numbers(a)
  <2>1. Len(q) + 1 \in 1 .. Len(a)
    BY <1>1
  <2> QED
    BY <1>1, <2>1, NumbersMember
<1> QED
  BY <1>2, <1>3, <1>4

LEMMA NumbersTail ==
  ASSUME NEW S, NEW q \in Seq(S), q # <<>>
  PROVE  /\ Tail(q) \in Seq(S)
         /\ Head(q) \in S
         /\ Head(q) = q[1]
         /\ 1 \in 1 .. Len(q)
         /\ Len(Tail(q)) = Len(q) - 1
         /\ \A i \in 1 .. Len(Tail(q)) : i + 1 \in 1 .. Len(q) /\ Tail(q)[i] = q[i + 1]
         /\ Numbers(Tail(q)) \subseteq Numbers(q)
         /\ Head(q).n \in Numbers(q)
<1>1. /\ Tail(q) \in Seq(S)
      /\ Head(q) \in S
      /\ Head(q) = q[1]
      /\ 1 \in 1 .. Len(q)
      /\ Len(Tail(q)) = Len(q) - 1
      /\ \A i \in 1 .. Len(Tail(q)) : i + 1 \in 1 .. Len(q) /\ Tail(q)[i] = q[i + 1]
  OBVIOUS
<1>2. ASSUME NEW m \in Numbers(Tail(q)) PROVE m \in Numbers(q)
  <2>1. PICK i \in 1 .. Len(Tail(q)) : Tail(q)[i].n = m
    BY <1>1, NumbersElim, Zenon
  <2> QED
    BY <1>1, <2>1, NumbersMember
<1> QED
  BY <1>1, <1>2, NumbersMember

LEMMA NumbersConcat ==
  ASSUME NEW S, NEW p \in Seq(S), NEW q \in Seq(S)
  PROVE  Numbers(p \o q) \subseteq Numbers(p) \cup Numbers(q)
<1>1. p \o q \in Seq(S) /\ Len(p \o q) = Len(p) + Len(q)
      /\ \A i \in 1 .. Len(p) + Len(q) :
           (p \o q)[i] = IF i <= Len(p) THEN p[i] ELSE q[i - Len(p)]
  OBVIOUS
<1> SUFFICES ASSUME NEW m \in Numbers(p \o q) PROVE m \in Numbers(p) \cup Numbers(q)
    OBVIOUS
<1>2. PICK i \in 1 .. Len(p) + Len(q) : (p \o q)[i].n = m
  BY <1>1, NumbersElim, Zenon
<1>3. CASE i <= Len(p)
  BY <1>1, <1>2, <1>3, NumbersMember
<1>4. CASE ~(i <= Len(p))
  <2>1. i - Len(p) \in 1 .. Len(q)
    BY <1>4
  <2> QED
    BY <1>1, <1>2, <1>4, <2>1, NumbersMember
<1> QED
  BY <1>3, <1>4

-----------------------------------------------------------------------------
(* The order of frames on their way out.                                   *)

\* No frame of p must come after a later one of p.
Ordered(p) == \A i, j \in 1 .. Len(p) : i < j => p[j].n \notin p[i].after

\* No frame of p must come after one with a number in L.
Clear(p, L) == \A i \in 1 .. Len(p) : p[i].after \cap L = {}

\* What the WebsocketWriter holds is in order, and so it stays if the frames
\* with numbers in L follow.
InOrder(o, L) ==
  /\ Ordered(o.wire)
  /\ Ordered(o.batch)
  /\ Clear(o.wire, Numbers(o.batch))
  /\ Clear(o.wire, L)
  /\ Clear(o.batch, L)

Outs(k) == [wire : Seq(Frames(k)), batch : Seq(Frames(k)), closed : BOOLEAN]

LEMMA OutTypes ==
  ASSUME NEW k \in Nat, NEW o \in Outs(k)
  PROVE  o.wire \in Seq(Frames(k)) /\ o.batch \in Seq(Frames(k)) /\ o.closed \in BOOLEAN
<1> DEFINE S == Seq(Frames(k))
<1>1. o \in [wire : S, batch : S, closed : BOOLEAN]
  BY DEF Outs
<1> HIDE DEF S
<1>2. o.wire \in S /\ o.batch \in S /\ o.closed \in BOOLEAN
  BY <1>1
<1> QED
  BY <1>2 DEF S

\* The writer with its wire or its batch replaced
WithWire(o, q) == [o EXCEPT !.wire = q]
WithBatch(o, q) == [o EXCEPT !.batch = q]

LEMMA OutFields ==
  ASSUME NEW k \in Nat, NEW o \in Outs(k), NEW q \in Seq(Frames(k))
  PROVE  /\ WithWire(o, q) \in Outs(k)
         /\ WithWire(o, q).wire = q
         /\ WithWire(o, q).batch = o.batch
         /\ WithBatch(o, q) \in Outs(k)
         /\ WithBatch(o, q).batch = q
         /\ WithBatch(o, q).wire = o.wire
<1> DEFINE S == Seq(Frames(k))
<1>1. o \in [wire : S, batch : S, closed : BOOLEAN] /\ q \in S
  BY DEF Outs
<1> HIDE DEF S
<1>2. o = [wire |-> o.wire, batch |-> o.batch, closed |-> o.closed]
  BY <1>1
<1>3. o.wire \in S /\ o.batch \in S /\ o.closed \in BOOLEAN
  BY <1>1
<1>4. [o EXCEPT !.wire = q] = [wire |-> q, batch |-> o.batch, closed |-> o.closed]
  BY <1>2
<1>5. [o EXCEPT !.batch = q] = [wire |-> o.wire, batch |-> q, closed |-> o.closed]
  BY <1>2
<1>6. /\ [wire |-> q, batch |-> o.batch, closed |-> o.closed]
           \in [wire : S, batch : S, closed : BOOLEAN]
      /\ [wire |-> o.wire, batch |-> q, closed |-> o.closed]
           \in [wire : S, batch : S, closed : BOOLEAN]
  BY <1>1, <1>3
<1> QED
  BY <1>3, <1>4, <1>5, <1>6 DEF Outs, S, WithWire, WithBatch

LEMMA ClearLess ==
  ASSUME NEW p, NEW L, NEW M, M \subseteq L, Clear(p, L)
  PROVE  Clear(p, M)
  BY DEF Clear

LEMMA EmptyOrdered == Ordered(<<>>) /\ \A L : Clear(<<>>, L)
  BY DEF Ordered, Clear

LEMMA OrderedConcat ==
  ASSUME NEW S, NEW p \in Seq(S), NEW q \in Seq(S), Ordered(p), Ordered(q),
         Clear(p, Numbers(q))
  PROVE  Ordered(p \o q)
<1>1. p \o q \in Seq(S) /\ Len(p \o q) = Len(p) + Len(q)
      /\ \A i \in 1 .. Len(p) + Len(q) :
           (p \o q)[i] = IF i <= Len(p) THEN p[i] ELSE q[i - Len(p)]
  OBVIOUS
<1> SUFFICES ASSUME NEW i \in 1 .. Len(p) + Len(q), NEW j \in 1 .. Len(p) + Len(q), i < j
             PROVE  (p \o q)[j].n \notin (p \o q)[i].after
    BY <1>1 DEF Ordered
<1>2. CASE j <= Len(p)
  <2>1. (p \o q)[i] = p[i] /\ (p \o q)[j] = p[j] /\ i \in 1 .. Len(p) /\ j \in 1 .. Len(p)
    BY <1>1, <1>2
  <2> QED
    BY <2>1 DEF Ordered
<1>3. CASE i <= Len(p) /\ ~(j <= Len(p))
  <2>1. /\ (p \o q)[i] = p[i] /\ (p \o q)[j] = q[j - Len(p)]
        /\ i \in 1 .. Len(p) /\ j - Len(p) \in 1 .. Len(q)
    BY <1>1, <1>3
  <2>2. q[j - Len(p)].n \in Numbers(q)
    BY <2>1, NumbersMember
  <2> QED
    BY <2>1, <2>2 DEF Clear
<1>4. CASE ~(i <= Len(p))
  <2>1. /\ (p \o q)[i] = q[i - Len(p)] /\ (p \o q)[j] = q[j - Len(p)]
        /\ i - Len(p) \in 1 .. Len(q) /\ j - Len(p) \in 1 .. Len(q)
        /\ i - Len(p) < j - Len(p)
    BY <1>1, <1>4
  <2> QED
    BY <2>1 DEF Ordered
<1> QED
  BY <1>2, <1>3, <1>4

LEMMA ClearConcat ==
  ASSUME NEW S, NEW p \in Seq(S), NEW q \in Seq(S), NEW L, Clear(p, L), Clear(q, L)
  PROVE  Clear(p \o q, L)
<1>1. Len(p \o q) = Len(p) + Len(q)
      /\ \A i \in 1 .. Len(p) + Len(q) :
           (p \o q)[i] = IF i <= Len(p) THEN p[i] ELSE q[i - Len(p)]
  OBVIOUS
<1> SUFFICES ASSUME NEW i \in 1 .. Len(p) + Len(q) PROVE (p \o q)[i].after \cap L = {}
    BY <1>1 DEF Clear
<1>2. CASE i <= Len(p)
  BY <1>1, <1>2 DEF Clear
<1>3. CASE ~(i <= Len(p))
  <2>1. i - Len(p) \in 1 .. Len(q) /\ (p \o q)[i] = q[i - Len(p)]
    BY <1>1, <1>3
  <2> QED
    BY <2>1 DEF Clear
<1> QED
  BY <1>2, <1>3

LEMMA SingleOrdered ==
  ASSUME NEW S, NEW f \in S
  PROVE  /\ <<f>> \in Seq(S)
         /\ Ordered(<<f>>)
         /\ Numbers(<<f>>) = {f.n}
         /\ \A L : f.after \cap L = {} => Clear(<<f>>, L)
<1>1. <<f>> \in Seq(S) /\ Ordered(<<f>>) /\ \A L : f.after \cap L = {} => Clear(<<f>>, L)
  BY DEF Ordered, Clear
<1>2. Len(<<f>>) = 1 /\ <<f>>[1] = f
  OBVIOUS
<1>3. ASSUME NEW m \in Numbers(<<f>>) PROVE m = f.n
  <2>1. PICK i \in 1 .. Len(<<f>>) : <<f>>[i].n = m
    BY <1>1, NumbersElim, Zenon
  <2> QED
    BY <1>2, <2>1
<1>4. f.n \in Numbers(<<f>>)
  <2>1. 1 \in 1 .. Len(<<f>>)
    BY <1>2
  <2>2. <<f>>[1].n \in Numbers(<<f>>)
    BY <1>1, <2>1, NumbersMember, Zenon
  <2> QED
    BY <1>2, <2>2
<1> QED
  BY <1>1, <1>3, <1>4

LEMMA AppendIsConcat ==
  ASSUME NEW S, NEW p \in Seq(S), NEW f \in S
  PROVE  Append(p, f) = p \o <<f>> /\ Append(p, f) \in Seq(S)
  OBVIOUS

LEMMA OrderedTail ==
  ASSUME NEW S, NEW q \in Seq(S), q # <<>>, Ordered(q)
  PROVE  /\ Ordered(Tail(q))
         /\ Head(q).after \cap Numbers(Tail(q)) = {}
         /\ \A L : Clear(q, L) => Clear(Tail(q), L) /\ Head(q).after \cap L = {}
<1>1. /\ Tail(q) \in Seq(S)
      /\ Head(q) = q[1]
      /\ 1 \in 1 .. Len(q)
      /\ Len(Tail(q)) = Len(q) - 1
      /\ \A i \in 1 .. Len(Tail(q)) : i + 1 \in 1 .. Len(q) /\ Tail(q)[i] = q[i + 1]
  BY NumbersTail
<1>2. Ordered(Tail(q))
  BY <1>1 DEF Ordered
<1>3. ASSUME NEW m \in Numbers(Tail(q)) PROVE m \notin Head(q).after
  <2>1. PICK i \in 1 .. Len(Tail(q)) : Tail(q)[i].n = m
    BY <1>1, NumbersElim, Zenon
  <2>2. i + 1 \in 1 .. Len(q) /\ q[i + 1].n = m /\ 1 < i + 1
    BY <1>1, <2>1
  <2> QED
    BY <1>1, <2>2 DEF Ordered
<1>4. ASSUME NEW L, Clear(q, L) PROVE Clear(Tail(q), L) /\ Head(q).after \cap L = {}
  BY <1>1, <1>4 DEF Clear
<1> QED
  BY <1>2, <1>3, <1>4

-----------------------------------------------------------------------------
(* The WebsocketWriter keeps the order, whatever fails.                    *)

\* What every call leaves behind, succeeded or not
Kept(r, k, L) ==
  /\ r.ok \in BOOLEAN
  /\ r.out \in Outs(k)
  /\ InOrder(r.out, L)

LEMMA SendKeeps ==
  ASSUME NEW k \in Nat, NEW L, NEW o \in Outs(k), NEW fs \in Seq(Frames(k)),
         o.batch = <<>>, Ordered(o.wire), Clear(o.wire, L), Ordered(fs), Clear(fs, L),
         Clear(o.wire, Numbers(fs)), NEW r \in Send(o, fs)
  PROVE  Kept(r, k, L) /\ r.out.batch = <<>>
<1> DEFINE longer == [o EXCEPT !.wire = @ \o fs]
<1>1. /\ o.wire \in Seq(Frames(k))
      /\ longer \in Outs(k)
      /\ longer.wire = o.wire \o fs
      /\ longer.batch = <<>>
  <2>1. o.wire \o fs \in Seq(Frames(k))
    BY OutTypes
  <2>2. /\ WithWire(o, o.wire \o fs) \in Outs(k)
        /\ WithWire(o, o.wire \o fs).wire = o.wire \o fs
        /\ WithWire(o, o.wire \o fs).batch = o.batch
    BY <2>1, OutFields, Zenon
  <2>3. o.wire \in Seq(Frames(k))
    BY OutTypes
  <2> QED
    BY <2>2, <2>3 DEF WithWire
<1>2. \/ r = [ok |-> TRUE, out |-> longer]
      \/ r = [ok |-> FALSE, out |-> o]
  BY DEF Send
<1>3. Ordered(longer.wire) /\ Clear(longer.wire, L)
  <2>1. Ordered(o.wire \o fs)
    BY <1>1, OrderedConcat
  <2>2. Clear(o.wire \o fs, L)
    BY <1>1, ClearConcat
  <2> QED
    BY <1>1, <2>1, <2>2
<1> HIDE DEF longer
<1>4. ASSUME NEW p \in Outs(k), p.batch = <<>>, Ordered(p.wire), Clear(p.wire, L)
      PROVE  InOrder(p, L)
  <2>1. Clear(p.wire, {})
    BY DEF Clear
  <2> QED
    BY <1>4, <2>1, NumbersEmpty, EmptyOrdered, Zenon DEF InOrder
<1>5. CASE r = [ok |-> TRUE, out |-> longer]
  <2>1. InOrder(longer, L)
    BY <1>1, <1>3, <1>4, Zenon
  <2> QED
    BY <1>1, <1>5, <2>1 DEF Kept
<1>6. CASE r = [ok |-> FALSE, out |-> o]
  <2>1. InOrder(o, L)
    BY <1>4
  <2> QED
    BY <1>6, <2>1 DEF Kept
<1> QED
  BY <1>2, <1>5, <1>6

LEMMA FlushKeeps ==
  ASSUME NEW k \in Nat, NEW L, NEW o \in Outs(k), InOrder(o, L), NEW r \in Flush(o)
  PROVE  Kept(r, k, L) /\ r.out.batch = <<>>
<1>1. CASE o.batch = <<>>
  <2>1. r = [ok |-> TRUE, out |-> o]
    BY <1>1 DEF Flush
  <2> QED
    BY <1>1, <2>1 DEF Kept
<1>2. CASE o.batch # <<>>
  <2> DEFINE e == [o EXCEPT !.batch = <<>>]
  <2>1. /\ e \in Outs(k) /\ e.batch = <<>> /\ e.wire = o.wire
        /\ o.batch \in Seq(Frames(k))
    <3>1. <<>> \in Seq(Frames(k))
      OBVIOUS
    <3> QED
      <4>1. o.batch \in Seq(Frames(k))
        BY OutTypes
      <4>2. /\ WithBatch(o, <<>>) \in Outs(k)
            /\ WithBatch(o, <<>>).batch = <<>>
            /\ WithBatch(o, <<>>).wire = o.wire
        BY <3>1, OutFields, Zenon
      <4> QED
        BY <4>1, <4>2 DEF WithBatch
  <2>2. r \in Send(e, o.batch)
    BY <1>2 DEF Flush
  <2> HIDE DEF e
  <2>3. /\ Ordered(e.wire) /\ Clear(e.wire, L) /\ Ordered(o.batch) /\ Clear(o.batch, L)
        /\ Clear(e.wire, Numbers(o.batch))
    BY <2>1 DEF InOrder
  <2> QED
    BY <2>1, <2>2, <2>3, SendKeeps
<1> QED
  BY <1>1, <1>2

LEMMA InOrderLess ==
  ASSUME NEW o, NEW L, NEW M, M \subseteq L, InOrder(o, L)
  PROVE  InOrder(o, M)
  BY ClearLess DEF InOrder

LEMMA FlushIfFullKeeps ==
  ASSUME NEW k \in Nat, NEW L, NEW o \in Outs(k), InOrder(o, L), NEW r \in FlushIfFull(o)
  PROVE  Kept(r, k, L)
<1>1. CASE r \in Flush(o)
  BY <1>1, FlushKeeps
<1>2. CASE r = [ok |-> TRUE, out |-> o]
  BY <1>2 DEF Kept
<1> QED
  BY <1>1, <1>2 DEF FlushIfFull

\* A frame the others had to leave room for is batched: those of M follow.
LEMMA BatchKeeps ==
  ASSUME NEW k \in Nat, NEW L, NEW M, NEW o \in Outs(k), NEW f \in Frames(k),
         InOrder(o, L), f.n \in L, M \subseteq L, f.after \cap M = {}
  PROVE  WriteBatched(o, f) \in Outs(k) /\ InOrder(WriteBatched(o, f), M)
<1> DEFINE w == WriteBatched(o, f)
<1>1. /\ o.batch \in Seq(Frames(k)) /\ o.wire \in Seq(Frames(k))
      /\ w.batch = Append(o.batch, f) /\ w.wire = o.wire
      /\ w \in Outs(k)
  <2>1. Append(o.batch, f) \in Seq(Frames(k))
    BY OutTypes, AppendIsConcat
  <2> QED
    <3>1. o.wire \in Seq(Frames(k)) /\ o.batch \in Seq(Frames(k))
      BY OutTypes
    <3>2. /\ WithBatch(o, Append(o.batch, f)) \in Outs(k)
          /\ WithBatch(o, Append(o.batch, f)).batch = Append(o.batch, f)
          /\ WithBatch(o, Append(o.batch, f)).wire = o.wire
      <4> DEFINE q == Append(o.batch, f)
      <4>1. q \in Seq(Frames(k))
        BY <2>1
      <4> HIDE DEF q
      <4>2. WithBatch(o, q) \in Outs(k) /\ WithBatch(o, q).batch = q
            /\ WithBatch(o, q).wire = o.wire
        BY <4>1, OutFields
      <4> QED
        BY <4>2 DEF q
    <3> QED
      BY <3>1, <3>2 DEF WriteBatched, WithBatch
<1>2. /\ <<f>> \in Seq(Frames(k)) /\ Ordered(<<f>>) /\ Numbers(<<f>>) = {f.n}
      /\ Clear(<<f>>, M)
  BY SingleOrdered
<1>3. Append(o.batch, f) = o.batch \o <<f>>
  BY <1>1, AppendIsConcat
<1>4. {f.n} \subseteq L
  OBVIOUS
<1>5. Ordered(w.batch)
  <2>1. Clear(o.batch, {f.n}) /\ Ordered(o.batch)
    BY <1>4, ClearLess DEF InOrder
  <2>2. Ordered(o.batch \o <<f>>)
    BY <1>1, <1>2, <2>1, OrderedConcat, Zenon
  <2> QED
    BY <1>1, <1>3, <2>2
<1>6. Clear(w.batch, M)
  <2>1. Clear(o.batch, M)
    BY ClearLess DEF InOrder
  <2>2. Clear(o.batch \o <<f>>, M)
    BY <1>1, <1>2, <2>1, ClearConcat, Zenon
  <2> QED
    BY <1>1, <1>3, <2>2
<1>7. Clear(w.wire, Numbers(w.batch))
  <2>a. Extends(w.batch, o.batch, f)
    BY <1>1 DEF Extends
  <2>1. Numbers(w.batch) = Numbers(o.batch) \cup {f.n}
    BY <1>1, <2>a, NumbersAppend
  <2>2. Clear(o.wire, Numbers(o.batch)) /\ Clear(o.wire, L)
    BY DEF InOrder
  <2> QED
    BY <1>1, <1>4, <2>1, <2>2 DEF Clear
<1>8. Clear(w.wire, M) /\ Ordered(w.wire)
  BY <1>1, ClearLess DEF InOrder
<1> QED
  BY <1>1, <1>5, <1>6, <1>7, <1>8 DEF InOrder

LEMMA FlushThenSendKeeps ==
  ASSUME NEW k \in Nat, NEW L, NEW M, NEW o \in Outs(k), NEW f \in Frames(k),
         InOrder(o, L), f.n \in L, M \subseteq L, f.after \cap M = {},
         NEW r \in FlushThenSend(o, f)
  PROVE  Kept(r, k, M)
<1>1. PICK fl \in Flush(o) : r \in (IF fl.ok THEN Send(fl.out, <<f>>) ELSE {fl})
  BY DEF FlushThenSend
<1>2. Kept(fl, k, L) /\ fl.out.batch = <<>>
  BY FlushKeeps
<1>3. fl.out \in Outs(k) /\ InOrder(fl.out, L) /\ fl.ok \in BOOLEAN
  BY <1>2 DEF Kept
<1>4. CASE fl.ok
  <2>1. r \in Send(fl.out, <<f>>)
    BY <1>1, <1>4
  <2>2. /\ <<f>> \in Seq(Frames(k)) /\ Ordered(<<f>>) /\ Numbers(<<f>>) = {f.n}
        /\ Clear(<<f>>, M)
    BY SingleOrdered
  <2>3. {f.n} \subseteq L
    OBVIOUS
  <2>4. Ordered(fl.out.wire) /\ Clear(fl.out.wire, M) /\ Clear(fl.out.wire, Numbers(<<f>>))
    BY <1>3, <2>2, <2>3, ClearLess DEF InOrder
  <2> DEFINE o2 == fl.out
             fs == <<f>>
  <2>5. /\ o2 \in Outs(k) /\ fs \in Seq(Frames(k)) /\ o2.batch = <<>>
        /\ Ordered(o2.wire) /\ Clear(o2.wire, M) /\ Ordered(fs) /\ Clear(fs, M)
        /\ Clear(o2.wire, Numbers(fs)) /\ r \in Send(o2, fs)
    BY <1>2, <1>3, <2>1, <2>2, <2>4
  <2> HIDE DEF o2, fs
  <2> QED
    BY <2>5, SendKeeps
<1>5. CASE ~fl.ok
  <2>1. r = fl
    BY <1>1, <1>5
  <2>2. InOrder(fl.out, M)
    BY <1>3, InOrderLess
  <2> QED
    BY <1>3, <2>1, <2>2 DEF Kept
<1> QED
  BY <1>4, <1>5

\* The same for write_one, which batches a value and sends anything else after
\* the batch.
LEMMA WriteOneKeeps ==
  ASSUME NEW k \in Nat, NEW L, NEW M, NEW o \in Outs(k), NEW f \in Frames(k),
         InOrder(o, L), f.n \in L, M \subseteq L, f.after \cap M = {},
         NEW r \in WriteOne(o, f)
  PROVE  Kept(r, k, M)
<1>1. f.kind \in {"value", "text", "raw", "close"}
  BY DEF Frames, Kinds
<1>2. CASE f.kind = "value"
  <2>1. r = [ok |-> TRUE, out |-> WriteBatched(o, f)]
    BY <1>2 DEF WriteOne
  <2>2. WriteBatched(o, f) \in Outs(k) /\ InOrder(WriteBatched(o, f), M)
    BY BatchKeeps
  <2> QED
    BY <2>1, <2>2 DEF Kept
<1>3. CASE f.kind \in {"text", "raw"}
  <2>1. r \in FlushThenSend(o, f)
    BY <1>3 DEF WriteOne
  <2> QED
    BY <2>1, FlushThenSendKeeps
<1>4. CASE f.kind = "close"
  <2>1. PICK s \in FlushThenSend(o, f) :
          r = [ok |-> FALSE, out |-> [s.out EXCEPT !.closed = s.ok \/ @]]
    BY <1>4 DEF WriteOne
  <2>2. Kept(s, k, M)
    BY FlushThenSendKeeps
  <2> DEFINE closed == [s.out EXCEPT !.closed = s.ok \/ @]
             S == Seq(Frames(k))
  <2>3. s.out \in [wire : S, batch : S, closed : BOOLEAN]
    BY <2>2 DEF Kept, Outs
  <2> HIDE DEF S
  <2>4. s.out = [wire |-> s.out.wire, batch |-> s.out.batch, closed |-> s.out.closed]
        /\ s.out.wire \in S /\ s.out.batch \in S
    BY <2>3
  <2>5. closed = [wire |-> s.out.wire, batch |-> s.out.batch, closed |-> s.ok \/ s.out.closed]
    BY <2>4
  <2>6. (s.ok \/ s.out.closed) \in BOOLEAN
    OBVIOUS
  <2> HIDE DEF closed
  <2>7. closed \in [wire : S, batch : S, closed : BOOLEAN]
    BY <2>4, <2>5, <2>6
  <2>8. closed \in Outs(k)
    BY <2>7 DEF Outs, S
  <2>9. closed.wire = s.out.wire /\ closed.batch = s.out.batch
    BY <2>5
  <2>10. InOrder(closed, M)
    BY <2>2, <2>9 DEF Kept, InOrder
  <2>11. r = [ok |-> FALSE, out |-> closed]
    BY <2>1 DEF closed
  <2> QED
    BY <2>8, <2>10, <2>11 DEF Kept
<1> QED
  BY <1>1, <1>2, <1>3, <1>4

-----------------------------------------------------------------------------
(* Where the threads can be.                                               *)

\* A sender in enqueue has a frame to queue and not the lock; the writer thread
\* has one frame in hand from recv_timeout to its write; a dead thread leaves no
\* channel, and there is no thread before the client is served.
Control ==
  /\ pc \in [Sender -> {"idle", "lock", "load", "place", "send", "undo"}]
  /\ DOMAIN job = Sender
  /\ \A s \in Sender : pc[s] \in {"send", "undo"} => job[s] # <<>>
  /\ \A s \in Sender : lock = s => pc[s] \in {"load", "place"}
  /\ wpc \in {"unborn", "recv", "ping", "lock", "write", "drain", "ended"}
  /\ wpc \in {"lock", "write"} => Len(hand) = 1
  /\ wpc \notin {"lock", "write"} => hand = <<>>
  /\ wpc = "ended" => queue = <<>>
  /\ conn = "connecting" => wpc = "unborn"

LEMMA ControlInit == Init => Control
  BY TransportAssumption DEF Init, Control

LEMMA ControlSender ==
  ASSUME Control, NEW s \in Sender,
         Deliver(s) \/ (\E kinds \in Jobs : Dispatch(s, kinds))
  PROVE  Control'
<1> USE TransportAssumption DEF Control, envVars
<1>1. ASSUME NEW kinds \in Jobs, Dispatch(s, kinds) PROVE Control'
  BY <1>1 DEF Dispatch, Take
<1>2. CASE TryLock(s)
  BY <1>2 DEF TryLock
<1>3. CASE Load(s)
  BY <1>3 DEF Load
<1>4. CASE PlaceInline(s)
  <2>1. /\ UNCHANGED <<queue, queued, wpc, hand, conn>>
        /\ pc[s] = "place"
        /\ \/ job' = [job EXCEPT ![s] = Tail(@)] /\ UNCHANGED <<lock, pc>>
           \/ Return(s)
    BY <1>4 DEF PlaceInline, Places, Try
  <2> QED
    BY <2>1 DEF Return
<1>5. CASE Unlock(s)
  <2>1. /\ UNCHANGED <<queue, queued, wpc, hand, conn>>
        /\ pc[s] = "place"
        /\ \/ lock' = Nobody /\ UNCHANGED <<pc, job>>
           \/ Return(s)
    BY <1>5 DEF Unlock, Places, Try, sendVars
  <2> QED
    BY <2>1 DEF Return
<1>6. CASE Count(s)
  BY <1>6 DEF Count, Places
<1>7. CASE TrySend(s)
  BY <1>7 DEF TrySend
<1>8. CASE Undo(s)
  BY <1>8 DEF Undo
<1>9. CASE Finish(s)
  <2>1. UNCHANGED <<queue, queued, wpc, hand, conn>> /\ Return(s)
    BY <1>9 DEF Finish, Try
  <2> QED
    BY <2>1 DEF Return
<1> QED
  BY <1>1, <1>2, <1>3, <1>4, <1>5, <1>6, <1>7, <1>8, <1>9 DEF Deliver

LEMMA ControlOther ==
  ASSUME Control,
         EmitRaw \/ SendClose \/ Writer \/ Spawn \/ Leave \/ Join \/ Stall
           \/ UNCHANGED vars
  PROVE  Control'
<1> USE TransportAssumption DEF Control, envVars, sendVars
<1>1. CASE EmitRaw
  BY <1>1 DEF EmitRaw, Take
<1>2. CASE SendClose
  BY <1>2 DEF SendClose, Take
<1>3. CASE Recv
  BY <1>3 DEF Recv, End
<1>4. CASE Ping
  <2>1. /\ wpc = "ping" /\ UNCHANGED <<pc, job, hand, conn>>
        /\ (wpc' = "recv" /\ UNCHANGED <<queue, lock>>) \/ End
    BY <1>4 DEF Ping
  <2> QED
    BY <2>1 DEF End
<1>5. CASE Lock
  BY <1>5 DEF Lock
<1>6. CASE Write
  <2>1. /\ wpc = "write" /\ UNCHANGED <<pc, job, conn>> /\ hand' = <<>>
        /\ (wpc' = "drain" /\ UNCHANGED <<queue, lock>>) \/ End
    BY <1>6 DEF Write
  <2> QED
    BY <2>1 DEF End
<1>7. CASE Drain
  <2>1. /\ wpc = "drain" /\ UNCHANGED <<pc, job, conn, hand>>
        /\ (queue' = Tail(queue) /\ UNCHANGED <<wpc, lock>>) \/ End
    BY <1>7 DEF Drain
  <2> QED
    BY <2>1 DEF End
<1>8. CASE Rest
  <2>1. /\ wpc = "drain" /\ UNCHANGED <<pc, job, conn, hand>>
        /\ (wpc' = "recv" /\ lock' = Nobody /\ UNCHANGED queue) \/ End
    BY <1>8 DEF Rest
  <2> QED
    BY <2>1 DEF End
<1>9. CASE Spawn
  BY <1>9 DEF Spawn
<1>10. CASE Leave \/ Join \/ Stall
  BY <1>10 DEF Leave, Join, Stall
<1>11. CASE UNCHANGED vars
  BY <1>11 DEF vars
<1> QED
  BY <1>1, <1>2, <1>3, <1>4, <1>5, <1>6, <1>7, <1>8, <1>9, <1>10, <1>11 DEF Writer

LEMMA ControlStep == Control /\ [Next]_vars => Control'
  BY ControlSender, ControlOther DEF Next

-----------------------------------------------------------------------------
(* The counter.                                                            *)

Data ==
  /\ sent \in Seq(Kinds)
  /\ out \in Outs(Len(sent))
  /\ queue \in Seq(Frames(Len(sent)))
  /\ hand \in Seq(Frames(Len(sent)))
  /\ job \in [Sender -> Seq(Frames(Len(sent)))]
  /\ queued \in Int

\* The threads between enqueue's fetch_add and the end of its try_send
Sending == {s \in Sender : pc[s] \in {"send", "undo"}}

LEMMA SendingFinite == IsFiniteSet(Sending) /\ Cardinality(Sending) \in Nat
<1>1. IsFiniteSet(Sender)
  BY TransportAssumption
<1>2. Sending \subseteq Sender
  BY DEF Sending
<1>3. IsFiniteSet(Sending)
  BY <1>1, <1>2, FS_Subset
<1> QED
  BY <1>3, FS_CardinalityType

\* A thread enters enqueue, or leaves it.
LEMMA SendingEnters ==
  ASSUME NEW s \in Sender, s \notin Sending, Sending' = Sending \cup {s}
  PROVE  Cardinality(Sending') = Cardinality(Sending) + 1
  BY SendingFinite, FS_AddElement

LEMMA SendingLeaves ==
  ASSUME NEW s \in Sender, s \in Sending, Sending' = Sending \ {s}
  PROVE  Cardinality(Sending') = Cardinality(Sending) - 1
  BY SendingFinite, FS_RemoveElement

LEMMA CountSender ==
  ASSUME Control, Data, QueuedExact, NEW s \in Sender,
         Deliver(s) \/ (\E kinds \in Jobs : Dispatch(s, kinds))
  PROVE  QueuedExact' /\ queued' \in Int
<1>0. /\ QueuedExact <=>
           (wpc # "ended" => queued = Len(queue) + Len(hand) + Cardinality(Sending))
      /\ QueuedExact' <=>
           (wpc' # "ended" =>
              queued' = Len(queue') + Len(hand') + Cardinality(Sending'))
  BY DEF QueuedExact, Sending
<1>a. /\ pc \in [Sender -> {"idle", "lock", "load", "place", "send", "undo"}]
      /\ queued \in Int /\ Len(queue) \in Nat /\ Len(hand) \in Nat
      /\ Cardinality(Sending) \in Nat
  BY SendingFinite DEF Control, Data
<1>1. ASSUME Sending' = Sending, UNCHANGED <<queue, hand, queued, wpc>>
      PROVE  QueuedExact' /\ queued' \in Int
  BY <1>0, <1>a, <1>1
<1>2. ASSUME NEW kinds \in Jobs, Dispatch(s, kinds) PROVE QueuedExact' /\ queued' \in Int
  BY <1>1, <1>2, <1>a DEF Dispatch, Take, Sending
<1>3. CASE TryLock(s)
  BY <1>1, <1>3, <1>a DEF TryLock, Sending
<1>4. CASE Load(s)
  BY <1>1, <1>4, <1>a DEF Load, Sending
<1>5. CASE PlaceInline(s) \/ Unlock(s) \/ Finish(s)
  <2>1. /\ UNCHANGED <<queue, queued, wpc, hand>> /\ pc[s] = "place"
        /\ UNCHANGED pc \/ pc' = [pc EXCEPT ![s] = "idle"]
    BY <1>5 DEF PlaceInline, Unlock, Finish, Places, Try, Return, sendVars
  <2> QED
    BY <1>1, <1>a, <2>1 DEF Sending
<1>6. CASE Count(s)
  <2>1. pc[s] = "place" /\ pc' = [pc EXCEPT ![s] = "send"] /\ queued' = queued + 1
        /\ UNCHANGED <<queue, hand, wpc>>
    BY <1>6 DEF Count, Places
  <2>2. s \notin Sending /\ Sending' = Sending \cup {s}
    BY <1>a, <2>1 DEF Sending
  <2>3. Cardinality(Sending') = Cardinality(Sending) + 1
    BY <2>2, SendingEnters
  <2> QED
    BY <1>0, <1>a, <2>1, <2>3
<1>7. CASE TrySend(s)
  <2>1. CASE wpc # "ended" /\ Len(queue) < Capacity
    <3>1. /\ pc[s] = "send" /\ pc' = [pc EXCEPT ![s] = "place"]
          /\ queue' = Append(queue, Head(job[s])) /\ UNCHANGED <<hand, wpc, queued>>
      BY <1>7, <2>1 DEF TrySend
    <3>2. s \in Sending /\ Sending' = Sending \ {s}
      BY <1>a, <3>1 DEF Sending
    <3>3. Cardinality(Sending') = Cardinality(Sending) - 1
      BY <3>2, SendingLeaves
    <3>4. Len(queue') = Len(queue) + 1
      BY <3>1 DEF Data
    <3> QED
      BY <1>0, <1>a, <3>1, <3>3, <3>4
  <2>2. CASE ~(wpc # "ended" /\ Len(queue) < Capacity)
    BY <1>1, <1>7, <1>a, <2>2 DEF TrySend, Sending
  <2> QED
    BY <2>1, <2>2
<1>8. CASE Undo(s)
  <2>1. pc[s] = "undo" /\ pc' = [pc EXCEPT ![s] = "place"] /\ queued' = queued - 1
        /\ UNCHANGED <<queue, hand, wpc>>
    BY <1>8 DEF Undo
  <2>2. s \in Sending /\ Sending' = Sending \ {s}
    BY <1>a, <2>1 DEF Sending
  <2>3. Cardinality(Sending') = Cardinality(Sending) - 1
    BY <2>2, SendingLeaves
  <2> QED
    BY <1>0, <1>a, <2>1, <2>3
<1> QED
  BY <1>2, <1>3, <1>4, <1>5, <1>6, <1>7, <1>8 DEF Deliver

LEMMA CountOther ==
  ASSUME Control, Data, QueuedExact,
         EmitRaw \/ SendClose \/ Writer \/ Spawn \/ Leave \/ Join \/ Stall
           \/ UNCHANGED vars
  PROVE  QueuedExact' /\ queued' \in Int
<1>0. /\ QueuedExact <=>
           (wpc # "ended" => queued = Len(queue) + Len(hand) + Cardinality(Sending))
      /\ QueuedExact' <=>
           (wpc' # "ended" =>
              queued' = Len(queue') + Len(hand') + Cardinality(Sending'))
  BY DEF QueuedExact, Sending
<1>a. /\ pc \in [Sender -> {"idle", "lock", "load", "place", "send", "undo"}]
      /\ queued \in Int /\ Len(queue) \in Nat /\ Len(hand) \in Nat
      /\ Cardinality(Sending) \in Nat
      /\ queue # <<>> => Len(Tail(queue)) = Len(queue) - 1
  BY SendingFinite DEF Control, Data
<1>1. ASSUME Sending' = Sending, UNCHANGED <<queue, hand, queued>>,
             wpc = "ended" => wpc' = "ended"
      PROVE  QueuedExact' /\ queued' \in Int
  BY <1>0, <1>a, <1>1
<1>2. CASE EmitRaw \/ SendClose
  BY <1>1, <1>2, <1>a, TransportAssumption DEF EmitRaw, SendClose, Take, Sending
<1>b. ASSUME UNCHANGED pc PROVE Sending' = Sending
  BY <1>b DEF Sending
<1>3. CASE Recv
  <2>1. UNCHANGED <<pc, queued>>
    BY <1>3 DEF Recv, sendVars
  <2>2. CASE wpc' = "ended"
    BY <1>0, <1>a, <2>1, <2>2
  <2>3. CASE queue # <<>>
    <3>1. queue' = Tail(queue) /\ Len(hand') = 1 /\ wpc = "recv"
      BY <1>3, <2>3 DEF Recv
    <3>2. Len(hand) = 0
      BY <3>1 DEF Control
    <3> QED
      BY <1>0, <1>a, <1>b, <2>1, <2>3, <3>1, <3>2
  <2>4. CASE queue = <<>> /\ wpc' # "ended"
    BY <1>1, <1>3, <1>b, <2>1, <2>4 DEF Recv, End
  <2> QED
    BY <2>2, <2>3, <2>4
<1>4. CASE Ping \/ Rest
  <2>1. /\ UNCHANGED <<pc, queued, hand>> /\ wpc # "ended"
        /\ wpc' = "ended" \/ UNCHANGED queue
    BY <1>4 DEF Ping, Rest, End, sendVars
  <2> QED
    BY <1>0, <1>a, <1>b, <2>1
<1>5. CASE Lock \/ Leave \/ Join \/ Stall \/ UNCHANGED vars
  BY <1>1, <1>5, <1>b DEF Lock, Leave, Join, Stall, vars, sendVars
<1>6. CASE Write
  <2>1. /\ UNCHANGED pc /\ wpc = "write" /\ hand' = <<>> /\ queued' = queued - 1
        /\ wpc' = "ended" \/ UNCHANGED queue
    BY <1>6 DEF Write, End, sendVars
  <2>2. Len(hand) = 1 /\ Len(hand') = 0
    BY <2>1 DEF Control
  <2> QED
    BY <1>0, <1>a, <1>b, <2>1, <2>2
<1>7. CASE Drain
  <2>1. /\ UNCHANGED <<pc, hand>> /\ wpc = "drain" /\ queued' = queued - 1 /\ queue # <<>>
        /\ wpc' = "ended" \/ queue' = Tail(queue)
    BY <1>7 DEF Drain, End, sendVars
  <2> QED
    BY <1>0, <1>a, <1>b, <2>1
<1>8. CASE Spawn
  <2>1. wpc = "unborn" /\ UNCHANGED <<queue, hand, queued, pc>>
    BY <1>8 DEF Spawn, Control, sendVars
  <2> QED
    BY <1>1, <1>b, <2>1
<1> QED
  BY <1>2, <1>3, <1>4, <1>5, <1>6, <1>7, <1>8 DEF Writer

-----------------------------------------------------------------------------
(* The order.                                                              *)

\* Frames the writer thread has yet to write
Coming == Numbers(hand) \cup Numbers(queue)

\* Frames not yet placed need no frame placed before them to wait: within a
\* dispatch in their order, across dispatches in any.
JobsInOrder ==
  /\ \A s \in Sender : Ordered(job[s])
  /\ \A s, t \in Sender : s # t => Clear(job[s], Numbers(job[t]))

\* A sender that writes inline need not wait for what the writer thread has: the
\* backlog was empty when it got the lock, and what joined it since was not
\* placed when the sender's dispatch began.
HolderClear ==
  \A s \in Sender : lock = s /\ pc[s] = "place" => Clear(job[s], Coming)

\* The socket and the batch, the writer's hand, the channel and the senders, in
\* this order, never hold a frame that must come after one behind it.
Order ==
  /\ InOrder(out, Coming \cup Unplaced)
  /\ Clear(hand, Numbers(queue) \cup Unplaced)
  /\ Ordered(queue)
  /\ Clear(queue, Unplaced)
  /\ JobsInOrder
  /\ HolderClear

LEMMA UnplacedMember ==
  ASSUME NEW s \in Sender
  PROVE  Numbers(job[s]) \subseteq Unplaced
  BY DEF Unplaced

\* A frame about to be placed goes before everything else not yet placed.
LEMMA JobShrinks ==
  ASSUME Data, JobsInOrder, NEW s \in Sender, NEW q \in Seq(Frames(Len(sent))),
         job' = [job EXCEPT ![s] = q], UNCHANGED sent, Ordered(q),
         Numbers(q) \subseteq Numbers(job[s]),
         \A L : Clear(job[s], L) => Clear(q, L)
  PROVE  /\ job' \in [Sender -> Seq(Frames(Len(sent)))]
         /\ JobsInOrder'
         /\ Unplaced' \subseteq Unplaced
         /\ \A m \in Unplaced' :
              m \in Numbers(q) \/ \E t \in Sender \ {s} : m \in Numbers(job[t])
<1> DEFINE F == Seq(Frames(Len(sent)))
<1>1. job \in [Sender -> F] /\ q \in F
  BY DEF Data
<1> HIDE DEF F
<1>2. job' \in [Sender -> F] /\ job'[s] = q /\ \A t \in Sender : t # s => job'[t] = job[t]
  BY <1>1
<1>3. \A t \in Sender : Numbers(job'[t]) \subseteq Numbers(job[t])
  BY <1>2
<1>4. JobsInOrder'
  <2>1. ASSUME NEW t \in Sender PROVE Ordered(job'[t])
    BY <1>2 DEF JobsInOrder
  <2>2. ASSUME NEW t \in Sender, NEW u \in Sender, t # u
        PROVE  Clear(job'[t], Numbers(job'[u]))
    <3>1. Clear(job[t], Numbers(job[u]))
      BY <2>2 DEF JobsInOrder
    <3>2. Clear(job[t], Numbers(job'[u]))
      BY <1>3, <3>1, ClearLess
    <3> QED
      BY <1>2, <3>2
  <2> QED
    BY <2>1, <2>2 DEF JobsInOrder
<1>5. ASSUME NEW m \in Unplaced'
      PROVE  m \in Numbers(q) \/ \E t \in Sender \ {s} : m \in Numbers(job[t])
  <2>1. PICK t \in Sender : m \in Numbers(job'[t])
    BY DEF Unplaced, Numbers
  <2> QED
    BY <1>2, <2>1
<1>6. Unplaced' \subseteq Unplaced
  BY <1>3 DEF Unplaced
<1> QED
  BY <1>2, <1>4, <1>5, <1>6 DEF F

LEMMA HeadGoesFirst ==
  ASSUME Data, JobsInOrder, NEW s \in Sender, job[s] # <<>>,
         job' = [job EXCEPT ![s] = Tail(@)], UNCHANGED sent
  PROVE  /\ job' \in [Sender -> Seq(Frames(Len(sent)))]
         /\ JobsInOrder'
         /\ Unplaced' \subseteq Unplaced
         /\ Head(job[s]) \in Frames(Len(sent))
         /\ Head(job[s]).n \in Unplaced
         /\ Head(job[s]).after \cap Unplaced' = {}
         /\ \A t \in Sender \ {s} : job'[t] = job[t]
<1> DEFINE q == Tail(job[s])
           h == Head(job[s])
<1>1. job[s] \in Seq(Frames(Len(sent))) /\ Ordered(job[s])
  BY DEF Data, JobsInOrder
<1>2. /\ q \in Seq(Frames(Len(sent))) /\ h \in Frames(Len(sent))
      /\ Numbers(q) \subseteq Numbers(job[s]) /\ h.n \in Numbers(job[s])
  BY <1>1, NumbersTail
<1>3. /\ Ordered(q) /\ h.after \cap Numbers(q) = {}
      /\ \A L : Clear(job[s], L) => Clear(q, L) /\ h.after \cap L = {}
  BY <1>1, OrderedTail
<1>4. job' = [job EXCEPT ![s] = q]
  OBVIOUS
<1> HIDE DEF q, h
<1>5. /\ job' \in [Sender -> Seq(Frames(Len(sent)))]
      /\ JobsInOrder'
      /\ Unplaced' \subseteq Unplaced
      /\ \A m \in Unplaced' :
              m \in Numbers(q) \/ \E t \in Sender \ {s} : m \in Numbers(job[t])
  BY <1>2, <1>3, <1>4, JobShrinks, Zenon
<1>6. \A t \in Sender \ {s} : h.after \cap Numbers(job[t]) = {}
  BY <1>3 DEF JobsInOrder
<1>7. h.after \cap Unplaced' = {}
  <2> SUFFICES ASSUME NEW m \in Unplaced' PROVE m \notin h.after
    OBVIOUS
  <2>1. m \in Numbers(q) \/ \E t \in Sender \ {s} : m \in Numbers(job[t])
    BY <1>5
  <2> QED
    BY <1>3, <1>6, <2>1
<1>8. h.n \in Unplaced
  BY <1>2, UnplacedMember
<1>9. \A t \in Sender \ {s} : job'[t] = job[t]
  BY <1>4, <1>1 DEF Data
<1> QED
  BY <1>2, <1>5, <1>7, <1>8, <1>9 DEF h

\* deliver_all returns early or late: the rest of its frames is forgotten.
LEMMA JobForgotten ==
  ASSUME Data, JobsInOrder, NEW s \in Sender,
         job' = [job EXCEPT ![s] = <<>>], UNCHANGED sent
  PROVE  /\ job' \in [Sender -> Seq(Frames(Len(sent)))]
         /\ JobsInOrder'
         /\ Unplaced' \subseteq Unplaced
         /\ \A m \in Unplaced' : \E t \in Sender \ {s} : m \in Numbers(job[t])
         /\ \A t \in Sender \ {s} : job'[t] = job[t]
<1> DEFINE q == <<>>
<1>1. /\ q \in Seq(Frames(Len(sent))) /\ Ordered(q) /\ Numbers(q) \subseteq Numbers(job[s])
      /\ \A L : Clear(job[s], L) => Clear(q, L)
  BY EmptyOrdered, NumbersEmpty
<1>2. job' = [job EXCEPT ![s] = q]
  OBVIOUS
<1> HIDE DEF q
<1>3. /\ job' \in [Sender -> Seq(Frames(Len(sent)))]
      /\ JobsInOrder'
      /\ Unplaced' \subseteq Unplaced
      /\ \A m \in Unplaced' :
           m \in Numbers(q) \/ \E t \in Sender \ {s} : m \in Numbers(job[t])
  BY <1>1, <1>2, JobShrinks, Zenon
<1>4. \A t \in Sender \ {s} : job'[t] = job[t]
  BY <1>2 DEF Data
<1>5. Numbers(q) = {}
  BY NumbersEmpty DEF q
<1> QED
  BY <1>3, <1>4, <1>5

LEMMA OrderQuiet ==
  ASSUME Data, Order, queued' \in Int, UNCHANGED <<sent, out, queue, hand, job>>,
         \A t \in Sender : lock' = t /\ pc'[t] = "place"
                             => (lock = t /\ pc[t] = "place") \/ Coming = {}
  PROVE  Data' /\ Order'
<1>1. Data'
  BY DEF Data
<1>2. Coming' = Coming /\ Unplaced' = Unplaced
  BY DEF Coming, Unplaced
<1>3. JobsInOrder'
  BY DEF Order, JobsInOrder
<1>4. HolderClear'
  <2> SUFFICES ASSUME NEW t \in Sender, lock' = t /\ pc'[t] = "place"
               PROVE  Clear(job[t], Coming)
    BY <1>2 DEF HolderClear
  <2>1. CASE lock = t /\ pc[t] = "place"
    BY <2>1 DEF Order, HolderClear
  <2>2. CASE Coming = {}
    BY <2>2 DEF Clear
  <2> QED
    BY <2>1, <2>2
<1> QED
  BY <1>1, <1>2, <1>3, <1>4 DEF Order

\* A sender wrote, or gave frames up.
LEMMA OrderSent ==
  ASSUME Data, Order, queued' \in Int, UNCHANGED <<sent, queue, hand>>,
         job' \in [Sender -> Seq(Frames(Len(sent)))], JobsInOrder',
         Unplaced' \subseteq Unplaced, out' \in Outs(Len(sent)),
         InOrder(out', Coming \cup Unplaced'),
         \A t \in Sender : lock' = t /\ pc'[t] = "place" => Clear(job'[t], Coming)
  PROVE  Data' /\ Order'
<1>1. Data'
  BY DEF Data
<1>2. Coming' = Coming
  BY DEF Coming
<1>3. Numbers(queue) \cup Unplaced' \subseteq Numbers(queue) \cup Unplaced
  OBVIOUS
<1>4. Clear(hand, Numbers(queue) \cup Unplaced')
  BY <1>3, ClearLess DEF Order
<1>5. Clear(queue, Unplaced')
  BY ClearLess DEF Order
<1>6. HolderClear'
  BY <1>2 DEF HolderClear
<1> QED
  BY <1>1, <1>2, <1>4, <1>5, <1>6 DEF Order

\* The writer thread moved frames on, or ended.
LEMMA OrderWriter ==
  ASSUME Data, Order, queued' \in Int, UNCHANGED <<sent, job, pc>>,
         queue' \in Seq(Frames(Len(sent))), hand' \in Seq(Frames(Len(sent))),
         Ordered(queue'), Clear(queue', Unplaced),
         Clear(hand', Numbers(queue') \cup Unplaced),
         out' \in Outs(Len(sent)), InOrder(out', Coming' \cup Unplaced),
         Coming' \subseteq Coming, \A t \in Sender : lock' = t => lock = t
  PROVE  Data' /\ Order'
<1>1. Data'
  BY DEF Data
<1>2. Unplaced' = Unplaced
  BY DEF Unplaced
<1>3. JobsInOrder'
  BY DEF Order, JobsInOrder
<1>4. HolderClear'
  <2> SUFFICES ASSUME NEW t \in Sender, lock' = t /\ pc'[t] = "place"
               PROVE  Clear(job[t], Coming')
    BY DEF HolderClear
  <2>1. Clear(job[t], Coming)
    BY DEF Order, HolderClear
  <2> QED
    BY <2>1, ClearLess
<1> QED
  BY <1>1, <1>2, <1>3, <1>4 DEF Order

LEMMA FreshClear ==
  ASSUME NEW k \in Nat, NEW p \in Seq(Frames(k)), NEW L, \A m \in L : m \notin 1 .. k
  PROVE  Clear(p, L)
<1> SUFFICES ASSUME NEW i \in 1 .. Len(p) PROVE p[i].after \cap L = {}
  BY DEF Clear
<1>1. p[i] \in Frames(k)
  OBVIOUS
<1>2. p[i].after \subseteq 1 .. k
  BY <1>1 DEF Frames
<1> QED
  BY <1>2

LEMMA NewFramesShape ==
  ASSUME Data, NEW kinds \in Seq(Kinds)
  PROVE  /\ NewFrames(kinds) \in Seq(Frames(Len(sent) + Len(kinds)))
         /\ Ordered(NewFrames(kinds))
         /\ Clear(NewFrames(kinds), Unplaced)
         /\ \A m \in Numbers(NewFrames(kinds)) : m \notin 1 .. Len(sent)
<1> DEFINE fs == NewFrames(kinds)
           k == Len(sent) + Len(kinds)
<1>1. Len(sent) \in Nat /\ Len(kinds) \in Nat /\ k \in Nat /\ DOMAIN kinds = 1 .. Len(kinds)
  BY DEF Data
<1>d. DOMAIN fs = 1 .. Len(kinds) /\ fs = [i \in 1 .. Len(kinds) |-> fs[i]]
  BY <1>1, Zenon DEF NewFrames
<1>2. \A i \in 1 .. Len(kinds) :
        /\ fs[i] = [kind |-> kinds[i], n |-> Len(sent) + i,
                    after |-> (1 .. Len(sent) + i - 1) \ Unplaced]
  BY <1>1 DEF NewFrames
<1> HIDE DEF fs
<1>3. ASSUME NEW i \in 1 .. Len(kinds)
      PROVE  /\ fs[i].n = Len(sent) + i
             /\ fs[i].after = (1 .. Len(sent) + i - 1) \ Unplaced
  <2> DEFINE a == (1 .. Len(sent) + i - 1) \ Unplaced
             num == Len(sent) + i
  <2>1. fs[i] = [kind |-> kinds[i], n |-> num, after |-> a]
    BY <1>2
  <2> HIDE DEF a, num
  <2>2. fs[i].n = num /\ fs[i].after = a
    BY <2>1
  <2> QED
    BY <2>2 DEF a, num
<1>4. ASSUME NEW i \in 1 .. Len(kinds) PROVE fs[i] \in Frames(k)
  <2>1. kinds[i] \in Kinds /\ Len(sent) + i \in Nat
    BY <1>1
  <2>2. (1 .. Len(sent) + i - 1) \ Unplaced \in SUBSET (1 .. k)
    BY <1>1
  <2> DEFINE a == (1 .. Len(sent) + i - 1) \ Unplaced
             num == Len(sent) + i
             kd == kinds[i]
             S == SUBSET (1 .. k)
  <2>3. fs[i] = [kind |-> kd, n |-> num, after |-> a]
    BY <1>2
  <2>4. kd \in Kinds /\ num \in Nat /\ a \in S
    BY <2>1, <2>2
  <2> HIDE DEF a, num, kd, S
  <2>5. fs[i] \in [kind : Kinds, n : Nat, after : S]
    BY <2>3, <2>4
  <2> QED
    BY <2>5 DEF Frames, S
<1>5. fs \in [1 .. Len(kinds) -> Frames(k)]
  BY <1>d, <1>4
<1>6. fs \in Seq(Frames(k)) /\ Len(fs) = Len(kinds)
  BY <1>1, <1>5
<1>7. Ordered(fs)
  BY <1>1, <1>3, <1>6 DEF Ordered
<1>8. Clear(fs, Unplaced)
  BY <1>3, <1>6 DEF Clear
<1>9. ASSUME NEW m \in Numbers(fs) PROVE m \notin 1 .. Len(sent)
  <2>1. PICK i \in 1 .. Len(fs) : fs[i].n = m
    BY <1>6, NumbersElim
  <2> QED
    BY <1>1, <1>3, <1>6, <2>1
<1> QED
  BY <1>6, <1>7, <1>8, <1>9 DEF fs

\* A dispatch begins.
LEMMA OrderTake ==
  ASSUME Control, Data, Order, queued' \in Int, NEW s \in Sender,
         NEW kinds \in Seq(Kinds), NEW at, Take(s, kinds, at)
  PROVE  Data' /\ Order'
<1> DEFINE fs == NewFrames(kinds)
           k == Len(sent)
           l == Len(sent) + Len(kinds)
           F == Seq(Frames(k))
           G == Seq(Frames(l))
<1>1. /\ pc[s] = "idle" /\ job' = [job EXCEPT ![s] = fs] /\ sent' = sent \o kinds
      /\ pc' = [pc EXCEPT ![s] = at]
      /\ UNCHANGED <<out, lock, queue, hand>>
  BY DEF Take
<1>2. fs \in G /\ Ordered(fs) /\ Clear(fs, Unplaced) /\ \A m \in Numbers(fs) : m \notin 1 .. k
  BY NewFramesShape
<1>3. k \in Nat /\ l \in Nat /\ k <= l /\ sent' \in Seq(Kinds) /\ Len(sent') = l
  BY <1>1 DEF Data
<1>4. Frames(k) \subseteq Frames(l)
  BY <1>3, FramesGrow
<1>5. F \subseteq G
  BY <1>4, SeqGrows
<1>6. job \in [Sender -> F] /\ queue \in F /\ hand \in F
  BY DEF Data
<1>7. out \in Outs(l) /\ out.wire \in F /\ out.batch \in F
  <2>1. out.wire \in F /\ out.batch \in F /\ out.closed \in BOOLEAN /\ out \in Outs(k)
    BY <1>3, OutTypes DEF Data
  <2>2. out \in [wire : F, batch : F, closed : BOOLEAN]
    BY <2>1 DEF Outs
  <2> HIDE DEF F, G
  <2>3. out \in [wire : G, batch : G, closed : BOOLEAN]
    BY <1>5, <2>2
  <2> QED
    BY <2>1, <2>3 DEF Outs, G
<1> HIDE DEF fs, F, G
<1>8. /\ job' \in [Sender -> G] /\ job'[s] = fs
      /\ \A t \in Sender \ {s} : job'[t] = job[t] /\ job[t] \in F
  BY <1>1, <1>2, <1>5, <1>6
<1>9. Data'
  BY <1>1, <1>3, <1>5, <1>6, <1>7, <1>8 DEF Data, G
<1>10. ASSUME NEW p \in F PROVE Clear(p, Numbers(fs))
  BY <1>2, <1>3, FreshClear DEF F
<1>11. ASSUME NEW m \in Unplaced' PROVE m \in Unplaced \cup Numbers(fs)
  <2>1. PICK t \in Sender : m \in Numbers(job'[t])
    BY DEF Unplaced, Numbers
  <2>2. CASE t = s
    BY <1>8, <2>1, <2>2
  <2>3. CASE t # s
    BY <1>8, <2>1, <2>3, UnplacedMember
  <2> QED
    BY <2>2, <2>3
<1>12. ASSUME NEW p \in F, NEW L, Clear(p, L \cup Unplaced)
       PROVE  Clear(p, L \cup Unplaced')
  <2>1. Clear(p, Numbers(fs))
    BY <1>10
  <2>2. \A i \in 1 .. Len(p) :
          p[i].after \cap (L \cup Unplaced) = {} /\ p[i].after \cap Numbers(fs) = {}
    BY <1>12, <2>1 DEF Clear
  <2>3. \A i \in 1 .. Len(p) : p[i].after \cap (L \cup Unplaced') = {}
    BY <1>11, <2>2
  <2> QED
    BY <2>3 DEF Clear
<1>13. Coming' = Coming
  BY <1>1 DEF Coming
<1>14. InOrder(out, Coming \cup Unplaced')
  BY <1>7, <1>12, Zenon DEF Order, InOrder
<1>15. Clear(hand, Numbers(queue) \cup Unplaced')
  BY <1>6, <1>12, Zenon DEF Order
<1>16. Clear(queue, Unplaced')
  <2>1. Clear(queue, {} \cup Unplaced)
    BY DEF Order
  <2>2. Clear(queue, {} \cup Unplaced')
    BY <1>6, <1>12, <2>1, Zenon
  <2> QED
    BY <2>2
<1>17. JobsInOrder'
  <2>1. ASSUME NEW t \in Sender PROVE Ordered(job'[t])
    BY <1>2, <1>8 DEF Order, JobsInOrder
  <2>2. ASSUME NEW t \in Sender, NEW u \in Sender, t # u
        PROVE  Clear(job'[t], Numbers(job'[u]))
    <3>1. CASE t = s
      <4>1. job'[t] = fs /\ job'[u] = job[u]
        BY <1>8, <2>2, <3>1
      <4>2. Numbers(job[u]) \subseteq Unplaced
        BY UnplacedMember
      <4> QED
        BY <1>2, <4>1, <4>2, ClearLess
    <3>2. CASE u = s
      BY <1>8, <1>10, <2>2, <3>2
    <3>3. CASE t # s /\ u # s
      BY <1>8, <2>2, <3>3 DEF Order, JobsInOrder
    <3> QED
      BY <3>1, <3>2, <3>3
  <2> QED
    BY <2>1, <2>2 DEF JobsInOrder
<1>18. HolderClear'
  <2> SUFFICES ASSUME NEW t \in Sender, lock = t /\ pc'[t] = "place"
               PROVE  Clear(job'[t], Coming)
    BY <1>1, <1>13 DEF HolderClear
  <2>1. t # s
    BY <1>1 DEF Control
  <2>2. pc[t] = "place" /\ job'[t] = job[t]
    BY <1>1, <1>8, <2>1 DEF Control
  <2> QED
    BY <2>2 DEF Order, HolderClear
<1> QED
  BY <1>1, <1>9, <1>13, <1>14, <1>15, <1>16, <1>17, <1>18 DEF Order

\* A dispatch returns: its frames are forgotten and it no longer has the lock.
LEMMA OrderReturn ==
  ASSUME Control, Data, Order, queued' \in Int, NEW s \in Sender, Return(s),
         UNCHANGED <<sent, queue, hand>>, out' \in Outs(Len(sent)),
         \A L : (L \subseteq Coming \cup Unplaced
                  /\ \A m \in L : m \in Coming \/ \E t \in Sender \ {s} : m \in Numbers(job[t]))
                => InOrder(out', L)
  PROVE  Data' /\ Order'
<1>1. /\ lock' # s /\ (\A t \in Sender : lock' = t => lock = t)
      /\ job' = [job EXCEPT ![s] = <<>>]
      /\ \A t \in Sender \ {s} : pc'[t] = pc[t]
  BY TransportAssumption DEF Return, Control
<1>2. /\ job' \in [Sender -> Seq(Frames(Len(sent)))]
      /\ JobsInOrder'
      /\ Unplaced' \subseteq Unplaced
      /\ \A m \in Unplaced' : \E t \in Sender \ {s} : m \in Numbers(job[t])
      /\ \A t \in Sender \ {s} : job'[t] = job[t]
  BY <1>1, JobForgotten, Zenon DEF Order
<1>3. InOrder(out', Coming \cup Unplaced')
  <2>1. Coming \cup Unplaced' \subseteq Coming \cup Unplaced
    BY <1>2
  <2>2. \A m \in Coming \cup Unplaced' :
           m \in Coming \/ \E t \in Sender \ {s} : m \in Numbers(job[t])
    BY <1>2
  <2> QED
    BY <2>1, <2>2
<1>4. ASSUME NEW t \in Sender, lock' = t /\ pc'[t] = "place" PROVE Clear(job'[t], Coming)
  <2>1. t # s /\ lock = t /\ pc[t] = "place" /\ job'[t] = job[t]
    BY <1>1, <1>2, <1>4
  <2> QED
    BY <2>1 DEF Order, HolderClear
<1> QED
  BY <1>2, <1>3, <1>4, OrderSent

\* A value is written inline.
LEMMA OrderPlaceInline ==
  ASSUME Control, Data, Order, queued' \in Int, NEW s \in Sender, PlaceInline(s)
  PROVE  Data' /\ Order'
<1> DEFINE f == Head(job[s])
           L == Coming \cup Unplaced
           M == {m \in L : m \notin f.after}
           k == Len(sent)
<1>1. PICK r \in FlushIfFull(WriteBatched(out, f)) :
        /\ out' = r.out
        /\ IF r.ok THEN job' = [job EXCEPT ![s] = Tail(@)] /\ UNCHANGED <<lock, pc>>
           ELSE Return(s)
  BY DEF PlaceInline, Try
<1>2. /\ pc[s] = "place" /\ job[s] # <<>> /\ lock = s
      /\ UNCHANGED <<queue, hand, sent>>
  BY DEF PlaceInline, Places, envVars
<1>3. k \in Nat /\ out \in Outs(k) /\ job[s] \in Seq(Frames(k))
  BY DEF Data
<1>4. f \in Frames(k) /\ f.n \in Numbers(job[s])
  BY <1>2, <1>3, NumbersTail
<1>5. f.n \in L
  BY <1>4, UnplacedMember
<1>6. f.after \cap Coming = {}
  <2>1. Ordered(job[s]) /\ Clear(job[s], Coming)
    BY <1>2 DEF Order, JobsInOrder, HolderClear
  <2> QED
    BY <1>2, <1>3, <2>1, OrderedTail, Zenon
<1>7. \A t \in Sender \ {s} : f.after \cap Numbers(job[t]) = {}
  <2> SUFFICES ASSUME NEW t \in Sender \ {s} PROVE f.after \cap Numbers(job[t]) = {}
    OBVIOUS
  <2>1. Ordered(job[s]) /\ Clear(job[s], Numbers(job[t]))
    BY DEF Order, JobsInOrder
  <2> QED
    BY <1>2, <1>3, <2>1, OrderedTail, Zenon
<1>8. InOrder(out, L) /\ M \subseteq L /\ f.after \cap M = {}
  BY DEF Order
<1> HIDE DEF f, L, M
<1>9. WriteBatched(out, f) \in Outs(k) /\ InOrder(WriteBatched(out, f), M)
  BY <1>3, <1>4, <1>5, <1>8, BatchKeeps
<1>10. Kept(r, k, M)
  BY <1>3, <1>9, FlushIfFullKeeps
<1>11. out' \in Outs(k) /\ InOrder(out', M) /\ r.ok \in BOOLEAN
  BY <1>1, <1>10 DEF Kept
<1>12. CASE r.ok
  <2>1. job' = [job EXCEPT ![s] = Tail(@)] /\ UNCHANGED <<lock, pc>>
    BY <1>1, <1>12
  <2>2. /\ job' \in [Sender -> Seq(Frames(Len(sent)))]
        /\ JobsInOrder'
        /\ Unplaced' \subseteq Unplaced
        /\ f.after \cap Unplaced' = {}
        /\ \A t \in Sender \ {s} : job'[t] = job[t]
    BY <1>2, <2>1, HeadGoesFirst, Zenon DEF Order, f
  <2>3. Coming \cup Unplaced' \subseteq M
    BY <1>6, <2>2 DEF M, L
  <2>4. InOrder(out', Coming \cup Unplaced')
    BY <1>11, <2>3, InOrderLess
  <2>5. ASSUME NEW t \in Sender, lock' = t /\ pc'[t] = "place" PROVE Clear(job'[t], Coming)
    <3>1. t = s
      BY <1>2, <2>1, <2>5
    <3>2. Clear(job[s], Coming) /\ Ordered(job[s])
      BY <1>2 DEF Order, HolderClear, JobsInOrder
    <3>3. Clear(Tail(job[s]), Coming)
      BY <1>2, <1>3, <3>2, OrderedTail, Zenon
    <3>4. job'[s] = Tail(job[s])
      BY <2>1 DEF Control
    <3> QED
      BY <3>1, <3>3, <3>4
  <2> QED
    BY <1>2, <1>11, <2>2, <2>4, <2>5, OrderSent, Zenon
<1>13. CASE ~r.ok
  <2>1. Return(s)
    BY <1>1, <1>13
  <2>2. ASSUME NEW K, K \subseteq Coming \cup Unplaced,
               \A m \in K : m \in Coming \/ \E t \in Sender \ {s} : m \in Numbers(job[t])
        PROVE  InOrder(out', K)
    <3>1. K \subseteq M
      BY <1>6, <1>7, <2>2 DEF M, L
    <3> QED
      BY <1>11, <3>1, InOrderLess
  <2> QED
    BY <1>2, <1>11, <2>1, <2>2, OrderReturn, Zenon
<1> QED
  BY <1>11, <1>12, <1>13

\* A flush by a sender, and its return if the flush failed or was the last
LEMMA OrderFlush ==
  ASSUME Control, Data, Order, queued' \in Int, NEW s \in Sender,
         Unlock(s) \/ Finish(s)
  PROVE  Data' /\ Order'
<1> DEFINE L == Coming \cup Unplaced
           k == Len(sent)
<1>1. k \in Nat /\ out \in Outs(k) /\ InOrder(out, L)
  BY DEF Data, Order
<1>2. UNCHANGED <<queue, hand, sent>> /\ pc[s] = "place"
  BY DEF Unlock, Finish, Places, envVars
<1>3. PICK r \in Flush(out) \cup {[ok |-> TRUE, out |-> out]} :
        /\ out' = r.out
        /\ (lock' = Nobody /\ UNCHANGED <<pc, job>>) \/ Return(s)
  BY DEF Unlock, Finish, Try, sendVars
<1> HIDE DEF L
<1>4. Kept(r, k, L)
  <2>1. CASE r \in Flush(out)
    BY <1>1, <2>1, FlushKeeps
  <2>2. CASE r = [ok |-> TRUE, out |-> out]
    BY <1>1, <2>2 DEF Kept
  <2> QED
    BY <2>1, <2>2
<1>5. out' \in Outs(k) /\ InOrder(out', L)
  BY <1>3, <1>4 DEF Kept
<1>6. CASE lock' = Nobody /\ UNCHANGED <<pc, job>>
  <2>1. JobsInOrder' /\ Unplaced' = Unplaced /\ job' \in [Sender -> Seq(Frames(Len(sent)))]
    BY <1>6 DEF Order, JobsInOrder, Unplaced, Data
  <2>2. InOrder(out', Coming \cup Unplaced')
    BY <1>5, <2>1 DEF L
  <2>3. \A t \in Sender : lock' # t
    BY <1>6, TransportAssumption
  <2> QED
    BY <1>2, <1>5, <2>1, <2>2, <2>3, OrderSent
<1>7. CASE Return(s)
  <2>1. \A K : K \subseteq Coming \cup Unplaced => InOrder(out', K)
    BY <1>5, InOrderLess DEF L
  <2> QED
    BY <1>2, <1>5, <1>7, <2>1, OrderReturn
<1> QED
  BY <1>3, <1>6, <1>7

\* A frame joins the channel, or is given up.
LEMMA OrderEnqueue ==
  ASSUME Control, Data, Order, queued' \in Int, NEW s \in Sender,
         TrySend(s) \/ Undo(s)
  PROVE  Data' /\ Order'
<1> DEFINE f == Head(job[s])
           F == Frames(Len(sent))
<1>1. /\ pc[s] \in {"send", "undo"} /\ UNCHANGED <<out, lock, hand, sent>>
      /\ \A t \in Sender \ {s} : pc'[t] = pc[t]
  BY DEF TrySend, Undo, envVars, Control
<1>2. job[s] # <<>> /\ lock # s
  BY <1>1 DEF Control
<1>3. \/ UNCHANGED <<job, queue>>
      \/ job' = [job EXCEPT ![s] = Tail(@)] /\ UNCHANGED queue
      \/ job' = [job EXCEPT ![s] = Tail(@)] /\ queue' = Append(queue, f)
  BY DEF TrySend, Undo
<1>4. CASE UNCHANGED <<job, queue>>
  BY <1>1, <1>2, <1>4, OrderQuiet, Zenon
<1>5. ASSUME job' = [job EXCEPT ![s] = Tail(@)]
      PROVE  /\ job' \in [Sender -> Seq(F)]
             /\ JobsInOrder'
             /\ Unplaced' \subseteq Unplaced
             /\ f \in F
             /\ f.n \in Unplaced
             /\ f.after \cap Unplaced' = {}
             /\ \A t \in Sender \ {s} : job'[t] = job[t]
  BY <1>1, <1>2, <1>5, HeadGoesFirst, Zenon DEF Order
<1>6. CASE job' = [job EXCEPT ![s] = Tail(@)] /\ UNCHANGED queue
  <2>1. Coming \cup Unplaced' \subseteq Coming \cup Unplaced
    BY <1>5, <1>6
  <2>2. InOrder(out', Coming \cup Unplaced')
    BY <1>1, <2>1, InOrderLess DEF Order
  <2>3. ASSUME NEW t \in Sender, lock' = t /\ pc'[t] = "place" PROVE Clear(job'[t], Coming)
    BY <1>1, <1>2, <1>5, <1>6, <2>3, Zenon DEF Order, HolderClear
  <2>4. out' \in Outs(Len(sent))
    BY <1>1 DEF Data
  <2> QED
    BY <1>1, <1>5, <1>6, <2>2, <2>3, <2>4, OrderSent, Zenon
<1>7. CASE job' = [job EXCEPT ![s] = Tail(@)] /\ queue' = Append(queue, f)
  <2> HIDE DEF f
  <2>1. queue \in Seq(F)
    BY DEF Data
  <2>2. Numbers(queue') = Numbers(queue) \cup {f.n} /\ queue' \in Seq(F)
        /\ queue' = queue \o <<f>>
    <3>1. f \in F
      BY <1>5, <1>7, Zenon
    <3>a. Extends(queue', queue, f)
      BY <1>7 DEF Extends
    <3>2. Numbers(queue') = Numbers(queue) \cup {f.n}
      BY <2>1, <3>1, <3>a, NumbersAppend
    <3>3. Append(queue, f) = queue \o <<f>> /\ Append(queue, f) \in Seq(F)
      BY <2>1, <3>1, AppendIsConcat, Zenon
    <3> QED
      BY <1>7, <3>2, <3>3
  <2>3. /\ <<f>> \in Seq(F) /\ Ordered(<<f>>) /\ Numbers(<<f>>) = {f.n}
        /\ Clear(<<f>>, Unplaced')
    BY <1>5, <1>7, SingleOrdered
  <2>4. Data'
    BY <1>1, <1>5, <1>7, <2>2 DEF Data
  <2>5. Coming' = Coming \cup {f.n}
    BY <1>1, <2>2 DEF Coming
  <2>6. InOrder(out', Coming' \cup Unplaced')
    <3>1. Coming' \cup Unplaced' \subseteq Coming \cup Unplaced
      BY <1>5, <1>7, <2>5, Zenon
    <3> QED
      BY <1>1, <3>1, InOrderLess, Zenon DEF Order
  <2>7. Clear(hand, Numbers(queue') \cup Unplaced')
    <3>1. Numbers(queue') \cup Unplaced' \subseteq Numbers(queue) \cup Unplaced
      BY <1>5, <1>7, <2>2, Zenon
    <3> QED
      BY <3>1, ClearLess DEF Order
  <2>8. Ordered(queue')
    <3>1. {f.n} \subseteq Unplaced
      BY <1>5, <1>7, Zenon
    <3>2. Clear(queue, Numbers(<<f>>)) /\ Ordered(queue)
      BY <2>3, <3>1, ClearLess DEF Order
    <3>3. Ordered(queue \o <<f>>)
      BY <2>1, <2>3, <3>2, OrderedConcat, Zenon
    <3> QED
      BY <2>2, <3>3
  <2>9. Clear(queue', Unplaced')
    <3>1. Clear(queue, Unplaced')
      BY <1>5, <1>7, ClearLess DEF Order
    <3>2. Clear(queue \o <<f>>, Unplaced')
      BY <2>1, <2>3, <3>1, ClearConcat, Zenon
    <3> QED
      BY <2>2, <3>2
  <2>10. HolderClear'
    <3> SUFFICES ASSUME NEW t \in Sender, lock' = t /\ pc'[t] = "place"
                 PROVE  Clear(job'[t], Coming')
      BY DEF HolderClear
    <3>1. t # s /\ lock = t /\ pc[t] = "place" /\ job'[t] = job[t]
      BY <1>1, <1>2, <1>5, <1>7
    <3>2. Clear(job[t], Coming) /\ Clear(job[t], Numbers(job[s]))
      BY <3>1, Zenon DEF Order, HolderClear, JobsInOrder
    <3>3. f.n \in Numbers(job[s])
      BY <1>2, NumbersTail DEF Data, f
    <3>4. Clear(job[t], Coming \cup {f.n})
      BY <3>2, <3>3, Zenon DEF Clear
    <3> QED
      BY <2>5, <3>1, <3>4
  <2> QED
    BY <1>1, <1>5, <1>7, <2>4, <2>6, <2>7, <2>8, <2>9, <2>10, Zenon DEF Order
<1> QED
  BY <1>3, <1>4, <1>6, <1>7

\* The writer thread takes a frame off the channel, or ends.
LEMMA OrderRecv ==
  ASSUME Control, Data, Order, queued' \in Int, Recv
  PROVE  Data' /\ Order'
<1> DEFINE F == Frames(Len(sent))
<1>1. wpc = "recv" /\ hand = <<>> /\ UNCHANGED <<out, sent, job, pc>>
  BY DEF Recv, Control, sendVars, envVars
<1>2. queue \in Seq(F) /\ out \in Outs(Len(sent))
  BY DEF Data
<1>3. \A t \in Sender : lock' = t => lock = t
  BY TransportAssumption DEF Recv, End
<1>4. CASE queue # <<>>
  <2> DEFINE f == Head(queue)
  <2>1. hand' = <<f>> /\ queue' = Tail(queue)
    BY <1>4 DEF Recv
  <2>2. /\ queue' \in Seq(F) /\ f \in F /\ Numbers(queue') \subseteq Numbers(queue)
        /\ f.n \in Numbers(queue)
    BY <1>2, <1>4, <2>1, NumbersTail
  <2>3. Ordered(queue) /\ Clear(queue, Unplaced)
    BY DEF Order
  <2>4. /\ Ordered(queue') /\ f.after \cap Numbers(queue') = {}
        /\ Clear(queue', Unplaced) /\ f.after \cap Unplaced = {}
    BY <1>2, <1>4, <2>1, <2>3, OrderedTail
  <2> HIDE DEF f
  <2>5. f.after \cap (Numbers(queue') \cup Unplaced) = {}
    BY <2>4
  <2>6. hand' \in Seq(F) /\ Numbers(hand') = {f.n}
        /\ Clear(hand', Numbers(queue') \cup Unplaced)
    BY <2>1, <2>2, <2>5, SingleOrdered
  <2>7. Coming' \subseteq Coming
    BY <2>2, <2>6 DEF Coming
  <2>8. Coming' \cup Unplaced \subseteq Coming \cup Unplaced
    BY <2>7
  <2>9. InOrder(out', Coming' \cup Unplaced)
    BY <1>1, <2>8, InOrderLess DEF Order
  <2> QED
    BY <1>1, <1>2, <1>3, <2>2, <2>4, <2>6, <2>7, <2>9, OrderWriter, Zenon
<1>5. CASE queue = <<>>
  <2>1. UNCHANGED <<queue, hand>>
    BY <1>5 DEF Recv, End
  <2> QED
    BY <1>1, <1>3, <2>1, OrderQuiet
<1> QED
  BY <1>4, <1>5

\* The writer thread has written or flushed: what is left of the channel follows.
LEMMA OrderWritten ==
  ASSUME Control, Data, Order, queued' \in Int, UNCHANGED <<sent, job, pc>>,
         hand' = <<>>, queue' \in Seq(Frames(Len(sent))), Ordered(queue'),
         Clear(queue', Unplaced), Numbers(queue') \subseteq Numbers(queue),
         NEW r, Kept(r, Len(sent), Numbers(queue') \cup Unplaced), out' = r.out,
         \A t \in Sender : lock' = t => lock = t
  PROVE  Data' /\ Order'
<1>1. /\ hand' \in Seq(Frames(Len(sent))) /\ Numbers(hand') = {}
      /\ Clear(hand', Numbers(queue') \cup Unplaced)
  BY EmptyOrdered, NumbersEmpty
<1>2. Coming' = Numbers(queue')
  BY <1>1 DEF Coming
<1>3. Coming' \subseteq Coming
  BY <1>2 DEF Coming
<1>4. out' \in Outs(Len(sent)) /\ InOrder(out', Coming' \cup Unplaced)
  BY <1>2 DEF Kept
<1> QED
  BY <1>1, <1>3, <1>4, OrderWriter

\* The end of the thread empties the channel.
LEMMA EndEmpties ==
  ASSUME End
  PROVE  /\ queue' = <<>> /\ Ordered(queue') /\ Numbers(queue') = {}
         /\ \A L : Clear(queue', L)
         /\ queue' \in Seq(Frames(Len(sent)))
  BY EmptyOrdered, NumbersEmpty DEF End

LEMMA KeptLess ==
  ASSUME NEW r, NEW k, NEW L, NEW M, M \subseteq L, Kept(r, k, L)
  PROVE  Kept(r, k, M)
  BY InOrderLess DEF Kept

LEMMA OrderWrite ==
  ASSUME Control, Data, Order, queued' \in Int, Write
  PROVE  Data' /\ Order'
<1> DEFINE f == hand[1]
           k == Len(sent)
           L == Coming \cup Unplaced
           M == Numbers(queue) \cup Unplaced
<1>1. wpc = "write" /\ Len(hand) = 1 /\ hand' = <<>> /\ UNCHANGED <<sent, job, pc>>
  BY DEF Write, Control, sendVars, envVars
<1>2. PICK r \in WriteOne(out, f) :
        /\ out' = r.out
        /\ (UNCHANGED <<queue, lock>>) \/ End
  BY DEF Write
<1>3. /\ k \in Nat /\ out \in Outs(k) /\ hand \in Seq(Frames(k)) /\ queue \in Seq(Frames(k))
      /\ 1 \in 1 .. Len(hand)
  BY <1>1 DEF Data
<1>4. f \in Frames(k) /\ f.n \in Numbers(hand) /\ f.after \cap M = {}
  <2>1. Clear(hand, M)
    BY DEF Order
  <2> QED
    BY <1>3, <2>1, NumbersMember DEF Clear
<1>5. InOrder(out, L) /\ f.n \in L /\ M \subseteq L
  BY <1>4 DEF Order, Coming
<1> HIDE DEF f, L, M
<1>6. Kept(r, k, M)
  BY <1>2, <1>3, <1>4, <1>5, WriteOneKeeps
<1>7. CASE UNCHANGED <<queue, lock>>
  <2>1. /\ queue' \in Seq(Frames(k)) /\ Ordered(queue') /\ Clear(queue', Unplaced)
        /\ Numbers(queue') = Numbers(queue)
    BY <1>3, <1>7 DEF Order
  <2>2. Kept(r, k, Numbers(queue') \cup Unplaced)
    BY <1>6, <2>1 DEF M
  <2> QED
    BY <1>1, <1>2, <1>7, <2>1, <2>2, OrderWritten, Zenon
<1>8. CASE End
  <2>1. /\ queue' \in Seq(Frames(k)) /\ Ordered(queue') /\ Clear(queue', Unplaced)
        /\ Numbers(queue') = {}
    BY <1>8, EndEmpties
  <2>2. Kept(r, k, Numbers(queue') \cup Unplaced)
    BY <1>6, <2>1, KeptLess DEF M
  <2>3. \A t \in Sender : lock' = t => lock = t
    BY <1>8, TransportAssumption DEF End
  <2> QED
    BY <1>1, <1>2, <2>1, <2>2, <2>3, OrderWritten
<1> QED
  BY <1>2, <1>7, <1>8

LEMMA OrderDrain ==
  ASSUME Control, Data, Order, queued' \in Int, Drain
  PROVE  Data' /\ Order'
<1> DEFINE f == Head(queue)
           k == Len(sent)
           L == Coming \cup Unplaced
           M == Numbers(Tail(queue)) \cup Unplaced
<1>1. /\ wpc = "drain" /\ hand = <<>> /\ hand' = <<>> /\ UNCHANGED <<sent, job, pc>>
      /\ queue # <<>>
  BY DEF Drain, Control, sendVars, envVars
<1>2. PICK r \in UNION {IF w.ok THEN FlushIfFull(w.out) ELSE {w} : w \in WriteOne(out, f)} :
        /\ out' = r.out
        /\ (queue' = Tail(queue) /\ UNCHANGED lock) \/ End
  BY DEF Drain
<1>3. PICK w \in WriteOne(out, f) : r \in (IF w.ok THEN FlushIfFull(w.out) ELSE {w})
  BY <1>2
<1>4. /\ k \in Nat /\ out \in Outs(k) /\ queue \in Seq(Frames(k))
      /\ Ordered(queue) /\ Clear(queue, Unplaced)
  BY DEF Data, Order
<1>5. /\ f \in Frames(k) /\ f.n \in Numbers(queue) /\ Tail(queue) \in Seq(Frames(k))
      /\ Numbers(Tail(queue)) \subseteq Numbers(queue)
  BY <1>1, <1>4, NumbersTail
<1>6. /\ Ordered(Tail(queue)) /\ f.after \cap Numbers(Tail(queue)) = {}
      /\ Clear(Tail(queue), Unplaced) /\ f.after \cap Unplaced = {}
  BY <1>1, <1>4, OrderedTail
<1>7. InOrder(out, L) /\ f.n \in L /\ M \subseteq L /\ f.after \cap M = {}
  BY <1>5, <1>6, Zenon DEF Order, Coming
<1> HIDE DEF f, L, M
<1>8. Kept(w, k, M)
  BY <1>3, <1>4, <1>5, <1>7, WriteOneKeeps
<1>9. Kept(r, k, M)
  <2>1. CASE w.ok
    BY <1>3, <1>4, <1>8, <2>1, FlushIfFullKeeps DEF Kept
  <2>2. CASE ~w.ok
    BY <1>3, <1>8, <2>2
  <2> QED
    BY <2>1, <2>2
<1>10. CASE queue' = Tail(queue) /\ UNCHANGED lock
  <2>1. Kept(r, k, Numbers(queue') \cup Unplaced)
    BY <1>9, <1>10 DEF M
  <2> QED
    BY <1>1, <1>2, <1>5, <1>6, <1>10, <2>1, OrderWritten, Zenon
<1>11. CASE End
  <2>1. /\ queue' \in Seq(Frames(k)) /\ Ordered(queue') /\ Clear(queue', Unplaced)
        /\ Numbers(queue') = {}
    BY <1>11, EndEmpties
  <2>2. Kept(r, k, Numbers(queue') \cup Unplaced)
    BY <1>9, <2>1, KeptLess, Zenon DEF M
  <2>3. \A t \in Sender : lock' = t => lock = t
    BY <1>11, TransportAssumption DEF End
  <2> QED
    BY <1>1, <1>2, <2>1, <2>2, <2>3, OrderWritten, Zenon
<1> QED
  BY <1>2, <1>10, <1>11

LEMMA OrderRest ==
  ASSUME Control, Data, Order, queued' \in Int, Rest
  PROVE  Data' /\ Order'
<1> DEFINE k == Len(sent)
           L == Coming \cup Unplaced
<1>1. /\ hand' = <<>> /\ UNCHANGED <<sent, job, pc>> /\ queue = <<>> /\ queue' = <<>>
      /\ \A t \in Sender : lock' = t => lock = t
  BY TransportAssumption DEF Rest, End, Control, sendVars, envVars
<1>2. PICK r \in Flush(out) : out' = r.out
  BY DEF Rest
<1>3. k \in Nat /\ out \in Outs(k) /\ InOrder(out, L)
  BY DEF Data, Order
<1> HIDE DEF L
<1>4. Kept(r, k, L)
  BY <1>3, FlushKeeps
<1>5. /\ queue' \in Seq(Frames(k)) /\ Ordered(queue') /\ Clear(queue', Unplaced)
      /\ Numbers(queue') = {}
  BY <1>1, EmptyOrdered, NumbersEmpty
<1>6. Kept(r, k, Numbers(queue') \cup Unplaced)
  BY <1>4, <1>5, KeptLess DEF L
<1> QED
  BY <1>1, <1>2, <1>5, <1>6, OrderWritten, Zenon

LEMMA OrderPing ==
  ASSUME Control, Data, Order, queued' \in Int, Ping
  PROVE  Data' /\ Order'
<1>1. /\ hand' = hand /\ hand = <<>> /\ UNCHANGED <<out, sent, job, pc>>
      /\ UNCHANGED queue \/ End
      /\ \A t \in Sender : lock' = t => lock = t
  BY TransportAssumption DEF Ping, End, Control, sendVars, envVars
<1>2. CASE UNCHANGED queue
  BY <1>1, <1>2, OrderQuiet
<1>3. CASE End
  <2> DEFINE r == [ok |-> TRUE, out |-> out]
  <2>1. /\ queue' \in Seq(Frames(Len(sent))) /\ Ordered(queue') /\ Clear(queue', Unplaced)
        /\ Numbers(queue') = {}
    BY <1>3, EndEmpties
  <2>2. r.ok = TRUE /\ r.out = out
    OBVIOUS
  <2> HIDE DEF r
  <2>3. Kept(r, Len(sent), Coming \cup Unplaced)
    BY <2>2, Zenon DEF Kept, Data, Order
  <2>4. Kept(r, Len(sent), Numbers(queue') \cup Unplaced)
    BY <2>1, <2>3, KeptLess
  <2> QED
    BY <1>1, <2>1, <2>2, <2>4, OrderWritten
<1> QED
  BY <1>1, <1>2, <1>3

-----------------------------------------------------------------------------
(* The invariant and the theorems.                                         *)

TransportInv == Control /\ Data /\ QueuedExact /\ Order

LEMMA TransportInvInit == Init => TransportInv
<1> SUFFICES ASSUME Init PROVE TransportInv
  OBVIOUS
<1>1. Control
  BY ControlInit
<1>2. Len(sent) = 0 /\ sent \in Seq(Kinds)
  BY DEF Init
<1>3. /\ out = [wire |-> <<>>, batch |-> <<>>, closed |-> FALSE]
      /\ queue = <<>> /\ hand = <<>> /\ job = [s \in Sender |-> <<>>] /\ queued = 0
      /\ pc = [s \in Sender |-> "idle"] /\ lock = Nobody
  BY DEF Init
<1>4. out \in Outs(Len(sent))
  <2> DEFINE S == Seq(Frames(Len(sent)))
  <2>1. <<>> \in S
    OBVIOUS
  <2> HIDE DEF S
  <2>2. out \in [wire : S, batch : S, closed : BOOLEAN]
    BY <1>3, <2>1
  <2> QED
    BY <2>2 DEF Outs, S
<1>5. Data
  BY <1>2, <1>3, <1>4 DEF Data
<1>6. QueuedExact
  <2>1. Sending = {}
    BY <1>3 DEF Sending
  <2>2. Cardinality(Sending) = 0
    BY <2>1, FS_EmptySet
  <2> QED
    BY <1>3, <2>2 DEF QueuedExact, Sending
<1>7. Order
  <2>1. InOrder(out, Coming \cup Unplaced)
    <3>1. out.wire = <<>> /\ out.batch = <<>>
      BY <1>3
    <3> QED
      BY <3>1, EmptyOrdered DEF InOrder
  <2>2. JobsInOrder
    BY <1>3, EmptyOrdered DEF JobsInOrder
  <2>3. HolderClear
    BY <1>3, TransportAssumption DEF HolderClear
  <2> QED
    BY <1>3, <2>1, <2>2, <2>3, EmptyOrdered DEF Order
<1> QED
  BY <1>1, <1>5, <1>6, <1>7 DEF TransportInv

\* The load of `queued` in the guard of deliver_all is what makes the inline path
\* safe: zero means an empty channel and an empty hand.
LEMMA OrderLoad ==
  ASSUME Control, Data, QueuedExact, Order, queued' \in Int, NEW s \in Sender, Load(s)
  PROVE  Data' /\ Order'
<1>1. /\ UNCHANGED <<sent, out, queue, hand, job>>
      /\ lock' = IF queued = 0 THEN s ELSE Nobody
  BY DEF Load, envVars
<1>2. ASSUME queued = 0 PROVE Coming = {}
  <2>1. Len(queue) \in Nat /\ Len(hand) \in Nat /\ queue \in Seq(Frames(Len(sent)))
        /\ hand \in Seq(Frames(Len(sent)))
    BY DEF Data
  <2>2. CASE wpc = "ended"
    BY <2>2, NumbersEmpty DEF Control, Coming
  <2>3. CASE wpc # "ended"
    <3>1. 0 = Len(queue) + Len(hand) + Cardinality(Sending)
      BY <1>2, <2>3 DEF QueuedExact, Sending
    <3>2. Len(queue) = 0 /\ Len(hand) = 0
      BY <2>1, <3>1, SendingFinite
    <3>3. queue = <<>> /\ hand = <<>>
      BY <2>1, <3>2
    <3> QED
      BY <3>3, NumbersEmpty DEF Coming
  <2> QED
    BY <2>2, <2>3
<1>3. \A t \in Sender : lock' = t /\ pc'[t] = "place" => Coming = {}
  BY <1>1, <1>2, TransportAssumption
<1> QED
  BY <1>1, <1>3, OrderQuiet

LEMMA TransportInvStep == TransportInv /\ [Next]_vars => TransportInv'
<1> SUFFICES ASSUME TransportInv, [Next]_vars PROVE TransportInv'
  OBVIOUS
<1>1. Control /\ Data /\ QueuedExact /\ Order
  BY DEF TransportInv
<1>2. Control'
  BY <1>1, ControlStep
<1>3. QueuedExact' /\ queued' \in Int
  BY <1>1, CountSender, CountOther DEF Next
<1>4. ASSUME NEW s \in Sender, NEW kinds \in Jobs, Dispatch(s, kinds)
      PROVE  Data' /\ Order'
  <2>1. kinds \in Seq(Kinds)
    <3>1. {"value", "text"} \subseteq Kinds
      BY DEF Kinds
    <3> QED
      BY <3>1, TransportAssumption, SeqGrows
  <2>2. Take(s, kinds, "lock")
    BY <1>4 DEF Dispatch
  <2> QED
    BY <1>1, <1>3, <2>1, <2>2, OrderTake
<1>5. ASSUME EmitRaw \/ SendClose PROVE Data' /\ Order'
  <2>1. <<"raw">> \in Seq(Kinds) /\ <<"close">> \in Seq(Kinds) /\ Reader \in Sender
    BY TransportAssumption DEF Kinds
  <2>2. Take(Reader, <<"raw">>, "place") \/ Take(Reader, <<"close">>, "place")
    BY <1>5 DEF EmitRaw, SendClose
  <2> QED
    BY <1>1, <1>3, <2>1, <2>2, OrderTake, Zenon
<1>6. ASSUME NEW s \in Sender, TryLock(s) \/ Count(s) PROVE Data' /\ Order'
  <2>1. /\ UNCHANGED <<sent, out, queue, hand, job>>
        /\ \A t \in Sender : lock' = t /\ pc'[t] = "place" => lock = t /\ pc[t] = "place"
    BY <1>1, <1>6 DEF TryLock, Count, Places, envVars, Control
  <2> QED
    BY <1>1, <1>3, <2>1, OrderQuiet
<1>7. ASSUME NEW s \in Sender, Deliver(s) PROVE Data' /\ Order'
  BY <1>1, <1>3, <1>6, <1>7, OrderLoad, OrderPlaceInline, OrderFlush, OrderEnqueue
     DEF Deliver
<1>8. ASSUME Lock \/ Spawn \/ Leave \/ Join \/ Stall \/ UNCHANGED vars
      PROVE  Data' /\ Order'
  <2>1. /\ UNCHANGED <<sent, out, queue, hand, job, pc>>
        /\ \A t \in Sender : lock' = t => lock = t
    BY <1>8, TransportAssumption, Zenon
       DEF Lock, Spawn, Leave, Join, Stall, vars, sendVars, envVars
  <2> QED
    BY <1>1, <1>3, <2>1, OrderQuiet
<1>9. ASSUME Writer PROVE Data' /\ Order'
  BY <1>1, <1>3, <1>8, <1>9, OrderRecv, OrderPing, OrderWrite, OrderDrain, OrderRest
     DEF Writer
<1>10. Data' /\ Order'
  BY <1>4, <1>5, <1>7, <1>8, <1>9 DEF Next
<1> QED
  BY <1>2, <1>3, <1>10 DEF TransportInv

LEMMA TransportAlways == Spec => []TransportInv
  BY TransportInvInit, TransportInvStep, PTL DEF Spec

\* `queued` is exact at every moment of every interleaving of deliver_all,
\* enqueue and writer_loop (transport.rs), as long as the writer thread lives.
THEOREM QueuedAlwaysExact == Spec => []QueuedExact
<1>1. TransportInv => QueuedExact
  BY DEF TransportInv
<1> QED
  BY <1>1, TransportAlways, PTL

\* No frame overtakes another on its way to a client, inline or through the
\* writer thread, whatever fails or times out (deliver_all: "in order").
THEOREM NeverOvertaken == Spec => []NoOvertaking
<1>1. TransportInv => NoOvertaking
  <2> SUFFICES ASSUME Data, Order PROVE NoOvertaking
    BY DEF TransportInv
  <2> DEFINE F == Frames(Len(sent))
  <2>1. /\ out.wire \in Seq(F) /\ out.batch \in Seq(F) /\ queue \in Seq(F) /\ hand \in Seq(F)
    BY OutTypes DEF Data
  <2>2. InOrder(out, Coming \cup Unplaced)
    BY DEF Order
  <2>3. Clear(out.wire, Coming) /\ Clear(out.batch, Coming)
    BY <2>2, ClearLess DEF InOrder
  <2>4. Stream \in Seq(F) /\ Ordered(Stream) /\ Clear(Stream, Coming)
    <3>1. out.wire \o out.batch \in Seq(F)
      BY <2>1
    <3>2. Ordered(out.wire) /\ Ordered(out.batch) /\ Clear(out.wire, Numbers(out.batch))
      BY <2>2 DEF InOrder
    <3>3. Ordered(out.wire \o out.batch)
      BY <2>1, <3>2, OrderedConcat, Zenon
    <3>4. Clear(out.wire \o out.batch, Coming)
      BY <2>1, <2>3, ClearConcat, Zenon
    <3> QED
      BY <3>1, <3>3, <3>4 DEF Stream
  <2>5. Numbers(queue \o hand) \subseteq Coming
    BY <2>1, NumbersConcat DEF Coming
  <2> SUFFICES ASSUME NEW i \in DOMAIN Stream
               PROVE  Stream[i].after \cap
                        (Numbers(queue \o hand)
                           \cup {Stream[j].n : j \in i + 1 .. Len(Stream)}) = {}
    BY DEF NoOvertaking
  <2>6. i \in 1 .. Len(Stream)
    BY <2>4
  <2>7. Stream[i].after \cap Coming = {}
    BY <2>4, <2>6 DEF Clear
  <2>8. \A j \in i + 1 .. Len(Stream) : Stream[j].n \notin Stream[i].after
    BY <2>4, <2>6 DEF Ordered
  <2> QED
    BY <2>5, <2>7, <2>8
<1> QED
  BY <1>1, TransportAlways, PTL
=============================================================================
