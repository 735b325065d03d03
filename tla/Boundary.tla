------------------------------ MODULE Boundary ------------------------------
(***************************************************************************)
(* Values across the C ABI (bindings/c/src/lib.rs): what a caller passes to *)
(* tarwyn_put_* as pointers and counts, what the client is given, and what  *)
(* tarwyn_get_* hands back.  A byte or a number is a small integer; Bad is  *)
(* a byte that is not UTF-8.                                                *)
(***************************************************************************)
EXTENDS Naturals, Sequences, SequencesExt

CONSTANTS
  Item,         \* byte strings a list may hold
  Figure,       \* numbers a list may hold
  MaxListed,    \* bound: the elements of a list
  Bad,          \* a byte that is not UTF-8
  NaN,          \* the number that is not one
  NullPtr,      \* a NULL pointer, given or handed back
  NoPut         \* nothing was put

ASSUME BoundaryAssumption == MaxListed \in Nat /\ NaN \notin Figure

VARIABLES
  passed,       \* the last put: its method and what the caller passed
  kept,         \* what the channel holds: method and value
  answer        \* the last get: its method and what it handed back

boundaryVars == <<passed, kept, answer>>

-----------------------------------------------------------------------------
(***************************************************************************)
(* The conversions.                                                        *)
(***************************************************************************)
\* String::from_utf8_lossy: U+FFFD, three bytes, for what is not UTF-8.
Text(b) == FlattenSeq([i \in DOMAIN b |-> IF b[i] = Bad THEN <<239, 191, 189>> ELSE <<b[i]>>])

Texts(items) == [i \in DOMAIN items |-> Text(items[i])]

\* bytes, array: NULL is empty.
Slice(wire) == IF wire = NullPtr THEN <<>> ELSE wire

\* A native-endian uint32_t, on a little-endian machine.
LengthWord(n) == <<n % 256, (n \div 256) % 256, (n \div 65536) % 256, n \div 16777216>>

FromWord(b) == b[1] + 256 * b[2] + 65536 * b[3] + 16777216 * b[4]

\* frame: every item after its length.
Frame(items) == FlattenSeq([i \in DOMAIN items |-> LengthWord(Len(items[i])) \o items[i]])

\* mutant: an item cut short is given as it is
RECURSIVE UnframeLoose(_)
UnframeLoose(b) ==
  IF Len(b) < 4 THEN <<>>
  ELSE LET len == FromWord(b)
       IN  <<SubSeq(b, 5, IF 4 + len > Len(b) THEN Len(b) ELSE 4 + len)>>
             \o UnframeLoose(SubSeq(b, 5 + len, Len(b)))

\* unframe: items until one is cut short.
RECURSIVE Unframe(_)
Unframe(b) ==
  IF Len(b) < 4 THEN <<>>
  ELSE LET len == FromWord(b)
       IN  IF 4 + len > Len(b) THEN <<>>
           ELSE <<SubSeq(b, 5, 4 + len)>> \o Unframe(SubSeq(b, 5 + len, Len(b)))

\* as_chunks::<n>: whole chunks, the rest is left.
Chunks(n, s) == [i \in 1..(Len(s) \div n) |-> SubSeq(s, (i - 1) * n + 1, i * n)]

\* points_from: NaN is no rotation, which is a point of two fields here.
PointsFrom(s) ==
  LET triples == Chunks(3, s)
  IN  [i \in DOMAIN triples |->
        IF triples[i][3] = NaN THEN SubSeq(triples[i], 1, 2) ELSE triples[i]]

\* mutant: no rotation is left out
PointsIntoShort(points) == FlattenSeq(points)

\* points_into.
PointsInto(points) ==
  FlattenSeq([i \in DOMAIN points |->
    IF Len(points[i]) = 2 THEN Append(points[i], NaN) ELSE points[i]])

-----------------------------------------------------------------------------
(***************************************************************************)
(* The functions, by the shape of what they are passed and hand back.      *)
(***************************************************************************)
PutScalars ==
  [string |-> "text", integer |-> "number", long |-> "number", double |-> "number",
   float |-> "number", boolean |-> "number", bytes |-> "bytes"]

PutLists ==
  [string_list |-> "texts", bytes_list |-> "items", double_list |-> "array",
   float_list |-> "array", integer_list |-> "array", long_list |-> "array",
   boolean_list |-> "array"]

PutShapes ==
  [coordinates |-> "pairs", pose2d |-> "fields", pose3d |-> "fields",
   bezier_curve |-> "points", bezier_curves |-> "encoded", bezier_curves_list |-> "encoded",
   unknown_bytes |-> "bytes"]

GetScalars ==
  [string |-> "text", integer |-> "number", long |-> "number", double |-> "number",
   float |-> "number", boolean |-> "number", bytes |-> "bytes"]

GetLists ==
  [string_list |-> "texts", bytes_list |-> "items", double_list |-> "array",
   float_list |-> "array", integer_list |-> "array", long_list |-> "array",
   boolean_list |-> "array"]

GetShapes ==
  [coordinates |-> "pairs", bezier_curve |-> "points", bezier_curves |-> "encoded",
   bezier_curves_list |-> "encoded", pose2d |-> "fields", pose3d |-> "fields",
   unknown_bytes |-> "bytes"]

PutShape == PutScalars @@ PutLists @@ PutShapes
GetShape == GetScalars @@ GetLists @@ GetShapes

\* What the client is given.
In(shape, wire) ==
  CASE shape = "text" -> Text(Slice(wire))
    [] shape = "texts" -> Texts(Unframe(Slice(wire)))
    [] shape = "items" -> Unframe(Slice(wire))
    [] shape = "pairs" -> Chunks(2, Slice(wire))
    [] shape = "points" -> PointsFrom(Slice(wire))
    [] shape \in {"array", "bytes", "encoded"} -> Slice(wire)
    [] shape \in {"number", "fields"} -> wire

\* What the caller is handed back.
Out(shape, value) ==
  CASE shape \in {"texts", "items"} -> Frame(value)
    [] shape = "pairs" -> FlattenSeq(value)
    [] shape = "points" -> PointsInto(value)
    [] OTHER -> value

-----------------------------------------------------------------------------
Items == SeqOf(Item, MaxListed)

\* What a caller may pass: a list of strings may be cut anywhere, an array has
\* the count the function multiplies.
Passable(shape) ==
  CASE shape \in {"texts", "items"} -> {NullPtr} \cup UNION {Prefixes(Frame(l)) : l \in Items}
    [] shape \in {"text", "bytes", "encoded"} -> {NullPtr} \cup Item
    [] shape = "array" -> {NullPtr} \cup SeqOf(Figure, MaxListed)
    [] shape = "pairs" -> {NullPtr} \cup {FlattenSeq(l) : l \in SeqOf(Figure \X Figure, MaxListed)}
    [] shape = "points" -> {NullPtr} \cup
         {FlattenSeq(l) : l \in SeqOf(Figure \X Figure \X (Figure \cup {NaN}), MaxListed)}
    [] shape \in {"number", "fields"} -> Figure

BoundaryInit == passed = NoPut /\ kept = NoPut /\ answer = NoPut

\* tarwyn_put_*.  An encoding that does not decode is refused and publishes
\* nothing.
PutAcross(method, wire) ==
  /\ \/ /\ passed' = <<method, wire>>
        /\ kept' = <<method, In(PutShape[method], wire)>>
     \/ /\ PutShape[method] = "encoded"
        /\ UNCHANGED <<passed, kept>>
  /\ UNCHANGED answer

\* tarwyn_get_*: NULL or false when the channel is absent or holds another
\* type, when the server does not answer, and for a number whose width the
\* encoding did not keep.
GetBack(method) ==
  /\ kept # NoPut
  /\ \/ answer' = <<method, NullPtr>>
     \/ kept[1] = method /\ answer' = <<method, Out(GetShape[method], kept[2])>>
  /\ UNCHANGED <<passed, kept>>

\* What a get hands back depends on the last put alone: one is enough.
BoundaryNext ==
  \/ kept = NoPut /\ \E method \in DOMAIN PutShape :
       \E wire \in Passable(PutShape[method]) : PutAcross(method, wire)
  \/ \E method \in DOMAIN GetShape : GetBack(method)

BoundarySpec == BoundaryInit /\ [][BoundaryNext]_boundaryVars

-----------------------------------------------------------------------------
\* The longest list whose frame begins what was passed: by definition, not by
\* parsing.
WholeItems(wire) ==
  LET whole == {l \in Items : IsPrefix(Frame(l), wire)}
  IN  CHOOSE l \in whole : \A k \in whole : Len(Frame(k)) <= Len(Frame(l))

\* "String and byte lists are frames of native-endian uint32_t length plus
\* bytes", "Bezier points are x, y, rotation_degrees, NaN for none", "invalid
\* bytes are replaced" (lib.rs:7-16): what a get hands back is what the put was
\* passed, up to the first item cut short and with invalid text replaced, for
\* every method, every empty or NULL list and every missing rotation.
CrossesUnchanged ==
  answer # NoPut /\ answer[2] # NullPtr =>
    LET shape == PutShape[answer[1]]
        wire == passed[2]
    IN  answer[2] = CASE shape = "text" -> Text(Slice(wire))
                      [] shape = "texts" -> Frame(Texts(WholeItems(Slice(wire))))
                      [] shape = "items" -> Frame(WholeItems(Slice(wire)))
                      [] shape \in {"number", "fields"} -> wire
                      [] OTHER -> Slice(wire)
=============================================================================
