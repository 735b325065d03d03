------------------------------ MODULE Values --------------------------------
(***************************************************************************)
(* What becomes of one value on its way from a typed put on a client to    *)
(* the registry, the cache, a subscriber, a typed get and the persistence  *)
(* file (value.rs, msgpack.rs, datatype.rs, convert.rs, typed.rs, ffi.rs). *)
(*                                                                         *)
(* A value is [tag, v].  v is a number for a scalar, a sequence of them    *)
(* for an array, and the length of a string or of raw bytes.  The integer  *)
(* widths are constants: only their order matters, so TLC enumerates every *)
(* integer of four small widths.                                           *)
(***************************************************************************)
EXTENDS Integers, Sequences, FiniteSetsExt, TLC

CONSTANTS
  W8, W16, W32, W64,     \* bits of the four integer widths
  FloatBits, DoubleBits, \* bits of precision of f32 and f64
  NotANumber,            \* NaN and the infinities: no JSON number
  Sentinel,              \* the length of NO_DATA_SENTINEL
  Lengths,               \* lengths of strings and byte arrays
  MaxItems,              \* bound: elements of an array
  MaxPuts                \* bound: values published on the topic

ASSUME ValuesAssumption ==
  /\ {W8, W16, W32, W64, FloatBits, DoubleBits} \subseteq Nat
  /\ 4 <= W8 /\ W8 < W16 /\ W16 < W32 /\ W32 < W64
  /\ FloatBits < W32 /\ W32 <= DoubleBits /\ DoubleBits < W64

VARIABLES
  sent,      \* the call and kind of the last put or swap, None before any
  wire,      \* the value message in flight, None when there is none
  declared,  \* the data type the topic was published with, None when absent
  held,      \* TopicState::current
  cached,    \* the newest Kind of the channel's ring in cached_messages
  puts       \* values published

valueVars == <<sent, wire, declared, held, cached, puts>>

None == [tag |-> "None"]

Signed(w) == -(2 ^ (w - 1)) .. 2 ^ (w - 1) - 1
Unsigned(w) == 0 .. 2 ^ w - 1
Wrap(x, w) == LET p == x % 2 ^ w IN IF p < 2 ^ (w - 1) THEN p ELSE p - 2 ^ w
Map(s, Op(_)) == [i \in 1 .. Len(s) |-> Op(s[i])]
All(s, P(_)) == \A i \in 1 .. Len(s) : P(s[i])

SignedTags == {"Int8", "Int16", "Int32", "Int64"}
UnsignedTags == {"Uint8", "Uint16", "Uint32", "Uint64"}
IntTags == SignedTags \cup UnsignedTags
IntArrays == {"Int8Array", "Int16Array", "Int32Array", "Int64Array",
              "Uint8Array", "Uint16Array", "Uint32Array", "Uint64Array"}
ArrayTags == IntArrays \cup {"FloatArray", "DoubleArray", "StringArray", "BoolArray"}
RawTags == {"Bytes", "BytesList", "Coordinate", "Bezier"}

\* An integer or float rounded to bits of precision, ties to even.
Rounded(x, bits) ==
  IF x = NotANumber THEN x ELSE
  LET size == IF x < 0 THEN -x ELSE x
      unit == Min({2 ^ k : k \in {j \in 0 .. W64 : size <= 2 ^ (bits + j)}})
      down == size \div unit
      rest == 2 * (size % unit)
      near == IF rest > unit \/ (rest = unit /\ down % 2 = 1) THEN down + 1 ELSE down
  IN IF x < 0 THEN -near * unit ELSE near * unit

-----------------------------------------------------------------------------
(* The data types of NT4, and the conversions between values and kinds.    *)

\* xt_data_type.
XtDataType(value) ==
  CASE value.tag = "Bool" -> 0
    [] value.tag = "Double" -> 1
    [] value.tag \in IntTags -> 2
    [] value.tag = "Float" -> 3
    [] value.tag = "String" -> 4
    [] value.tag \in RawTags -> 5
    [] value.tag = "BoolArray" -> 16
    [] value.tag = "DoubleArray" -> 17
    [] value.tag \in IntArrays -> 18
    [] value.tag = "FloatArray" -> 19
    [] value.tag = "StringArray" -> 20

\* From<Kind> for Value: the kinds that change name.
ValueTag ==
  [StringList |-> "StringArray", FloatList |-> "FloatArray", BoolList |-> "BoolArray",
   DoubleList |-> "DoubleArray", IntegerList |-> "Int32Array", LongList |-> "Int64Array",
   CoordinateList |-> "Coordinate", BezierCurve |-> "Bezier",
   BezierCurves |-> "Bezier", BezierCurvesList |-> "Bezier"]

FromKind(kind) ==
  IF kind.tag \in DOMAIN ValueTag THEN [kind EXCEPT !.tag = ValueTag[kind.tag]] ELSE kind

\* From<Value> for Kind: unsigned arrays are cast to the signed lists.
KindTag ==
  [Int8 |-> "Int32", Int16 |-> "Int32", Uint8 |-> "Uint32", Uint16 |-> "Uint32",
   Int8Array |-> "IntegerList", Int16Array |-> "IntegerList", Int32Array |-> "IntegerList",
   Uint8Array |-> "IntegerList", Uint16Array |-> "IntegerList",
   Uint32Array |-> "IntegerList", Int64Array |-> "LongList", Uint64Array |-> "LongList",
   FloatArray |-> "FloatList", DoubleArray |-> "DoubleList", StringArray |-> "StringList",
   BoolArray |-> "BoolList", Coordinate |-> "CoordinateList", Bezier |-> "BezierCurves"]

ToKind(value) ==
  IF value.tag \notin DOMAIN KindTag THEN value
  ELSE [tag |-> KindTag[value.tag],
        v |-> CASE value.tag = "Uint32Array" -> Map(value.v, LAMBDA x : Wrap(x, W32))
                [] value.tag = "Uint64Array" -> Map(value.v, LAMBDA x : Wrap(x, W64))
                [] OTHER -> value.v]

AsFloating(value, type) ==
  IF value.tag \notin IntTags \cup {"Float", "Double"} THEN value
  ELSE IF type = 1 THEN [tag |-> "Double", v |-> Rounded(value.v, DoubleBits)]
  ELSE [tag |-> "Float", v |-> Rounded(Rounded(value.v, DoubleBits), FloatBits)]

\* Value::conformed: integers widen to a declared float type, an empty array
\* takes the declared element type.
Conformed(value, type) ==
  LET numbers == value.tag \in IntArrays \cup {"FloatArray", "DoubleArray"}
      empty == value.tag = "DoubleArray" /\ value.v = << >>
  IN IF XtDataType(value) = type THEN value
     ELSE CASE type \in {1, 3} -> AsFloating(value, type)
          [] type = 16 /\ empty -> [tag |-> "BoolArray", v |-> << >>]
          [] type = 18 /\ empty -> [tag |-> "Int64Array", v |-> << >>]
          [] type = 20 /\ empty -> [tag |-> "StringArray", v |-> << >>]
          [] type = 17 /\ numbers ->
               [tag |-> "DoubleArray", v |-> Map(value.v, LAMBDA x : Rounded(x, DoubleBits))]
          [] type = 19 /\ numbers ->
               [tag |-> "FloatArray",
                v |-> Map(value.v, LAMBDA x : Rounded(Rounded(x, DoubleBits), FloatBits))]
          [] OTHER -> value

\* Value::widened.
Widened(value) ==
  CASE value.tag \in {"Int8", "Int16"} -> [value EXCEPT !.tag = "Int32"]
    [] value.tag \in {"Uint8", "Uint16"} -> [value EXCEPT !.tag = "Uint32"]
    [] value.tag \in {"Int8Array", "Int16Array"} -> [value EXCEPT !.tag = "Int32Array"]
    [] value.tag \in {"Uint8Array", "Uint16Array"} -> [value EXCEPT !.tag = "Uint32Array"]
    [] OTHER -> value

-----------------------------------------------------------------------------
(* MessagePack (msgpack.rs): a marker with the width it announces.         *)

Error == [tag |-> "Error"]
Widths == {W8, W16, W32, W64}
IntTag == W8 :> "Int8" @@ W16 :> "Int16" @@ W32 :> "Int32" @@ W64 :> "Int64"
UintTag == W8 :> "Uint8" @@ W16 :> "Uint16" @@ W32 :> "Uint32" @@ W64 :> "Uint64"

\* mutant: a width is chosen by the unsigned range
EncodeLoose(x) ==
  LET w == Min({b \in Widths : x \in Signed(b) \cup Unsigned(b)})
  IN [m |-> "int", w |-> w, p |-> x % 2 ^ w]

\* encode_i64: a fixint, or the smallest signed integer.
EncodeInt(x) ==
  IF x \in -(2 ^ (W8 - 3)) .. 2 ^ (W8 - 1) - 1 THEN [m |-> "fix", p |-> x % 2 ^ W8]
  ELSE LET w == Min({b \in Widths : x \in Signed(b)})
       IN [m |-> "int", w |-> w, p |-> x % 2 ^ w]

\* encode_uint: only what no i64 holds goes out unsigned.
EncodeUint(x) ==
  IF x \in Signed(W64) THEN EncodeInt(x) ELSE [m |-> "uint", w |-> W64, p |-> x]

\* The smallest of the length headers that holds len: encode_str, encode_bin,
\* encode_array_header.
Header(len, widths) ==
  LET w == Min({b \in widths : len < 2 ^ b}) IN [w |-> w, len |-> len % 2 ^ w]

StrWidths == {W8 - 3, W8, W16, W32}
BinWidths == {W8, W16, W32}
ArrayWidths == {W8 - 4, W16, W32}

EncodeItem(tag, x) ==
  CASE tag \in SignedTags -> EncodeInt(x)
    [] tag \in UnsignedTags -> EncodeUint(x)
    [] tag \in {"Float", "Double", "Bool"} -> [m |-> tag, v |-> x]
    [] tag = "String" -> [m |-> "str", head |-> Header(x, StrWidths), body |-> x]
    [] tag \in RawTags -> [m |-> "bin", head |-> Header(x, BinWidths), body |-> x]

ItemTag ==
  [Int8Array |-> "Int8", Int16Array |-> "Int16", Int32Array |-> "Int32",
   Int64Array |-> "Int64", Uint8Array |-> "Uint8", Uint16Array |-> "Uint16",
   Uint32Array |-> "Uint32", Uint64Array |-> "Uint64", FloatArray |-> "Float",
   DoubleArray |-> "Double", StringArray |-> "String", BoolArray |-> "Bool"]

\* encode_value.
Encode(value) ==
  IF value.tag \notin ArrayTags THEN EncodeItem(value.tag, value.v)
  ELSE [m |-> "array", head |-> Header(Len(value.v), ArrayWidths),
        items |-> Map(value.v, LAMBDA x : EncodeItem(ItemTag[value.tag], x))]

\* decode_one, of anything but an array.
DecodeItem(item) ==
  CASE item.m = "fix" -> IF item.p < 2 ^ (W8 - 1) THEN [tag |-> "Uint8", v |-> item.p]
                         ELSE [tag |-> "Int8", v |-> Wrap(item.p, W8)]
    [] item.m = "int" -> [tag |-> IntTag[item.w], v |-> Wrap(item.p, item.w)]
    [] item.m = "uint" -> [tag |-> UintTag[item.w], v |-> item.p]
    [] item.m \in {"Float", "Double", "Bool"} -> [tag |-> item.m, v |-> item.v]
    [] item.m \in {"str", "bin"} ->
         IF item.head.len # item.body THEN Error
         ELSE [tag |-> IF item.m = "str" THEN "String" ELSE "Bytes", v |-> item.body]

\* classify_array.
ClassifyArray(items) ==
  LET Are(tags) == All(items, LAMBDA i : i.tag \in tags)
      anyBig == \E i \in DOMAIN items :
                  items[i].tag \in UnsignedTags /\ items[i].v \notin Signed(W64)
      As(tag, Cast(_)) == [tag |-> tag, v |-> Map(items, LAMBDA i : Cast(i.v))]
      Same(x) == x
  IN IF items = << >> THEN [tag |-> "DoubleArray", v |-> << >>]
     ELSE CASE anyBig /\ Are(IntTags) -> As("Uint64Array", LAMBDA x : x % 2 ^ W64)
            [] ~anyBig /\ Are(IntTags) -> As("Int64Array", LAMBDA x : Wrap(x, W64))
            [] Are({"Float"}) -> As("FloatArray", Same)
            [] Are({"Double"}) -> As("DoubleArray", Same)
            [] Are({"String"}) -> As("StringArray", Same)
            [] Are({"Bool"}) -> As("BoolArray", Same)
            [] OTHER -> Error

\* decode_value, decode_array_at.
Decode(message) ==
  IF message.m # "array" THEN DecodeItem(message)
  ELSE IF message.head.len # Len(message.items) THEN Error
  ELSE ClassifyArray(Map(message.items, DecodeItem))

-----------------------------------------------------------------------------
(* networktables.json (server.rs): what no JSON number says is null.       *)

\* value_to_json; persistent_to_json.
ToJson(value) ==
  [form |-> CASE value.tag \in RawTags -> "base64"
              [] value.tag \in ArrayTags -> "array"
              [] OTHER -> "scalar",
   v |-> value.v]

\* serde_json's as_i64 on the integers of an "int" or "int[]" topic.
ReadsAsI64(x) == x \in Signed(W64)

\* value_from_json: None for a row that persistent_from_json skips.
FromJson(type, json) ==
  LET Number(x) == x # NotANumber
      Row(ok, tag) == IF ok THEN [tag |-> tag, v |-> json.v] ELSE None
  IN CASE type = 0 -> Row(TRUE, "Bool")
       [] type = 1 -> Row(Number(json.v), "Double")
       [] type = 2 -> Row(ReadsAsI64(json.v), "Int64")
       [] type = 3 -> Row(Number(json.v), "Float")
       [] type = 4 -> Row(TRUE, "String")
       [] type = 5 -> Row(TRUE, "Bytes")
       [] type = 16 -> Row(TRUE, "BoolArray")
       [] type = 17 -> Row(All(json.v, Number), "DoubleArray")
       [] type = 18 -> Row(All(json.v, ReadsAsI64), "Int64Array")
       [] type = 19 -> Row(All(json.v, Number), "FloatArray")
       [] type = 20 -> Row(TRUE, "StringArray")

-----------------------------------------------------------------------------
(* The typed calls of a client (typed.rs, ffi.rs and the C functions).     *)

\* The kind each put sends.
PutKind ==
  [string |-> "String", integer |-> "Int32", long |-> "Int64", u32 |-> "Uint32",
   u64 |-> "Uint64", double |-> "Double", float |-> "Float", boolean |-> "Bool",
   bytes |-> "Bytes", unknown_bytes |-> "Bytes", string_list |-> "StringList",
   bytes_list |-> "BytesList", double_list |-> "DoubleList", float_list |-> "FloatList",
   integer_list |-> "IntegerList", long_list |-> "LongList", boolean_list |-> "BoolList",
   coordinates |-> "CoordinateList", bezier_curve |-> "BezierCurve",
   bezier_curves |-> "BezierCurves", bezier_curves_list |-> "BezierCurvesList",
   pose2d |-> "Bytes", pose3d |-> "Bytes"]

\* The value each get accepts; any other value reads as absent.
GetTag ==
  [string |-> "String", integer |-> "Int32", long |-> "Int64", double |-> "Double",
   float |-> "Float", boolean |-> "Bool", bytes |-> "Bytes", unknown_bytes |-> "Bytes",
   string_list |-> "StringArray", bytes_list |-> "BytesList",
   double_list |-> "DoubleArray", float_list |-> "FloatArray",
   integer_list |-> "Int32Array", long_list |-> "Int64Array",
   boolean_list |-> "BoolArray", coordinates |-> "Coordinate",
   bezier_curve |-> "Bezier", bezier_curves |-> "Bezier", bezier_curves_list |-> "Bezier",
   pose2d |-> "Bytes", pose3d |-> "Bytes"]

\* decode_tarwyn_type: the kind a type tag names; any other tag is raw bytes.
TarwynType ==
  1 :> "String" @@ 2 :> "Double" @@ 3 :> "Int32" @@ 5 :> "Int64" @@ 6 :> "Bool"
  @@ 10 :> "DoubleList" @@ 11 :> "StringList" @@ 12 :> "FloatList" @@ 13 :> "IntegerList"
  @@ 14 :> "LongList" @@ 15 :> "BoolList" @@ 16 :> "BytesList" @@ 20 :> "CoordinateList"
  @@ 21 :> "BezierCurves" @@ 22 :> "BezierCurve" @@ 23 :> "BezierCurvesList"

\* The compare-and-set calls that name the value they expect.
SwapKind == [string |-> "String", double |-> "Double", long |-> "Int64", boolean |-> "Bool"]

PoseLen == [pose2d |-> 3 * 8, pose3d |-> 7 * 8]

\* The integers on both sides of every limit some width or marker has.
Limits ==
  {-(2 ^ (W8 - 3)), 0} \cup UNION {{-(2 ^ (b - 1)), 2 ^ (b - 1), 2 ^ b} : b \in Widths}
Edges(range) == {x \in range : x \in Limits \/ x + 1 \in Limits}
Ends(w) == {-(2 ^ (w - 1)), -1, 0, 2 ^ (w - 1) - 1}
Lists(S) == UNION {[1 .. n -> S] : n \in 0 .. MaxItems}

\* The contents a put of a kind is called with.
Contents(kind) ==
  CASE kind = "Int32" -> Edges(Signed(W32))
    [] kind = "Int64" -> Edges(Signed(W64))
    [] kind = "Uint32" -> Edges(Unsigned(W32))
    [] kind = "Uint64" -> Edges(Unsigned(W64))
    [] kind \in {"Double", "Float"} -> Ends(FloatBits) \cup {NotANumber}
    [] kind = "Bool" -> {0, 1}
    [] kind = "String" -> Lengths \cup {Sentinel}
    [] kind = "IntegerList" -> Lists(Ends(W32))
    [] kind = "LongList" -> Lists(Ends(W64))
    [] kind \in {"DoubleList", "FloatList"} -> Lists({0, 1, NotANumber})
    [] kind = "BoolList" -> Lists({0, 1})
    [] kind = "StringList" -> Lists(Lengths)
    [] OTHER -> Lengths

-----------------------------------------------------------------------------
NoType == 255

ValuesInit ==
  /\ sent = None
  /\ wire = None
  /\ declared = NoType
  /\ held = None
  /\ cached = None
  /\ puts = 0

\* Client::send_message and publish_typed: the first put of the channel
\* publishes it with the value's own data type.
Send(call, kind) ==
  LET value == FromKind(kind)
  IN /\ puts < MaxPuts /\ wire = None
     /\ puts' = puts + 1
     /\ sent' = [call |-> call, kind |-> kind]
     /\ declared' = IF declared = NoType THEN XtDataType(value) ELSE declared
     /\ wire' = Encode(value)
     /\ UNCHANGED <<held, cached>>

Put(call) ==
  \E x \in IF call \in DOMAIN PoseLen THEN {PoseLen[call]} ELSE Contents(PutKind[call]) :
    Send(call, [tag |-> PutKind[call], v |-> x])

\* send_typed_bytes: bytes that do not decode as their tag send nothing.
PutTypedBytes(type) ==
  LET kind == IF type \in DOMAIN TarwynType THEN TarwynType[type] ELSE "Bytes"
      call == CHOOSE c \in DOMAIN PutKind : PutKind[c] = kind
  IN \E x \in Contents(kind) : Send(call, [tag |-> kind, v |-> x])

\* NtRegistry::accepts_value, and the check of handle_topic_value.
AcceptsValue(value) == value.tag # "Error" /\ XtDataType(value) = declared

Arrived == LET value == Decode(wire)
           IN IF value.tag = "Error" THEN value ELSE Conformed(value, declared)

\* route_binary: conformed, checked, held and mirrored to the cache.
Route ==
  /\ wire # None
  /\ wire' = None
  /\ IF AcceptsValue(Arrived)
     THEN held' = Arrived /\ cached' = ToKind(Arrived)
     ELSE UNCHANGED <<held, cached>>
  /\ UNCHANGED <<sent, declared, puts>>

\* mutant: a swap is not fanned out to the registry
SwapCacheOnly(call, x) ==
  /\ puts < MaxPuts /\ wire = None /\ cached # None
  /\ cached.tag = SwapKind[call]
  /\ puts' = puts + 1
  /\ cached' = [tag |-> SwapKind[call], v |-> x]
  /\ sent' = [call |-> call, kind |-> cached']
  /\ UNCHANGED <<wire, declared, held>>

\* A compare-and-set that names the kind the cache holds: the kinds are
\* compared as they are, and the new one is cached as it came.
Swap(call, x) ==
  LET kind == [tag |-> SwapKind[call], v |-> x]
  IN /\ puts < MaxPuts /\ wire = None /\ cached # None
     /\ cached.tag = SwapKind[call]
     /\ puts' = puts + 1
     /\ cached' = kind
     /\ sent' = [call |-> call, kind |-> kind]
     /\ held' = IF XtDataType(FromKind(kind)) = declared THEN FromKind(kind) ELSE held
     /\ UNCHANGED <<wire, declared>>

\* The server saves the persistent topic, stops, and a new process loads it:
\* an unreadable row is skipped, and the cache starts out empty.
Restart ==
  LET row == FromJson(declared, ToJson(held))
  IN /\ held # None /\ wire = None
     /\ held' = row
     /\ declared' = IF row = None THEN NoType ELSE declared
     /\ cached' = None
     /\ sent' = None
     /\ UNCHANGED <<wire, puts>>

ValuesNext ==
  \/ \E call \in DOMAIN PutKind : Put(call)
  \/ \E type \in DOMAIN TarwynType \cup {0} : PutTypedBytes(type)
  \/ Route
  \/ \E call \in DOMAIN SwapKind : \E x \in Contents(SwapKind[call]) : Swap(call, x)
  \/ Restart

ValuesSpec == ValuesInit /\ [][ValuesNext]_valueVars

-----------------------------------------------------------------------------
Meaning(value) == <<XtDataType(value), value.v>>

\* Whatever integer width, string length or list a client puts, MessagePack
\* and the conform step (msgpack.rs, value.rs) bring it to the registry as a
\* value of the type it was published with, and with the same contents.  The
\* empty list and the edges of every width are among the inputs.
PutsArrive ==
  wire # None /\ declared = XtDataType(FromKind(sent.kind)) =>
    AcceptsValue(Arrived) /\ Arrived.v = sent.kind.v

\* The value a topic holds is of the type its publishers were told, after
\* puts of other types, swaps and a restart from the file.
HeldFitsType == held # None => XtDataType(held) = declared

\* A subscriber, who decodes the value again and widens it, and a get, which
\* reads the cache, are shown the same contents (reader.rs:72, server.rs:834).
GetAndSubscribeAgree ==
  held # None /\ cached # None =>
    LET shown == ToKind(Widened(Conformed(Decode(Encode(held)), declared)))
    IN Meaning(FromKind(shown)) = Meaning(FromKind(cached))

Saveable(value) ==
  \/ value.tag \in IntTags /\ value.v \in Signed(W64)
  \/ value.tag \in IntArrays /\ All(value.v, LAMBDA x : x \in Signed(W64))
  \/ value.tag \in {"Float", "Double"} /\ value.v # NotANumber
  \/ value.tag \in {"FloatArray", "DoubleArray"} /\ All(value.v, LAMBDA x : x # NotANumber)
  \/ value.tag \in {"Bool", "String", "BoolArray", "StringArray"} \cup RawTags

\* A persistent value that JSON can say comes back from networktables.json
\* with the type and contents it was saved with: value_from_json undoes
\* value_to_json.  NaN, the infinities and integers past i64::MAX do not, and
\* their topic is gone after a restart.
SavedComesBack ==
  (IF held = None THEN FALSE ELSE Saveable(held)) =>
    LET row == FromJson(declared, ToJson(held))
    IN row # None /\ Meaning(row) = Meaning(held)

\* Client::get and the typed get over it.
TypedGet(call) ==
  LET value == FromKind(cached)
  IN IF \/ cached = None \/ cached = [tag |-> "String", v |-> Sentinel]
        \/ value.tag # GetTag[call]
        \/ call \in DOMAIN PoseLen /\ value.v # PoseLen[call]
     THEN None ELSE [tag |-> "Some", v |-> value.v]

\* The puts whose value the wire keeps in its own type.
Keeps(call, x) ==
  \/ call \in {"string", "double", "float", "boolean", "bytes", "unknown_bytes",
               "string_list", "double_list", "float_list", "long_list", "boolean_list",
               "pose2d", "pose3d"}
  \/ call = "integer" /\ x \notin 0 .. 2 ^ (W8 - 1) - 1
  \/ call = "long" /\ x \notin Signed(W32)

JustPut ==
  /\ wire = None /\ sent # None /\ cached # None
  /\ sent.call \in DOMAIN GetTag
  /\ declared = XtDataType(FromKind(sent.kind))
  /\ sent.kind # [tag |-> "String", v |-> Sentinel]

\* What a typed put publishes, the typed get of the same name reads back, for
\* the puts whose value the wire keeps in its own type: all but the lists of
\* integers and bytes, the coordinates, the curves, an integer of seven bits
\* and a long of thirty-two.
ReadsBack ==
  JustPut /\ Keeps(sent.call, sent.kind.v) =>
    TypedGet(sent.call) = [tag |-> "Some", v |-> sent.kind.v]

\* What a client puts is what comes back: it arrives, is read by the get of its
\* name where the wire keeps the type, and survives a save and a restart.
ComesBack == PutsArrive /\ ReadsBack /\ SavedComesBack

\* Everyone who looks at a topic sees one value of its declared type: the
\* registry, a subscriber and a get from the cache.
OneMeaning == HeldFitsType /\ GetAndSubscribeAgree

\* A typed get reads what the typed put of the same name published.
TypedReadBack ==
  JustPut => TypedGet(sent.call) = [tag |-> "Some", v |-> sent.kind.v]
=============================================================================
