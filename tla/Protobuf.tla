------------------------------ MODULE Protobuf ------------------------------
(***************************************************************************)
(* nanopb: pb_encode.c and pb_decode.c, the messages of protocol buffers   *)
(* in C structures that are described by a table of fields.                *)
(*                                                                         *)
(* A byte has GroupBits bits and the bit that says whether more follow.    *)
(* The build has no PB_ENABLE_MALLOC: a field is static or a callback.     *)
(* The structure of a message maps each field to the sequence of what is   *)
(* in it: nothing without has_, the items of an array, one value else.  A  *)
(* callback reads and writes one unsigned number at a time; one that is    *)
(* "unset" has no functions, and its field is skipped.                     *)
(***************************************************************************)
EXTENDS Integers, FiniteSetsExt, SequencesExt

CONSTANTS
  GroupBits, Width32, Width64,  \* 7, 32 and 64
  WordBits,                     \* bits of a word of fields_seen, 32
  Types,      \* pb_field_t[]: by name of the message, its fields in order
  Messages,   \* bound: what is sent, each [type |->, value |->, reader |->]
  Followers,  \* bound: those of Messages that follow another one
  Unknowns,   \* bound: encoded fields no reader knows
  BufferSizes \* bound: sizes of the buffer of the sender

VARIABLES
  msg,     \* what is sent, and the type the receiver has for it
  shift,   \* what the build makes of allbits >> 32: "zero" or "same"
  stream,  \* pb_ostream_t of the sender, with the bytes written
  input,   \* how the bytes come to the receiver, and what they are
  result   \* pb_decode of them

vars == <<msg, shift, stream, input, result>>

Base == 2 ^ GroupBits

\* wire types
Varint_ == 0
Bits64  == 1
String_ == 2
Bits32  == 5

Packable == {"varint", "uvarint", "svarint", "fixed32", "fixed64"}

\* pb_encode_tag_for_field
WireType(ltype) ==
  CASE ltype \in {"varint", "uvarint", "svarint"} -> Varint_
    [] ltype = "fixed32" -> Bits32
    [] ltype = "fixed64" -> Bits64
    [] OTHER -> String_

\* The number of w bits that is v, read as signed.
Signed(v, w) == IF v % 2 ^ w < 2 ^ (w - 1) THEN v % 2 ^ w ELSE (v % 2 ^ w) - 2 ^ w

FixedBytes(w) == w \div (GroupBits + 1)

\* pb_field_iter_begin and pb_field_iter_next: the fields of a type in turn, and
\* those they count as required.
Walk(type) == [i \in DOMAIN Types[type] |-> i]
Required(type) == {i \in DOMAIN Types[type] : Types[type][i].htype = "required"}

\* pb_field_iter_find
Find(type, tag) ==
  {i \in DOMAIN Types[type] :
     Types[type][i].tag = tag /\ Types[type][i].htype # "extension"}
-----------------------------------------------------------------------------
(* The structures *)

RECURSIVE Defaults(_)

Zero(f) ==
  CASE f.ltype \in Packable -> 0
    [] f.ltype = "fixedbytes" -> [i \in 1..f.size |-> 0]
    [] f.ltype = "submessage" -> Defaults(f.ptr)
    [] OTHER -> << >>

\* pb_message_set_to_defaults: a callback is left as it is, with nothing yet.
Defaults(type) ==
  [i \in DOMAIN Types[type] |->
     LET f == Types[type][i] IN
     CASE f.htype \in {"required", "singular"} -> <<Zero(f)>>
       [] f.htype = "extension" -> [e \in DOMAIN f.ptr |-> << >>]
       [] OTHER -> << >>]

\* pb_check_proto3_default_value: of an array, only the first item is looked at.
RECURSIVE IsDefault(_, _)
IsDefault(f, items) ==
  LET v == items[1] IN
  CASE f.atype = "callback" -> FALSE
    [] items = << >> -> TRUE
    [] f.ltype = "bytes" -> v = << >>
    [] f.ltype = "string" -> v = << >> \/ v[1] = 0
    [] f.ltype = "fixedbytes" -> f.size = 0
    [] f.ltype = "submessage" ->
         \A i \in DOMAIN Types[f.ptr] : IsDefault(Types[f.ptr][i], v[i])
    [] OTHER -> v = 0
-----------------------------------------------------------------------------
(* pb_encode *)

Sizing == [ok |-> TRUE, out |-> << >>, max |-> -1]
Bounded(max) == [Sizing EXCEPT !.max = max]
Failed(s) == [s EXCEPT !.ok = FALSE]

\* pb_write
Put(s, bytes) ==
  IF ~ s.ok \/ (s.max >= 0 /\ Len(s.out) + Len(bytes) > s.max) THEN Failed(s)
  ELSE [s EXCEPT !.out = @ \o bytes]

RECURSIVE Varint(_)
Varint(v) ==
  IF v < Base THEN <<v>> ELSE <<(v % Base) + Base>> \o Varint(v \div Base)

Fixed(v, w) ==
  [i \in 1..FixedBytes(w) |-> ((v % 2 ^ w) \div (2 * Base) ^ (i - 1)) % (2 * Base)]

\* pb_encode_svarint, pb_encode_string
Zigzag(v) == Varint(IF v < 0 THEN -2 * v - 1 ELSE 2 * v)
PutString(s, b) == Put(Put(s, Varint(Len(b))), b)

Tag(f) == Varint(8 * f.tag + WireType(f.ltype))

\* pb_enc_string reads up to the terminating zero, or to the end of the array.
TextOf(f, v) ==
  LET zeros == {i \in DOMAIN v : v[i] = 0}
  IN SubSeq(v, 1, Min({f.size} \cup {Len(v)} \cup {i - 1 : i \in zeros}))

RECURSIVE EncodeMessage(_, _, _)

\* pb_encode_submessage: sized first, then written to a stream of that size.
EncodeSubmessage(s, type, v) ==
  LET Written(head, size, sub) ==
        IF Len(head.out) + size > s.max \/ ~ sub.ok \/ Len(sub.out) # size
        THEN Failed(head) ELSE [head EXCEPT !.out = @ \o sub.out]
      Behind(head, sized) ==
        CASE ~ sized.ok -> Failed(s)
          [] sized.ok /\ (s.max < 0 \/ ~ head.ok) -> Put(head, sized.out)
          [] OTHER -> LET size == Len(sized.out)
                      IN Written(head, size, EncodeMessage(Bounded(size), type, v))
      Sized(sized) == Behind(Put(s, Varint(Len(sized.out))), sized)
  IN Sized(EncodeMessage(Sizing, type, v))

EncodeValue(s, f, v) ==
  CASE f.ltype \in {"varint", "uvarint"} -> Put(s, Varint(v % 2 ^ Width64))
    [] f.ltype = "svarint" -> Put(s, Zigzag(v))
    [] f.ltype = "fixed32" -> Put(s, Fixed(v, Width32))
    [] f.ltype = "fixed64" -> Put(s, Fixed(v, Width64))
    [] f.ltype = "bytes" -> IF Len(v) > f.size THEN Failed(s) ELSE PutString(s, v)
    [] f.ltype = "string" -> PutString(s, TextOf(f, v))
    [] f.ltype = "fixedbytes" -> PutString(s, v)
    [] f.ltype = "submessage" -> EncodeSubmessage(s, f.ptr, v)

Tagged(s, f, v) == EncodeValue(Put(s, Tag(f)), f, v)

\* Faulty variant: the length of an array is the number of its items.
EncodeArrayCounted(s, f, items) ==
  IF items = << >> THEN s
  ELSE IF f.ltype \notin Packable
  THEN FoldLeft(LAMBDA t, v : Tagged(t, f, v), s, items)
  ELSE FoldLeft(LAMBDA t, v : EncodeValue(t, f, v),
                Put(Put(s, Varint(8 * f.tag + String_)), Varint(Len(items))), items)

\* encode_array
EncodeArray(s, f, items) ==
  LET each(t) == FoldLeft(LAMBDA u, v : EncodeValue(u, f, v), t, items)
      size    == Len(each(Sizing).out)
      packed  == Put(Put(s, Varint(8 * f.tag + String_)), Varint(size))
  IN CASE items = << >> -> s
       [] Len(items) > f.max -> Failed(s)
       [] f.ltype \in Packable -> each(packed)
       [] OTHER -> FoldLeft(LAMBDA t, v : Tagged(t, f, v), s, items)

\* encode_field: encode_callback_field and encode_basic_field.  The descriptor
\* of an extension names no has_: a zero is not written.
EncodeField(s, f, items) ==
  CASE ~ s.ok -> s
    [] f.htype = "extension" ->
         FoldLeft(LAMBDA t, e : IF IsDefault(f.ptr[e], items[e]) THEN t
                                ELSE Tagged(t, f.ptr[e], items[e][1]),
                  s, [e \in DOMAIN f.ptr |-> e])
    [] f.htype # "extension" /\ f.atype # "static" ->
         FoldLeft(LAMBDA t, v : Tagged(t, f, v), s, items)
    [] f.htype = "repeated" /\ f.atype = "static" -> EncodeArray(s, f, items)
    [] f.htype = "singular" ->
         IF IsDefault(f, items) THEN s ELSE Tagged(s, f, items[1])
    [] OTHER -> IF items = << >> THEN s ELSE Tagged(s, f, items[1])

EncodeMessage(s, type, v) ==
  FoldLeft(LAMBDA t, i : EncodeField(t, Types[type][i], v[i]), s, Walk(type))

EncodeDelimited(s, type, v) == EncodeSubmessage(s, type, v)
-----------------------------------------------------------------------------
(* Reading of a stream: whether it went well, what was read and what is left *)

Bad(rest) == [ok |-> FALSE, val |-> 0, rest |-> rest]
Good(val, rest) == [ok |-> TRUE, val |-> val, rest |-> rest]
Drop(in, n) == SubSeq(in, n + 1, Len(in))

\* What is made of what was read; and what comes of a substream, behind which the
\* stream goes on.
Made(r, Of(_)) == IF r.ok THEN Good(Of(r.val), r.rest) ELSE r
Within(sub, r) == IF sub.ok /\ r.ok THEN Good(r.val, sub.rest) ELSE Bad(sub.rest)

\* pb_read
Read(in, n) == IF Len(in) < n THEN Bad(in) ELSE Good(SubSeq(in, 1, n), Drop(in, n))

Number(bytes) ==
  FoldRight(LAMBDA b, v : v * Base + (b % Base), bytes, 0)

\* pb_decode_varint32 and pb_decode_varint: bits beyond the width are lost, and
\* so are the bytes that were read when there are too many of them.
ReadVarint(in, width) ==
  LET limit == (width + GroupBits - 1) \div GroupBits
      n     == Min({limit, Len(in)} \cup {i \in DOMAIN in : in[i] < Base})
  IN IF n > 0 /\ in[n] < Base
     THEN Good(Number(SubSeq(in, 1, n)) % 2 ^ width, Drop(in, n))
     ELSE Bad(Drop(in, n))

\* pb_decode_fixed32 and pb_decode_fixed64: the least significant byte first.
ReadFixed(in, width) ==
  Made(Read(in, FixedBytes(width)),
       LAMBDA raw : FoldRight(LAMBDA b, n : n * 2 * Base + b, raw, 0))

\* pb_make_string_substream
Substream(in) ==
  LET Of(size) == IF size.ok THEN Read(size.rest, size.val) ELSE size
  IN Of(ReadVarint(in, Width32))

\* pb_skip_varint and read_raw_value: any number of bytes, or at most a buffer.
SkipVarint(in) ==
  LET ends == {i \in DOMAIN in : in[i] < Base}
  IN IF ends = {} THEN Bad(<< >>) ELSE Good(SubSeq(in, 1, Min(ends)), Drop(in, Min(ends)))

\* pb_skip_field
SkipField(in, wire) ==
  CASE wire = Varint_ -> SkipVarint(in)
    [] wire = Bits64 -> Read(in, FixedBytes(Width64))
    [] wire = String_ -> Substream(in)
    [] wire = Bits32 -> Read(in, FixedBytes(Width32))
    [] OTHER -> Bad(in)

\* pb_decode_tag: val says where the message ends, or the tag and the wire type.
ReadTag(in) ==
  LET Of(v) ==
        CASE ~ v.ok -> [Bad(v.rest) EXCEPT !.val = [eof |-> v.rest = << >>]]
          [] v.ok /\ v.val = 0 -> [Bad(v.rest) EXCEPT !.val = [eof |-> TRUE]]
          [] OTHER -> Good([tag |-> v.val \div 8, wire |-> v.val % 8], v.rest)
  IN Of(ReadVarint(in, Width32))
-----------------------------------------------------------------------------
(* pb_decode *)

RECURSIVE DecodeMessage(_, _, _)

\* A number cast to the size of the field, or refused where that changes it.
Cast(v, cast, rest) == IF cast = v THEN Good(v, rest) ELSE Bad(rest)

\* pb_dec_varint, pb_dec_uvarint, pb_dec_svarint
CastTo(f, v) ==
  LET s == IF f.size = Width64 THEN Signed(v.val, Width64) ELSE Signed(v.val, Width32)
      z == IF v.val % 2 = 1 THEN - (v.val \div 2) - 1 ELSE v.val \div 2
  IN CASE ~ v.ok -> v
       [] v.ok /\ f.ltype = "varint" -> Cast(s, Signed(s, f.size), v.rest)
       [] v.ok /\ f.ltype = "uvarint" -> Cast(v.val, v.val % 2 ^ f.size, v.rest)
       [] v.ok /\ f.ltype = "svarint" -> Cast(z, Signed(z, f.size), v.rest)

\* pb_dec_bytes, pb_dec_string, pb_dec_fixed_length_bytes, behind the size.
ReadSlice(f, size) ==
  CASE ~ size.ok -> size
    [] size.ok /\ f.ltype = "bytes" ->
         IF size.val > f.size THEN Bad(size.rest) ELSE Read(size.rest, size.val)
    [] size.ok /\ f.ltype = "string" ->
         IF size.val + 1 > f.size THEN Bad(size.rest) ELSE Read(size.rest, size.val)
    [] size.ok /\ f.ltype = "fixedbytes" ->
         IF size.val = 0 THEN Good(Zero(f), size.rest)
         ELSE IF size.val # f.size THEN Bad(size.rest) ELSE Read(size.rest, size.val)

\* pb_dec_submessage; old is what a submessage adds to.
DecodeSubmessage(sub, f, old) ==
  LET Built(r) == IF sub.ok /\ r.ok THEN Good(r.dest, sub.rest) ELSE Bad(sub.rest)
  IN Built(DecodeMessage(sub.val, f.ptr, IF f.htype \in {"repeated", "oneof"}
                                         THEN Defaults(f.ptr) ELSE old))

DecodeValue(in, f, old) ==
  CASE f.ltype \in {"varint", "uvarint", "svarint"} -> CastTo(f, ReadVarint(in, Width64))
    [] f.ltype = "fixed32" -> ReadFixed(in, Width32)
    [] f.ltype = "fixed64" -> ReadFixed(in, Width64)
    [] f.ltype = "submessage" -> DecodeSubmessage(Substream(in), f, old)
    [] OTHER -> ReadSlice(f, ReadVarint(in, Width32))

\* Items up to the end of a substream, as many as fit: val is the items.
RECURSIVE DecodeItems(_, _, _)
DecodeItems(in, f, items) ==
  LET After(v) ==
        IF v.ok THEN DecodeItems(v.rest, f, Append(items, v.val)) ELSE Bad(in)
  IN CASE in = << >> -> Good(items, in)
       [] in # << >> /\ f.atype = "static" /\ Len(items) >= f.max -> Bad(in)
       [] OTHER -> After(DecodeValue(in, f, 0))

\* decode_field: decode_callback_field and decode_static_field
DecodeField(in, wire, f, items) ==
  LET sub  == Substream(in)
      raw  == SkipField(in, wire)
      old  == IF items # << >> THEN items[1] ELSE Zero(f)
      With(v) == Append(items, v)
  IN CASE f.atype = "unset" -> Made(raw, LAMBDA v : items)
       [] f.atype = "callback" /\ wire = String_ ->
            IF sub.ok /\ sub.val = << >> THEN Bad(sub.rest)
            ELSE Within(sub, DecodeItems(sub.val, f, items))
       [] f.atype = "callback" /\ wire # String_ ->
            IF raw.ok THEN Within(raw, Made(DecodeValue(raw.val, f, 0), With)) ELSE raw
       [] f.atype = "static" /\ f.htype # "repeated" ->
            Made(DecodeValue(in, f, old), LAMBDA v : <<v>>)
       [] OTHER ->
            IF wire = String_ /\ f.ltype \in Packable
            THEN Within(sub, DecodeItems(sub.val, f, items))
            ELSE IF Len(items) >= f.max THEN Bad(in) ELSE Made(DecodeValue(in, f, old), With)

\* decode_extension: the extensions in turn, until one has read the field.
DecodeExtension(in, tag, wire, f, items) ==
  LET with == {e \in DOMAIN f.ptr : f.ptr[e].tag = tag}
      e    == Min(with)
  IN IF with = {} THEN Good(items, in)
     ELSE Made(DecodeField(in, wire, f.ptr[e], items[e]),
               LAMBDA v : [items EXCEPT ![e] = v])

\* Of a union, only the member that was read last is there.
Stored(type, dest, i, items) ==
  [j \in DOMAIN dest |->
     CASE j = i -> items
       [] j # i /\ Types[type][i].htype = "oneof" /\ Types[type][j].htype = "oneof" -> << >>
       [] OTHER -> dest[j]]

\* The loop of pb_decode_noinit: the structure, and the fields that were seen.
RECURSIVE DecodeFields(_, _, _, _)
DecodeFields(in, type, dest, seen) ==
  LET fields    == Types[type]
      known(t)  == Find(type, t.val.tag)
      range(t)  == {i \in DOMAIN fields :
                      fields[i].htype = "extension" /\ t.val.tag >= fields[i].tag}
      Pass(skip) == IF skip.ok THEN DecodeFields(skip.rest, type, dest, seen)
                    ELSE [ok |-> FALSE]
      After(t, i, r) ==
        CASE ~ r.ok -> [ok |-> FALSE]
          [] r.ok /\ r.rest = t.rest /\ known(t) = {} -> Pass(SkipField(t.rest, t.val.wire))
          [] OTHER -> DecodeFields(r.rest, type, Stored(type, dest, i, r.val), seen \cup {i})
      Into(t, i) ==
        After(t, i, IF known(t) # {} THEN DecodeField(t.rest, t.val.wire, fields[i], dest[i])
                    ELSE DecodeExtension(t.rest, t.val.tag, t.val.wire, fields[i], dest[i]))
      Field(t) ==
        CASE ~ t.ok -> [ok |-> t.val.eof, dest |-> dest, seen |-> seen]
          [] t.ok /\ known(t) \cup range(t) = {} -> Pass(SkipField(t.rest, t.val.wire))
          [] OTHER -> Into(t, Min(IF known(t) # {} THEN known(t) ELSE range(t)))
  IN IF in = << >> THEN [ok |-> TRUE, dest |-> dest, seen |-> seen]
     ELSE Field(ReadTag(in))

\* The words of fields_seen; where the required fields fill them, the last one is
\* compared with allbits shifted by its width, which is undefined.
WordsAreFull(type) ==
  LET n == Cardinality(Required(type)) IN n > 0 /\ n % WordBits = 0

AllSeen(type, seen) ==
  /\ Required(type) \subseteq seen
  /\ WordsAreFull(type) => shift = "zero"

\* pb_decode_noinit
DecodeMessage(in, type, dest) ==
  LET Checked(r) == IF ~ r.ok THEN r ELSE [ok |-> AllSeen(type, r.seen), dest |-> r.dest]
  IN Checked(DecodeFields(in, type, dest, {}))

\* pb_decode_delimited
DecodeDelimited(in, type) ==
  LET sub == Substream(in)
      After(r) == IF sub.ok /\ r.ok THEN [ok |-> TRUE, dest |-> r.dest, rest |-> sub.rest]
                  ELSE [ok |-> FALSE]
  IN After(DecodeMessage(sub.val, type, Defaults(type)))
-----------------------------------------------------------------------------
None == [ok |-> FALSE, dest |-> 1]
Refused == [ok |-> FALSE, dest |-> 0]

Init ==
  /\ msg \in Messages
  /\ shift \in {"zero", "same"}
  /\ shift = "same" => WordsAreFull(msg.reader)   \* seen by no other receiver
  /\ stream = Sizing /\ input = [as |-> "none"] /\ result = None

\* pb_encode to a buffer
Encode(max) ==
  /\ stream = Sizing
  /\ stream' = EncodeMessage(Bounded(max), msg.type, msg.value)
  /\ UNCHANGED <<msg, shift, input, result>>

\* pb_istream_from_buffer
Arrives(as, bytes, other) ==
  /\ stream # Sizing /\ stream.ok /\ input.as = "none"
  /\ input' = [as |-> as, bytes |-> bytes, other |-> other]
  /\ UNCHANGED <<msg, shift, stream, result>>

\* As it was sent, or cut short, or with another one behind it, or before or after
\* what the receiver does not know, or in a buffer it does not fill.
ArrivesWhole == Arrives("whole", stream.out, msg)
ArrivesCut(n) == n < Len(stream.out) /\ Arrives("cut", SubSeq(stream.out, 1, n), msg)
ArrivesWith(other) ==
  /\ other.type = msg.type /\ other.reader = msg.reader
  /\ Arrives("merged", stream.out \o EncodeMessage(Sizing, other.type, other.value).out, other)
ArrivesDelimited(other) ==
  /\ other.type = msg.type /\ other.reader = msg.reader
  /\ Arrives("delimited", EncodeDelimited(Sizing, msg.type, msg.value).out
                            \o EncodeDelimited(Sizing, other.type, other.value).out, other)
ArrivesBefore(u) == Arrives("whole", stream.out \o u, msg)
ArrivesAfter(u) == Arrives("whole", u \o stream.out, msg)
ArrivesPadded == Arrives("whole", stream.out \o <<0, 1>>, msg)

\* pb_decode
Decode ==
  /\ input.as \notin {"none", "delimited"} /\ result = None
  /\ LET Got(r) == IF r.ok THEN r ELSE Refused
     IN result' = Got(DecodeMessage(input.bytes, msg.reader, Defaults(msg.reader)))
  /\ UNCHANGED <<msg, shift, stream, input>>

\* pb_decode_delimited of the one and then of the other.
DecodeBoth ==
  /\ input.as = "delimited" /\ result = None
  /\ LET Both(a, b) ==
           IF b.ok THEN [ok |-> TRUE, dest |-> <<a.dest, b.dest>>] ELSE Refused
         First(a) ==
           IF a.ok THEN Both(a, DecodeDelimited(a.rest, msg.reader)) ELSE Refused
     IN result' = First(DecodeDelimited(input.bytes, msg.reader))
  /\ UNCHANGED <<msg, shift, stream, input>>

Next ==
  \/ \E max \in BufferSizes : Encode(max)
  \/ ArrivesWhole \/ ArrivesPadded
  \/ \E other \in Followers : ArrivesWith(other) \/ ArrivesDelimited(other)
  \/ \E n \in 0..Max(BufferSizes) : ArrivesCut(n)
  \/ \E u \in Unknowns : ArrivesBefore(u) \/ ArrivesAfter(u)
  \/ Decode \/ DecodeBoth

Spec == Init /\ [][Next]_vars
-----------------------------------------------------------------------------
(* What the receiver should have of a message, its field f being the sender's sf *)

RECURSIVE Expected(_, _, _)

Item(f, sf, v) ==
  CASE f.ltype = "submessage" -> Expected(sf.ptr, v, f.ptr)
    [] f.ltype = "string" -> TextOf(sf, v)
    [] f.ltype = "varint" -> IF f.size = Width64 THEN v ELSE Signed(v, Width32)
    [] OTHER -> v

Expected(type, value, reader) ==
  [i \in DOMAIN Types[reader] |->
     LET f     == Types[reader][i]
         same  == {j \in DOMAIN Types[type] : Types[type][j].tag = f.tag}
         sf    == Types[type][Min(same)]
         items == value[Min(same)]
     IN CASE same = {} \/ f.atype = "unset" -> Defaults(reader)[i]
          [] f.htype = "extension" ->
               [e \in DOMAIN items |-> IF IsDefault(f.ptr[e], items[e]) THEN << >> ELSE items[e]]
          [] f.htype = "singular" /\ IsDefault(sf, items) -> Defaults(reader)[i]
          [] OTHER -> [k \in DOMAIN items |-> Item(f, sf, items[k])]]

ReceivedOf(m) == Expected(m.type, m.value, m.reader)

\* Of two messages of a type, one after the other.
RECURSIVE Merged(_, _, _)
Merged(type, a, b) ==
  [i \in DOMAIN Types[type] |->
     LET f == Types[type][i] IN
     CASE f.htype = "repeated" -> a[i] \o b[i]
       [] f.htype = "oneof" ->
            IF \E j \in DOMAIN b : Types[type][j].htype = "oneof" /\ b[j] # << >>
            THEN b[i] ELSE a[i]
       [] f.htype = "extension" -> [e \in DOMAIN f.ptr |-> IF b[i][e] = << >> THEN a[i][e] ELSE b[i][e]]
       [] f.htype = "singular" /\ IsDefault(f, b[i]) -> a[i]
       [] OTHER -> IF b[i] = << >> THEN a[i]
                   ELSE IF f.ltype = "submessage" /\ a[i] # << >>
                   THEN <<Merged(f.ptr, a[i][1], b[i][1])>> ELSE b[i]]

\* Whether the receiver has room for it.
RECURSIVE Fits(_, _)
Fits(reader, dest) ==
  \A i \in DOMAIN Types[reader] :
    LET f == Types[reader][i] IN
    f.htype # "extension" =>
      /\ f.htype = "repeated" /\ f.atype = "static" => Len(dest[i]) <= f.max
      /\ \A k \in DOMAIN dest[i] :
           LET v == dest[i][k] IN
           CASE f.ltype \in {"varint", "svarint"} -> v = Signed(v, f.size)
             [] f.ltype = "uvarint" -> v < 2 ^ f.size
             [] f.ltype = "string" -> Len(v) < f.size
             [] f.ltype = "bytes" -> Len(v) <= f.size
             [] f.ltype = "submessage" -> Fits(f.ptr, v)
             [] OTHER -> TRUE

\* pb_encode and pb_decode: a message is written if the buffer holds it; the
\* receiver has all of it that it knows and has room for, what follows being
\* merged, or read as another when they are delimited, or refuses it; of a message
\* that is cut short it has no part of a field.
MessageSurvives ==
  LET first  == ReceivedOf(msg)
      second == ReceivedOf(input.other)
      merges == input.as = "merged"
      apart  == input.as = "delimited"
      e      == IF merges THEN Merged(msg.reader, first, second) ELSE first
      fits   == /\ Fits(msg.reader, first) /\ Fits(msg.reader, e)
                /\ merges \/ apart => Fits(msg.reader, second)
                /\ (WordsAreFull(msg.reader) => shift = "zero")
  IN /\ stream # Sizing =>
          stream.ok = (Len(EncodeMessage(Sizing, msg.type, msg.value).out) <= stream.max)
     /\ result # None /\ input.as # "cut" =>
          result = IF fits
                   THEN [ok |-> TRUE, dest |-> IF apart THEN <<first, second>> ELSE e] ELSE Refused
     /\ result # None /\ input.as = "cut" /\ result.ok =>
          \A i \in DOMAIN e : LET got == result.dest[i] IN
            \/ got \in {Defaults(msg.reader)[i], e[i]}
            \/ Types[msg.reader][i].htype \in {"repeated", "extension"} /\ Len(got) <= Len(e[i])
                 /\ \A k \in DOMAIN got : got[k] \in {e[i][k], << >>}
=============================================================================
