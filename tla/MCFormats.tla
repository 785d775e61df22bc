----------------------------- MODULE MCFormats -----------------------------
(***************************************************************************)
(* The formats of leveldb (log, tables and what iterators make of them,    *)
(* records and names), of nanopb, and Base64, checked in one run: every    *)
(* behaviour is one of a single part.                                      *)
(***************************************************************************)
EXTENDS Integers, Sequences

CONSTANTS kBlockSize, MaxRecords, RecordLengths, Damages
VARIABLES pc, file, written, damage, reader
Log == INSTANCE LogFormat

CONSTANTS MaxKey, MaxSequence, MaxInserts, BlockSize, BadBlocks
VARIABLES entries, lists, pages, bad, sequence_, merging, it, expected
Iters == INSTANCE Iterators WITH blocks <- pages

CONSTANTS UserKeys, MaxByte, MaxTag, MaxEntries, block_restart_interval,
          block_size, MinOpened, kFilterBase, bits_per_key_, k_, MinBits
VARIABLES phase, data, offset, blocks, index, filters, keys, flipped, table
Sorted == INSTANCE Table

CONSTANTS GroupBits, Width32, Width64, kNumLevels, Slices, Values,
          EditNumbers,
          Levels, MaxUint, PadTo, MaxOps, MaxFields
VARIABLES batch, group, ops, edit, number
Written == INSTANCE Records WITH Keys <- Slices, Numbers <- EditNumbers

CONSTANTS ByteBits, Width32Bits, Width64Bits, WordBits, Types, Messages, Followers,
          Unknowns, BufferSizes
VARIABLES msg, shift, stream, input, result
Nano == INSTANCE Protobuf WITH GroupBits <- ByteBits, Width32 <- Width32Bits,
                               Width64 <- Width64Bits

CONSTANTS UnitBits, ByteValues, MaxBytes, HandshakeLengths, TargetSizes, MaxDamages
VARIABLES source, text, damages, decoded
Text == INSTANCE Base64

VARIABLE part

logVars    == <<pc, file, written, damage, reader>>
iterVars   == <<entries, lists, pages, bad, sequence_, merging, it, expected>>
tableVars  == <<phase, data, offset, blocks, index, filters, keys, flipped, table>>
recordVars == <<batch, group, ops, edit, number>>
nanoVars   == <<msg, shift, stream, input, result>>
textVars   == <<source, text, damages, decoded>>
vars == <<logVars, iterVars, tableVars, recordVars, nanoVars, textVars, part>>

NoIterator ==
  /\ entries = 0 /\ lists = 0 /\ pages = 0 /\ bad = 0 /\ sequence_ = 0
  /\ merging = 0 /\ it = 0 /\ expected = 0
NoMessage == msg = 0 /\ shift = 0 /\ stream = 0 /\ input = 0 /\ result = 0

Init ==
  /\ part \in {"log", "iterator", "table", "batch", "edit", "name", "message", "text"}
  /\ Log!Init /\ Sorted!Init /\ Written!Init /\ Text!Init
  /\ IF part = "iterator" THEN Iters!Init ELSE NoIterator
  /\ IF part = "message" THEN Nano!Init ELSE NoMessage

Next ==
  \/ /\ part = "log" /\ Log!Next
     /\ UNCHANGED <<part, iterVars, tableVars, recordVars, nanoVars, textVars>>
  \/ /\ part = "iterator" /\ Iters!Next
     /\ UNCHANGED <<part, logVars, tableVars, recordVars, nanoVars, textVars>>
  \/ /\ part = "table" /\ Sorted!Next
     /\ UNCHANGED <<part, logVars, iterVars, recordVars, nanoVars, textVars>>
  \/ /\ \/ part = "batch" /\ Written!BatchNext
        \/ part = "edit" /\ Written!EditNext
        \/ part = "name" /\ Written!NameNext
     /\ UNCHANGED <<part, logVars, iterVars, tableVars, nanoVars, textVars>>
  \/ /\ part = "message" /\ Nano!Next
     /\ UNCHANGED <<part, logVars, iterVars, tableVars, recordVars, textVars>>
  \/ /\ part = "text" /\ Text!Next
     /\ UNCHANGED <<part, logVars, iterVars, tableVars, recordVars, nanoVars>>

Spec == Init /\ [][Next]_vars
-----------------------------------------------------------------------------
\* log::Reader: what was written is read back, up to what is damaged.
LogIsRead == part = "log" => Log!LogIsRead

\* DBIter over the merged lists: the newest visible entry of each key, in order.
IteratorIsExact == part = "iterator" => Iters!IteratorIsExact

\* TableBuilder and Table: every key is found in its block, and its filter.
TableIsExact == part = "table" => Sorted!TableIsExact
\* Batches, version edits and file names are read back as they were written,
\* and so is Base64.
RecordsSurvive ==
  /\ part \in {"batch", "edit", "name"} => Written!RecordsSurvive
  /\ part = "text" => Text!Base64IsExact

\* nanopb: a message is decoded as what the reader's fields can hold of it.
MessageSurvives == part = "message" => Nano!MessageSurvives
-----------------------------------------------------------------------------
(* Values of constants *)

MCBadBlocks == {{}, {<<3, 0>>}, {<<3, 2>>}, {<<4, 1>>}}
MCUserKeys == {<<0>>, <<0, 1>>, <<0, 3>>, <<2>>, <<2, 3>>, <<3, 3>>}

MCKeys     == {<<1>>, <<5, 0>>}
MCValues   == {<< >>, <<0, 7, 1>>, <<1, 1, 1, 1, 1>>}

\* An entry of a table of fields.
F(tag, ltype, htype, size, max, ptr) ==
  [tag |-> tag, ltype |-> ltype, htype |-> htype, size |-> size, max |-> max,
   ptr |-> ptr, atype |-> "static"]

MCTypes == [
  scalars |-> << F(1, "uvarint", "required", 10, 0, ""), F(2, "svarint", "optional", 20, 0, ""),
                 F(5, "varint", "optional", 20, 0, ""), F(6, "fixed32", "optional", 10, 0, "") >>,
  narrow  |-> << F(2, "svarint", "optional", 5, 0, ""), F(5, "varint", "optional", 5, 0, "") >>,
  narrower |-> << F(1, "uvarint", "required", 5, 0, ""), F(5, "varint", "optional", 10, 0, "") >>,
  array   |-> << F(1, "uvarint", "repeated", 20, 2, ""), F(2, "bytes", "repeated", 2, 2, "") >>,
  list    |-> << [F(1, "uvarint", "repeated", 20, 0, "") EXCEPT !.atype = "callback"] >>,
  mute    |-> << [F(1, "uvarint", "repeated", 20, 0, "") EXCEPT !.atype = "unset"],
                 F(2, "bytes", "repeated", 2, 2, "") >>,
  outer   |-> << F(1, "submessage", "optional", 0, 0, "array"), F(2, "submessage", "repeated", 0, 3, "text"),
                 F(3, "uvarint", "oneof", 20, 0, ""), F(4, "submessage", "oneof", 0, 0, "list") >>,
  text    |-> << F(1, "string", "singular", 3, 0, ""), F(2, "fixedbytes", "singular", 2, 0, ""),
                 F(3, "submessage", "singular", 0, 0, "small") >>,
  small   |-> << F(1, "fixed64", "singular", 20, 0, "") >>,
  plain   |-> << F(1, "uvarint", "singular", 20, 0, "") >>,
  open    |-> << F(1, "uvarint", "singular", 20, 0, ""),
                 F(3, "", "extension", 0, 0, << F(4, "varint", "optional", 20, 0, ""),
                                                 F(5, "uvarint", "optional", 20, 0, "") >>) >>,
  pair    |-> << F(1, "uvarint", "required", 10, 0, ""), F(2, "uvarint", "required", 10, 0, "") >> ]

M(type, readers, values) == {[type |-> type, value |-> v, reader |-> r] : v \in values, r \in readers}

Texts == { <<t, <<b>>, <<s>> >> : t \in {<< << >> >>, << <<1, 0, 4>> >>, << <<7, 8, 9>> >>}, b \in {<<0, 0>>, <<3, 4>>},
            s \in { << <<0>> >>, << <<700>> >> } }
Plain == {x \in Texts : x[2] = << <<3, 4>> >> /\ x[1] # << << >> >>}
Arrays == {<<n, b>> : n \in {<< >>, <<0>>, <<300, 1>>}, b \in {<< >>, << <<1>>, << >> >>, << <<20, 31>> >>}}
MCMessages ==
  M("scalars", {"scalars", "narrow", "narrower"},
    {<< <<a>>, b, c, d>> : a \in {1, 500}, b \in {<< >>, <<-9>>, <<70000>>},
                         c \in {<< >>, <<-1>>, <<40>>, <<100000>>}, d \in {<< >>, <<700>>}})
  \cup M("array", {"array", "list", "mute"}, Arrays)
  \cup M("list", {"list", "array"}, {<<n>> : n \in {<< >>, <<5, 0>>, <<5, 6, 7>>}})
  \cup M("outer", {"outer"},
         {<<a, t, u, w>> : a \in {<< >>} \cup {<<x>> : x \in Arrays},
            t \in {<< >>} \cup {<<x, CHOOSE y \in Texts : y # x>> : x \in Plain},
            u \in {<< >>}, w \in {<< >>, << << <<5, 0>> >> >>}}
         \cup {<< << >>, << >>, <<n>>, << >> >> : n \in {0, 9}})
  \cup M("text", {"text"}, Texts)
  \cup M("open", {"open", "plain"},
         {<< <<a>>, <<e, f>> >> : a \in {0, 9}, e \in {<< >>, <<-4>>, <<0>>}, f \in {<< >>, <<6>>}})
  \cup M("pair", {"pair"}, {<< <<3>>, <<4>> >>})
MCFollowers ==
  {m \in MCMessages :
     \/ m.type \in {"array", "list", "text", "open", "pair"}
     \/ m.type = "scalars" /\ m.value[1] = <<1>> /\ m.value[2] # <<-9>>
     \/ m.type = "outer" /\ m.value[2] = << >> /\ m.value[1] # << >>}
  \cup M("outer", {"outer"}, {<< << >>, << >>, <<9>>, << >> >>, << << >>, << >>, << >>, << << <<6>> >> >> >>})
MCUnknowns == {<<26, 3, 2, 1, 17>>, <<24, 3, 17, 1>>, <<29, 3, 0, 0>>}
=============================================================================
