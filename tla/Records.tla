------------------------------ MODULE Records ------------------------------
(***************************************************************************)
(* The records of leveldb and how they are read back: varints and slices   *)
(* (util/coding.cc), the batch of a write (db/write_batch.cc), the entry   *)
(* of a memtable (db/memtable.cc), the edit of a manifest                  *)
(* (db/version_edit.cc) and the names of files (db/filename.cc).           *)
(*                                                                         *)
(* A byte is a number below 2 * B: a group of a varint and the bit that    *)
(* says that more follow.  B stands for 128, and 32 and 64 bits for the    *)
(* widths Width32 and Width64; a fixed integer is one cell.                *)
(***************************************************************************)
EXTENDS Integers, FiniteSetsExt, SequencesExt

CONSTANTS
  GroupBits, Width32, Width64,
  kNumLevels,
  Keys, Values,       \* slices: sequences of bytes
  Numbers, Levels,    \* bound: of edits
  MaxUint, PadTo,     \* the largest number of a file name, and its digits
  MaxOps, MaxFields   \* bounds: operations of a batch, entries of an edit

VARIABLES
  batch,    \* of a writer: sequence, count and body of rep_
  group,    \* tmp_batch_, to which the leader appends batches
  ops,      \* the operations put in each of them
  edit,     \* a VersionEdit
  number    \* next_file_number_

vars == <<batch, group, ops, edit, number>>

B == 2 ^ GroupBits
-----------------------------------------------------------------------------
(* util/coding.cc.  Reading gives the value and the rest, or Bad. *)

Bad == [ok |-> FALSE]
Got(value, rest) == [ok |-> TRUE, value |-> value, rest |-> rest]

RECURSIVE PutVarint(_)
PutVarint(v) == IF v < B THEN <<v>> ELSE <<(v % B) + B>> \o PutVarint(v \div B)

PutSlice(s) == PutVarint(Len(s)) \o s

\* The shifts 0, 7, ... of GetVarint32Ptr and GetVarint64Ptr.
Groups(width) == ((width - 1) \div GroupBits) + 1

GetVarint(input, width) ==
  LET ends == {i \in 1..Min({Len(input), Groups(width)}) : input[i] < B}
      Upto(n) == Got(FoldLeft(LAMBDA v, i : (v + (input[i] % B) * B ^ (i - 1)) % 2 ^ width,
                              0, [i \in 1..n |-> i]),
                     SubSeq(input, n + 1, Len(input)))
  IN IF ends = {} THEN Bad ELSE Upto(Min(ends))

GetSlice(input) ==
  LET Behind(len) ==
        IF ~ len.ok \/ (len.ok /\ Len(len.rest) < len.value) THEN Bad
        ELSE Got(SubSeq(len.rest, 1, len.value),
                 SubSeq(len.rest, len.value + 1, Len(len.rest)))
  IN Behind(GetVarint(input, Width32))

\* VersionEdit's GetLevel
GetLevel(input) ==
  LET Checked(v) == IF v.ok /\ v.value < kNumLevels THEN v ELSE Bad
  IN Checked(GetVarint(input, Width32))

GetField(kind, input) ==
  CASE kind = "level"  -> GetLevel(input)
    [] kind = "number" -> GetVarint(input, Width64)
    [] kind = "slice"  -> GetSlice(input)

\* Fields one after the other, as far as they can be read.
GetFields(kinds, input) ==
  LET Longer(values, f) == IF f.ok THEN Got(Append(values, f.value), f.rest) ELSE Bad
  IN FoldLeft(LAMBDA got, kind : IF ~ got.ok THEN got
                                 ELSE Longer(got.value, GetField(kind, got.rest)),
              Got(<< >>, input), kinds)
-----------------------------------------------------------------------------
(* WriteBatch *)

kTypeDeletion == 0
kTypeValue    == 1

EmptyBatch == [sequence |-> 0, count |-> 0, body |-> << >>]

\* An operation handed to a Handler.
PutOp(key, value) == [type |-> kTypeValue, key |-> key, value |-> value]
DeleteOp(key)     == [type |-> kTypeDeletion, key |-> key, value |-> << >>]

EncodeOp(op) ==
  <<op.type>> \o PutSlice(op.key)
    \o (IF op.type = kTypeValue THEN PutSlice(op.value) ELSE << >>)

Added(b, op) == [b EXCEPT !.count = @ + 1, !.body = @ \o EncodeOp(op)]

\* Faulty variant: the count of dst is not raised.
AppendedBodies(dst, src) == [dst EXCEPT !.body = @ \o src.body]

\* WriteBatchInternal::Append
AppendedTo(dst, src) ==
  [dst EXCEPT !.count = @ + src.count, !.body = @ \o src.body]

\* The loop of WriteBatch::Iterate: what reached the handler, and whether all
\* of the input could be read.
RECURSIVE Iterated(_, _)
Iterated(input, handed) ==
  IF input = << >> THEN [ok |-> TRUE, ops |-> handed]
  ELSE LET type   == Head(input)
           kinds  == IF type = kTypeValue THEN <<"slice", "slice">> ELSE <<"slice">>
           Hand(fields) ==
             IF type \notin {kTypeValue, kTypeDeletion} \/ ~ fields.ok
             THEN [ok |-> FALSE, ops |-> handed]
             ELSE Iterated(fields.rest,
                    Append(handed, IF type = kTypeValue
                                   THEN PutOp(fields.value[1], fields.value[2])
                                   ELSE DeleteOp(fields.value[1])))
       IN Hand(GetFields(kinds, Tail(input)))

\* WriteBatch::Iterate
Iterate(b) ==
  LET all == Iterated(b.body, << >>)
  IN [all EXCEPT !.ok = @ /\ Len(all.ops) = b.count]

\* MemTable::Add: the entry of the i-th operation of MemTableInserter.
Entry(op, sequence) ==
  PutVarint(Len(op.key) + 1) \o op.key \o <<2 * sequence + op.type>>
    \o PutSlice(op.value)

\* MemTable::Get of an entry the list was positioned at.
EntryOp(entry) ==
  LET Of(len) ==
        LET tag   == len.rest[len.value]
            after == SubSeq(len.rest, len.value + 1, Len(len.rest))
        IN [key |-> SubSeq(len.rest, 1, len.value - 1), sequence |-> tag \div 2,
            type |-> tag % 2,
            value |-> IF tag % 2 = kTypeValue THEN GetSlice(after).value ELSE << >>]
  IN Of(GetVarint(entry, Width32))
-----------------------------------------------------------------------------
(* VersionEdit: the fields that are set, and the lists. *)

kComparator     == 1
kLogNumber      == 2
kNextFileNumber == 3
kLastSequence   == 4
kCompactPointer == 5
kDeletedFile    == 6
kNewFile        == 7
kPrevLogNumber  == 9

NoEdit == [set |-> << >>, pointers |-> << >>, deleted |-> {}, files |-> << >>]

KindsOf(tag) ==
  CASE tag = kComparator -> <<"slice">>
    [] tag \in {kLogNumber, kPrevLogNumber, kNextFileNumber, kLastSequence} ->
         <<"number">>
    [] tag = kCompactPointer -> <<"level", "slice">>
    [] tag = kDeletedFile    -> <<"level", "number">>
    [] tag = kNewFile -> <<"level", "number", "number", "slice", "slice">>

PutField(kind, value) == IF kind = "slice" THEN PutSlice(value) ELSE PutVarint(value)

PutFields(tag, values) ==
  FoldLeft(LAMBDA s, i : s \o PutField(KindsOf(tag)[i], values[i]),
           PutVarint(tag), [i \in DOMAIN values |-> i])

PutAll(tag, list) == FoldLeft(LAMBDA s, v : s \o PutFields(tag, v), << >>, list)

\* The order of a set of pairs.
InOrder(pairs) ==
  SetToSortSeq(pairs, LAMBDA p, q : p[1] < q[1] \/ (p[1] = q[1] /\ p[2] < q[2]))

\* EncodeTo
EncodeTo(e) ==
  FoldLeft(LAMBDA s, tag : IF tag \in DOMAIN e.set
                           THEN s \o PutFields(tag, <<e.set[tag]>>) ELSE s,
           << >>, <<kComparator, kLogNumber, kPrevLogNumber, kNextFileNumber,
                    kLastSequence>>)
    \o PutAll(kCompactPointer, e.pointers)
    \o PutAll(kDeletedFile, InOrder(e.deleted))
    \o PutAll(kNewFile, e.files)

\* One entry read, or set by a caller: Set..., AddFile, DeleteFile.
With(e, tag, values) ==
  CASE tag = kCompactPointer -> [e EXCEPT !.pointers = Append(@, values)]
    [] tag = kDeletedFile    -> [e EXCEPT !.deleted = @ \union {values}]
    [] tag = kNewFile        -> [e EXCEPT !.files = Append(@, values)]
    [] OTHER -> [e EXCEPT !.set = [t \in DOMAIN @ \union {tag} |->
                                     IF t = tag THEN values[1] ELSE @[t]]]

Tags == {1, 2, 3, 4, 5, 6, 7, 9}

\* DecodeFrom, into an edit that has just been made.
RECURSIVE Decoded(_, _)
Decoded(e, input) ==
  LET Failed == [ok |-> FALSE, edit |-> e]
      Read(tag, fields) ==
        IF ~ fields.ok THEN Failed
        ELSE Decoded(With(e, tag, fields.value), fields.rest)
      Entry_(tag) ==
        CASE ~ tag.ok -> [ok |-> input = << >>, edit |-> e]
          [] tag.ok /\ tag.value \notin Tags -> Failed
          [] OTHER -> Read(tag.value, GetFields(KindsOf(tag.value), tag.rest))
  IN Entry_(GetVarint(input, Width32))
-----------------------------------------------------------------------------
(* db/filename.cc.  A name is its prefix, its digits and its suffix. *)

NumberedTypes == {"log", "ldb", "sst", "dbtmp", "MANIFEST"}

\* The conversion of snprintf, without the padding.
RECURSIVE Digits(_)
Digits(n) == IF n < 10 THEN <<n>> ELSE Append(Digits(n \div 10), n % 10)

\* %06llu
Padded(n) == [i \in 1..(PadTo - Len(Digits(n))) |-> 0] \o Digits(n)

FileName(type, n) ==
  IF type = "MANIFEST" THEN [prefix |-> type, digits |-> Padded(n), suffix |-> "none"]
  ELSE [prefix |-> "none", digits |-> Padded(n), suffix |-> type]

\* ConsumeDecimalNumber, which tests for overflow before every digit.
ConsumeDecimal(digits) ==
  FoldLeft(LAMBDA v, d :
             IF ~ v.ok \/ v.value > MaxUint \div 10
                \/ (v.value = MaxUint \div 10 /\ d > MaxUint % 10) THEN Bad
             ELSE Got(v.value * 10 + d, << >>),
           Got(0, << >>), digits)

TypeOfName(name) ==
  CASE name.prefix = "MANIFEST" /\ name.suffix = "none" -> "descriptor"
    [] name.prefix = "none" /\ name.suffix = "log" -> "log"
    [] name.prefix = "none" /\ name.suffix \in {"sst", "ldb"} -> "table"
    [] name.prefix = "none" /\ name.suffix = "dbtmp" -> "temp"
    [] OTHER -> "none"

\* ParseFileName
ParseFileName(name) ==
  LET Of(n) == IF name.digits = << >> \/ ~ n.ok \/ TypeOfName(name) = "none" THEN Bad
               ELSE Got(n.value, TypeOfName(name))
  IN Of(ConsumeDecimal(name.digits))
-----------------------------------------------------------------------------
Init ==
  /\ batch = EmptyBatch /\ group = EmptyBatch
  /\ ops = [batch |-> << >>, group |-> << >>]
  /\ edit = NoEdit
  /\ number = 1

\* WriteBatch::Put and Delete
AddOp(op) ==
  /\ Len(ops.batch) + Len(ops.group) < MaxOps
  /\ batch' = Added(batch, op)
  /\ ops' = [ops EXCEPT !.batch = Append(@, op)]
  /\ UNCHANGED <<group, edit, number>>

\* BuildBatchGroup appends the batch of a writer, and Write gives the group its
\* sequence number.
JoinGroup(sequence) ==
  /\ batch.count > 0
  /\ group' = [AppendedTo(group, batch) EXCEPT !.sequence = sequence]
  /\ ops' = [batch |-> << >>, group |-> ops.group \o ops.batch]
  /\ batch' = EmptyBatch
  /\ UNCHANGED <<edit, number>>

BatchNext ==
  \/ \E key \in Keys, value \in Values : AddOp(PutOp(key, value))
  \/ \E key \in Keys : AddOp(DeleteOp(key))
  \/ \E sequence \in Numbers : JoinGroup(sequence)

Entries(e) == Cardinality(DOMAIN e.set) + Len(e.pointers) + Cardinality(e.deleted)
                + Len(e.files)

\* The setters of VersionEdit.
SetField(tag, values) ==
  /\ Entries(edit) < MaxFields
  /\ edit' = With(edit, tag, values)
  /\ UNCHANGED <<batch, group, ops, number>>

EditNext ==
  \/ \E key \in Keys : SetField(kComparator, <<key>>)
  \/ \E tag \in {kLogNumber, kPrevLogNumber, kNextFileNumber, kLastSequence},
        n \in Numbers : SetField(tag, <<n>>)
  \/ \E level \in Levels, key \in Keys : SetField(kCompactPointer, <<level, key>>)
  \/ \E level \in Levels, n \in Numbers : SetField(kDeletedFile, <<level, n>>)
  \/ \E level \in Levels, n, size \in Numbers, smallest, largest \in Keys :
        SetField(kNewFile, <<level, n, size, smallest, largest>>)

\* NewFileNumber
NameNext ==
  /\ number < MaxUint
  /\ number' = number + 1
  /\ UNCHANGED <<batch, group, ops, edit>>

Next == BatchNext \/ EditNext \/ NameNext

Spec == Init /\ [][Next]_vars
-----------------------------------------------------------------------------
\* A record of which the end is missing.
CutShort(s) == {SubSeq(s, 1, n) : n \in 0..(Len(s) - 1)}

\* WriteBatchInternal::Append and WriteBatch::Iterate: a group hands over the
\* operations of its batches, in their order, with consecutive sequence numbers;
\* one of which the end is missing is told by a bad length or the count.
BatchesSurvive ==
  /\ Iterate(group) = [ok |-> TRUE, ops |-> ops.group]
  /\ \A i \in DOMAIN ops.group :
       LET op == ops.group[i]
           sequence == group.sequence + i - 1
       IN EntryOp(Entry(op, sequence)) =
            [key |-> op.key, sequence |-> sequence, type |-> op.type,
             value |-> op.value]
  /\ \A body \in CutShort(group.body) :
       LET got == Iterate([group EXCEPT !.body = body])
       IN ~ got.ok /\ IsPrefix(got.ops, ops.group)

\* What an edit may be when the end of its record is missing: that edit, without
\* some of its last entries.
PartOf(e, whole) ==
  /\ \A tag \in DOMAIN e.set : tag \in DOMAIN whole.set /\ e.set[tag] = whole.set[tag]
  /\ IsPrefix(e.pointers, whole.pointers) /\ IsPrefix(e.files, whole.files)
  /\ e.deleted \subseteq whole.deleted
  /\ e.files # << >> => e.deleted = whole.deleted /\ e.pointers = whole.pointers

\* VersionEdit::EncodeTo and DecodeFrom: an edit is read as it was written, and
\* one cut short is a corruption or lacks whole entries, never has another one.
EditsSurvive ==
  /\ Decoded(NoEdit, EncodeTo(edit)) = [ok |-> TRUE, edit |-> edit]
  /\ \A s \in CutShort(EncodeTo(edit)) : PartOf(Decoded(NoEdit, s).edit, edit)

\* ParseFileName: a file is read back with its type and number, up to the last
\* number there is, and a larger number is refused.
NamesSurvive ==
  \A type \in NumberedTypes :
    LET got == ParseFileName(FileName(type, number))
    IN /\ got.ok /\ got.value = number
       /\ got.rest = CASE type = "MANIFEST" -> "descriptor" [] type = "log" -> "log"
                        [] type = "dbtmp" -> "temp" [] OTHER -> "table"
       /\ ~ ParseFileName(FileName(type, number + MaxUint)).ok

\* What is written to a file, or its name, is read back.
RecordsSurvive == BatchesSurvive /\ EditsSurvive /\ NamesSurvive
=============================================================================
