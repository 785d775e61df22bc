------------------------------- MODULE Table -------------------------------
(***************************************************************************)
(* How a table of leveldb is laid out and searched: blocks of keys that    *)
(* share their prefixes (table/block_builder.cc, table/block.cc), an index *)
(* of shortened keys (table/table_builder.cc, db/dbformat.cc,              *)
(* util/comparator.cc), filters (table/filter_block.cc, util/bloom.cc);    *)
(* and how a table is opened and searched (table/table.cc,                 *)
(* table/format.cc) when a part of its file has changed on the medium.     *)
(*                                                                         *)
(* A user key is a sequence of bytes; an internal key has one byte more,   *)
(* its tag.  A value takes one byte and is not modelled.                   *)
(***************************************************************************)
EXTENDS Naturals, FiniteSetsExt, SequencesExt

CONSTANTS
  UserKeys,                 \* sequences over 0..MaxByte
  MaxByte,                  \* stands for 0xff
  MaxTag,                   \* tags are 1..MaxTag; above it, that of a seek
  MaxEntries,               \* bound: entries of the table
  MinOpened,                \* bound: entries of a table that is opened
  block_restart_interval, block_size,
  kFilterBase, bits_per_key_, k_, MinBits

VARIABLES
  phase,     \* "add", or "closed" after Finish
  data,      \* data_block: its entries, restarts_, last_key_, counter_
  offset,    \* of the file
  blocks,    \* the blocks written, and where each starts
  index,     \* index_block: the key of every block but one that is pending
  filters,   \* filter_block: the filters so far and the keys of the next
  keys,      \* the keys added, in order
  flipped,   \* the parts of the file that have changed
  table      \* the table, as Table::Open leaves it

writerVars == <<data, offset, blocks, index, filters, keys>>
vars == <<phase, writerVars, flipped, table>>

NoCursor == [at |-> 0]
-----------------------------------------------------------------------------
(* Comparators *)

User(k) == SubSeq(k, 1, Len(k) - 1)
Tag(k)  == k[Len(k)]

Min2(a, b) == IF a < b THEN a ELSE b

\* The length of the common prefix.
Shared(a, b) ==
  Max({n \in 0..Min2(Len(a), Len(b)) : SubSeq(a, 1, n) = SubSeq(b, 1, n)})

\* Slice::compare
UserLess(a, b) ==
  LET n == Shared(a, b) IN
  \/ n = Len(a) /\ n < Len(b)
  \/ n < Len(a) /\ n < Len(b) /\ a[n + 1] < b[n + 1]

\* InternalKeyComparator::Compare
Less(a, b) == \/ UserLess(User(a), User(b))
              \/ User(a) = User(b) /\ Tag(a) > Tag(b)

\* BytewiseComparatorImpl::FindShortestSeparator and FindShortSuccessor.
UserSeparator(start, limit) ==
  LET n == Shared(start, limit) IN
  IF /\ n < Len(start) /\ n < Len(limit)
     /\ start[n + 1] < MaxByte /\ start[n + 1] + 1 < limit[n + 1]
  THEN Append(SubSeq(start, 1, n), start[n + 1] + 1)
  ELSE start

UserSuccessor(key) ==
  LET low == {i \in DOMAIN key : key[i] # MaxByte}
  IN IF low = {} THEN key
     ELSE Append(SubSeq(key, 1, Min(low) - 1), key[Min(low)] + 1)

\* Those of InternalKeyComparator: a shorter key gets the earliest tag.
Shortened(key, user) ==
  IF Len(user) < Len(User(key)) /\ UserLess(User(key), user)
  THEN Append(user, MaxTag + 1) ELSE key

Separator(start, limit) ==
  Shortened(start, UserSeparator(User(start), User(limit)))

Successor(key) == Shortened(key, UserSuccessor(User(key)))
-----------------------------------------------------------------------------
(* BlockBuilder and Block::Iter.  An entry stands for its bytes; positions   *)
(* and restart points are numbers of entries.                                *)

EmptyBlock == [entries |-> << >>, restarts |-> <<1>>, last_key |-> << >>,
               counter |-> 0]

\* BlockBuilder::Add
AddToBlock(b, key) ==
  LET restart == b.counter >= block_restart_interval
      shared  == IF restart THEN 0 ELSE Shared(b.last_key, key)
      entry   == [shared |-> shared, delta |-> SubSeq(key, shared + 1, Len(key))]
  IN [entries  |-> Append(b.entries, entry),
      restarts |-> IF restart THEN Append(b.restarts, Len(b.entries) + 1)
                   ELSE b.restarts,
      last_key |-> key,
      counter  |-> IF restart THEN 1 ELSE b.counter + 1]

\* CurrentSizeEstimate, in bytes.
SizeEstimate(b) ==
  FoldLeft(LAMBDA n, e : n + 3 + Len(e.delta) + 1, 0, b.entries)
    + 4 * Len(b.restarts) + 4

\* SeekToRestartPoint and as many ParseNextKey as it takes to reach entry n.
KeyFrom(b, restart, n) ==
  FoldLeft(LAMBDA key, e : SubSeq(key, 1, e.shared) \o e.delta, << >>,
           SubSeq(b.entries, b.restarts[restart], n))

\* ParseNextKey: an entry, and the restart_index_ reached from the one before.
Parsed(b, restart, n, key) ==
  IF n > Len(b.entries) THEN NoCursor
  ELSE [at |-> n, key |-> SubSeq(key, 1, b.entries[n].shared) \o b.entries[n].delta,
        restart |-> Max({restart} \union {i \in DOMAIN b.restarts : b.restarts[i] < n})]

BlockNext(b, c) == Parsed(b, c.restart, c.at + 1, c.key)

\* Block::Iter::Prev: from the restart point before the entry.
BlockPrev(b, c) ==
  LET before == {i \in 1..c.restart : b.restarts[i] < c.at}
  IN IF before = {} THEN NoCursor
     ELSE Parsed(b, Max(before), c.at - 1, KeyFrom(b, Max(before), c.at - 2))

\* The binary search of Block::Iter::Seek over the restart points.
RECURSIVE RestartBefore(_, _, _, _)
RestartBefore(b, target, left, right) ==
  LET mid == (left + right + 1) \div 2
  IN IF left >= right THEN left
     ELSE IF Less(b.entries[b.restarts[mid]].delta, target)
          THEN RestartBefore(b, target, mid, right)
          ELSE RestartBefore(b, target, left, mid - 1)

RECURSIVE SearchFrom(_, _, _)
SearchFrom(b, c, target) ==
  IF c = NoCursor \/ ~ Less(c.key, target) THEN c
  ELSE SearchFrom(b, BlockNext(b, c), target)

BlockSeek(b, target) ==
  LET left == RestartBefore(b, target, 1, Len(b.restarts))
  IN SearchFrom(b, Parsed(b, left, b.restarts[left], << >>), target)

\* SeekToFirst, and SeekToLast from the last restart point.
BlockFirst(b) == Parsed(b, 1, 1, << >>)
BlockLast(b) ==
  LET last == Len(b.restarts)
  IN Parsed(b, last, Len(b.entries), KeyFrom(b, last, Len(b.entries) - 1))
-----------------------------------------------------------------------------
(* FilterBlockBuilder, FilterBlockReader and the Bloom filter *)

\* BloomHash and its rotation: any function of the key will do.
Hash(user)  == FoldLeft(LAMBDA h, b : (h * 31 + b + 7) % 997, 5, user)
Delta(user) == (Hash(user) * 13 + 1) % 997

Probes(user, bits) == {((Hash(user) + j * Delta(user)) % 997) % bits : j \in 0..(k_ - 1)}

\* BloomFilterPolicy::CreateFilter: a user key counts as often as it was added.
CreateFilter(users) ==
  LET wanted == Max({MinBits, Len(users) * bits_per_key_})
      bits   == ((wanted + 7) \div 8) * 8
  IN [bits |-> bits, set |-> UNION {Probes(u, bits) : u \in ToSet(users)}]

NoFilter == [bits |-> 0, set |-> {}]

\* GenerateFilter; of no keys it is empty.
Generate(f) ==
  [done |-> Append(f.done, IF f.keys = << >> THEN NoFilter ELSE CreateFilter(f.keys)),
   keys |-> << >>]

\* Faulty variant: a block is counted to the filter that is being made.
StartBlockLate(f, at) ==
  FoldLeft(LAMBDA g, i : IF i > Len(g.done) + 1 THEN Generate(g) ELSE g, f,
           [i \in 1..(at \div kFilterBase) |-> i])

\* StartBlock
StartBlock(f, at) ==
  FoldLeft(LAMBDA g, i : IF i > Len(g.done) THEN Generate(g) ELSE g, f,
           [i \in 1..(at \div kFilterBase) |-> i])

FinishFilters(f) == IF f.keys = << >> THEN f ELSE Generate(f)

\* BloomFilterPolicy::KeyMayMatch, and FilterBlockReader's.
MayMatch(filter, user) ==
  filter # NoFilter /\ Probes(user, filter.bits) \subseteq filter.set

KeyMayMatch(at, user) ==
  LET i == at \div kFilterBase + 1
  IN i \in DOMAIN filters.done => MayMatch(filters.done[i], user)
-----------------------------------------------------------------------------
(* TableBuilder *)

NoTable == [open |-> FALSE]

Init ==
  /\ phase = "add" /\ data = EmptyBlock /\ offset = 0
  /\ blocks = << >> /\ index = << >>
  /\ filters = [done |-> << >>, keys |-> << >>]
  /\ keys = << >>
  /\ flipped = {} /\ table = NoTable

\* Flush and WriteRawBlock: the block and a trailer of five bytes.
Written(b) == [block |-> b, offset |-> offset]
AfterBlock(b) == offset + SizeEstimate(b) + 5

\* Add: the index entry of the block before is made from the first key after it.
Add(key) ==
  /\ phase = "add" /\ Len(keys) < MaxEntries
  /\ keys # << >> => Less(Last(keys), key)
  /\ keys' = Append(keys, key)
  /\ index' = IF Len(index) < Len(blocks) THEN Append(index, Separator(Last(keys), key))
              ELSE index
  /\ LET b == AddToBlock(data, key)
         f == [filters EXCEPT !.keys = Append(@, User(key))]
     IN IF SizeEstimate(b) >= block_size
        THEN /\ blocks' = Append(blocks, Written(b))
             /\ offset' = AfterBlock(b)
             /\ filters' = StartBlock(f, AfterBlock(b))
             /\ data' = EmptyBlock
        ELSE /\ data' = b
             /\ filters' = f
             /\ UNCHANGED <<blocks, offset>>
  /\ UNCHANGED <<phase, flipped, table>>

\* Finish: what is left, and the last index entry.
Finish ==
  /\ phase = "add" /\ keys # << >>
  /\ phase' = "closed"
  /\ LET flushes == data.entries # << >>
         after == IF flushes THEN StartBlock(filters, AfterBlock(data)) ELSE filters
     IN /\ blocks' = IF flushes THEN Append(blocks, Written(data)) ELSE blocks
        /\ offset' = IF flushes THEN AfterBlock(data) ELSE offset
        /\ filters' = FinishFilters(after)
  /\ index' = Append(index, Successor(Last(keys)))
  /\ data' = EmptyBlock
  /\ UNCHANGED <<keys, flipped, table>>
-----------------------------------------------------------------------------
(* Table::Open *)

DataPart(i) == <<"data", i>>
FilterPart    == <<"filter", 1>>
MetaindexPart == <<"metaindex", 1>>
IndexPart     == <<"index", 1>>
FooterPart    == <<"footer", 1>>
DataParts == {DataPart(i) : i \in DOMAIN blocks}
Parts == DataParts \union {FilterPart, MetaindexPart, IndexPart, FooterPart}

\* A part of the file changes: bytes on the medium are not what was written.
Flip(part) ==
  /\ phase = "closed" /\ Len(keys) >= MinOpened
  /\ flipped = {} /\ ~ table.open
  /\ flipped' = {part}
  /\ UNCHANGED <<phase, writerVars, table>>

\* ReadBlock: "garbled" is a changed block whose checksum is not verified.
ReadBlock(part, verify) ==
  IF part \notin flipped THEN {"good"}
  ELSE IF verify THEN {"error"} ELSE {"error", "garbled"}

\* Footer::DecodeFrom: the footer has a magic number, and no checksum.
DecodeFooter == IF FooterPart \in flipped THEN {"error", "garbled"} ELSE {"good"}

\* A block at a handle of the footer, either of which may be the one that changed;
\* a handle that changed leads to no whole block.
AtHandle(footer, part, verify) ==
  IF footer = "good" THEN ReadBlock(part, verify)
  ELSE {"good", "error"} \union (IF verify THEN {} ELSE {"garbled"})

\* ReadFilter and ReadMeta: what is wrong with them leaves the table no filter.
ReadFilter(verify) ==
  {IF b = "error" THEN "none" ELSE b : b \in ReadBlock(FilterPart, verify)}

ReadMeta(footer, verify) ==
  UNION {CASE meta = "good" -> ReadFilter(verify)
           [] meta = "error" -> {"none"}
           [] meta = "garbled" -> {"none", "garbled"}
         : meta \in AtHandle(footer, MetaindexPart, verify)}

Open(paranoid_checks, filter_policy) ==
  /\ phase = "closed" /\ Len(keys) >= MinOpened
  /\ ~ table.open
  /\ \E footer \in DecodeFooter :
       \E contents \in AtHandle(footer, IndexPart, paranoid_checks),
          filter \in IF filter_policy THEN ReadMeta(footer, paranoid_checks) ELSE {"none"} :
         /\ footer # "error" /\ contents # "error"
         /\ table' = [open |-> TRUE, paranoid |-> paranoid_checks, index |-> contents,
                      filter |-> filter]
  /\ UNCHANGED <<phase, writerVars, flipped>>

Next ==
  \/ \E u \in UserKeys, tag \in 1..MaxTag : Add(Append(u, tag))
  \/ Finish
  \/ \E part \in Parts : Flip(part)
  \/ \E paranoid_checks, filter_policy \in BOOLEAN : Open(paranoid_checks, filter_policy)

Spec == Init /\ [][Next]_vars
-----------------------------------------------------------------------------
(* Reading a closed table *)

\* The seek of the index: the index block is one of restart interval 1.
IndexBlock == FoldLeft(LAMBDA b, k : AddToBlock([b EXCEPT !.counter =
                                IF @ = 0 THEN 0 ELSE block_restart_interval], k),
                       EmptyBlock, index)

Found(key) == [is |-> "found", key |-> key]
NotFound   == [is |-> "none"]
Corrupt    == [is |-> "error"]

\* Table::InternalGet: what may come of it, NotFound standing for whatever a
\* garbled block may give.
InternalGet(t, key, verify) ==
  LET i    == BlockSeek(IndexBlock, key).at
      c    == BlockSeek(blocks[i].block, key)
      read == {CASE b = "error" -> Corrupt
                 [] b = "good" /\ c # NoCursor -> Found(c.key)
                 [] OTHER -> NotFound : b \in ReadBlock(DataPart(i), verify)}
  IN CASE t.index = "garbled" -> {NotFound, Corrupt}
       [] t.index = "good" /\ i = 0 -> {NotFound}
       [] t.index = "good" /\ i # 0 ->
            CASE t.filter = "garbled" -> {NotFound} \union read
              [] t.filter = "good" /\ ~ KeyMayMatch(blocks[i].offset, User(key)) -> {NotFound}
              [] OTHER -> read

\* Table::ApproximateOffsetOf, the metaindex being at the end of the blocks.
ApproximateOffsetOf(key) ==
  LET i == BlockSeek(IndexBlock, key).at IN IF i = 0 THEN offset ELSE blocks[i].offset

\* What a lookup of a user key as of a tag should give: the newest entry of that
\* key at or before it; an entry of another key is as good as none.
IsRight(got, u, tag) ==
  LET tags == {t \in 1..tag : \E i \in DOMAIN keys : keys[i] = Append(u, t)}
  IN IF tags # {} THEN got = Found(Append(u, Max(tags)))
     ELSE got = NotFound \/ (got.is = "found" /\ User(got.key) # u)

Lookups == UserKeys \X (1..(MaxTag + 1))

\* No shortened index key and no filter hides an entry, whatever block it is in.
LookupIsExact ==
  phase = "closed" /\ flipped = {} =>
    \A l \in Lookups : \A filter \in {"good", "none"} :
      \A got \in InternalGet([index |-> "good", filter |-> filter],
                             Append(l[1], l[2]), FALSE) : IsRight(got, l[1], l[2])

\* Whatever part of the file has changed, a lookup that verifies checksums is right
\* or reports the corruption, if the table was opened with paranoid_checks or only
\* a data block has changed; and a filter that has changed costs no entry.
DamageIsSeen ==
  table.open /\ (table.paranoid \/ flipped \subseteq DataParts) =>
    \A l \in Lookups : \A got \in InternalGet(table, Append(l[1], l[2]), TRUE) :
      \/ IsRight(got, l[1], l[2])
      \/ got = Corrupt /\ flipped \subseteq DataParts

\* From any entry of any block, Next and Prev give its neighbours, with their
\* keys, whatever restart points lie between.
BlocksTurnRound ==
  flipped = {} => \A n \in DOMAIN blocks :
    LET b == blocks[n].block
        base == FoldLeft(LAMBDA m, i : m + Len(blocks[i].block.entries), 0,
                         [i \in 1..(n - 1) |-> i])
        key(i) == keys[base + i]
    IN \A i \in DOMAIN b.entries :
         LET c == BlockSeek(b, key(i))
             next == BlockNext(b, c)
         IN /\ c.at = i /\ c.key = key(i)
            /\ i < Len(b.entries) => /\ next.key = key(i + 1)
                                     /\ BlockPrev(b, next).key = key(i)
            /\ i > 1 => BlockPrev(b, c).key = key(i - 1)
            /\ i = 1 => BlockPrev(b, c) = NoCursor /\ BlockFirst(b).key = key(1)
            /\ i = Len(b.entries) =>
                 /\ next = NoCursor /\ BlockLast(b).key = key(i)
                 /\ i > 1 => BlockPrev(b, BlockLast(b)).key = key(i - 1)
            /\ phase = "closed" => ApproximateOffsetOf(key(i)) = blocks[n].offset

\* Table and Block::Iter: a table gives back what was added to it.
TableIsExact == LookupIsExact /\ BlocksTurnRound /\ DamageIsSeen
=============================================================================
