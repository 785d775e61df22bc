----------------------------- MODULE Iterators -----------------------------
(***************************************************************************)
(* The iterators of leveldb, one on top of the other: over the blocks of a *)
(* table or the files of a level (table/two_level_iterator.cc), over       *)
(* several sources at once (table/merger.cc), and the one the user holds,  *)
(* which shows one value of every key (db/db_iter.cc).  Each can turn      *)
(* round at any moment, and the memtable below it may grow.                *)
(*                                                                         *)
(* An internal key is its rank in the order of InternalKeyComparator: user *)
(* keys ascend, sequence numbers descend.  0 is the position of an         *)
(* iterator that is not valid.                                             *)
(***************************************************************************)
EXTENDS Naturals, FiniteSetsExt, SequencesExt

CONSTANTS
  MaxKey,         \* user keys are 1..MaxKey
  MaxSequence,    \* bound: entries there are when the iterator is made
  MaxInserts,     \* bound: entries written while it is in use
  BlockSize,      \* entries of a block of a table, or of a file of a level
  BadBlocks       \* bound: what cannot be read, sets of <<source, block>>

Keys == 1..MaxKey
kMaxSequenceNumber == MaxSequence + MaxInserts

Rank(key, seq) == key * (kMaxSequenceNumber + 1) + kMaxSequenceNumber - seq
UserKey(r)  == r \div (kMaxSequenceNumber + 1)
Sequence(r) == kMaxSequenceNumber - (r % (kMaxSequenceNumber + 1))

VARIABLES
  entries,    \* of every sequence number: the key and the type written
  lists,      \* the entries of mem_ and imm_
  blocks,     \* the blocks of a level-0 table, the files of level 1, in order
  bad,        \* those that cannot be read; block 0 stands for the whole table
  sequence_,  \* the snapshot of the iterator
  merging,    \* the MergingIterator: its children, current_ and direction_
  it,         \* the DBIter
  expected    \* the user key a cursor over the snapshot would be at, or 0

data == <<entries, lists, blocks, bad, sequence_>>
vars == <<entries, lists, blocks, bad, sequence_, merging, it, expected>>

\* The children of the merging iterator: mem_, imm_, a table of level 0 and
\* the files of level 1 one after the other.
MemTables == {1, 2}
TwoLevels == {3, 4}
Children  == MemTables \cup TwoLevels

First(S)      == IF S = {} THEN 0 ELSE Min(S)
Final(S)      == IF S = {} THEN 0 ELSE Max(S)
From(S, r)    == First({x \in S : x >= r})
After(S, r)   == First({x \in S : x > r})
BeforeIn(S, r) == Final({x \in S : x < r})

RanksOf(e, S) == {Rank(e[s].key, s) : s \in S}

BlocksOf(S) ==
  LET Nth(i) == {x \in S : Cardinality({y \in S : y < x}) \div BlockSize = i - 1}
  IN [i \in 1..((Cardinality(S) + BlockSize - 1) \div BlockSize) |-> Nth(i)]

\* A table of level 0 is opened at once, a file of level 1 when it is reached.
AddIterators(b) ==
  [n \in Children |-> [source |-> n, pos |-> 0, index |-> 0, block |-> 0,
                       failed |-> n \in TwoLevels /\ <<n, 0>> \in b]]

\* DBImpl::NewInternalIterator, of a database whose entries up to a first cut
\* are in level 1, up to a second in level 0, up to a third in imm_.
Init ==
  /\ entries \in [1..MaxSequence -> [key : Keys, type : {"value", "deletion"}]]
  /\ \E level1, level0, imm \in 0..MaxSequence :
       /\ level1 <= level0 /\ level0 <= imm
       /\ lists = <<RanksOf(entries, (imm + 1)..MaxSequence),
                    RanksOf(entries, (level0 + 1)..imm)>>
       /\ blocks = [n \in TwoLevels |->
                      BlocksOf(RanksOf(entries, IF n = 3 THEN (level1 + 1)..level0
                                                         ELSE 1..level1))]
  /\ bad \in {b \in BadBlocks :
                \A x \in b : blocks[x[1]] # << >> /\ x[2] <= Len(blocks[x[1]])}
  /\ sequence_ \in {MaxSequence - 1, MaxSequence}
  /\ merging = [child |-> AddIterators(bad), current |-> 0, forward |-> TRUE]
  /\ it = [forward |-> TRUE, valid |-> FALSE, saved_key |-> 0, saved_value |-> 0]
  /\ expected = 0
-----------------------------------------------------------------------------
(* The index: the last key of every block of a table, or LevelFileNumIterator *)
(* over the largest keys of the files of a level.                            *)

\* The error iterator of a table that cannot be opened is over nothing.
Indexed(c) == IF <<c.source, 0>> \in bad THEN {} ELSE DOMAIN blocks[c.source]

IndexSeek(c, r) == First({i \in Indexed(c) : Max(blocks[c.source][i]) >= r})
IndexFirst(c)   == First(Indexed(c))
IndexLast(c)    == Final(Indexed(c))
IndexNext(c)    == After(Indexed(c), c.index)
IndexPrev(c)    == BeforeIn(Indexed(c), c.index)
-----------------------------------------------------------------------------
(* TwoLevelIterator *)

\* GetFileIterator and BlockReader: what cannot be read is an iterator over
\* nothing with an error.
Unreadable(c) == <<c.source, c.block>> \in bad /\ c.block # 0
Block(c) == IF c.block = 0 \/ Unreadable(c) THEN {} ELSE blocks[c.source][c.block]

\* SetDataIterator: the error of the one before is kept.
SetData(c, b) == [c EXCEPT !.failed = @ \/ Unreadable(c), !.block = b, !.pos = 0]

InitDataBlock(c) == IF c.block = c.index /\ c.index # 0 THEN c
                    ELSE SetData(c, c.index)

\* SkipEmptyDataBlocksForward and Backward.
RECURSIVE SkipForward(_), SkipBackward(_)
SkipForward(c) ==
  IF c.pos # 0 THEN c
  ELSE IF c.index = 0 THEN SetData(c, 0)
  ELSE LET d == InitDataBlock([c EXCEPT !.index = IndexNext(c)])
       IN SkipForward([d EXCEPT !.pos = First(Block(d))])

SkipBackward(c) ==
  IF c.pos # 0 THEN c
  ELSE IF c.index = 0 THEN SetData(c, 0)
  ELSE LET d == InitDataBlock([c EXCEPT !.index = IndexPrev(c)])
       IN SkipBackward([d EXCEPT !.pos = Final(Block(d))])

TableSeek(c, r) ==
  LET d == InitDataBlock([c EXCEPT !.index = IndexSeek(c, r)])
  IN SkipForward([d EXCEPT !.pos = From(Block(d), r)])

TableSeekToFirst(c) ==
  LET d == InitDataBlock([c EXCEPT !.index = IndexFirst(c)])
  IN SkipForward([d EXCEPT !.pos = First(Block(d))])

TableSeekToLast(c) ==
  LET d == InitDataBlock([c EXCEPT !.index = IndexLast(c)])
  IN SkipBackward([d EXCEPT !.pos = Final(Block(d))])

TableNext(c) == SkipForward([c EXCEPT !.pos = After(Block(c), @)])
TablePrev(c) == SkipBackward([c EXCEPT !.pos = BeforeIn(Block(c), @)])

\* Any child: a memtable is an ordered set.
Seek(c, r)     == IF c.source \in TwoLevels THEN TableSeek(c, r)
                  ELSE [c EXCEPT !.pos = From(lists[c.source], r)]
SeekToFirst(c) == IF c.source \in TwoLevels THEN TableSeekToFirst(c)
                  ELSE [c EXCEPT !.pos = First(lists[c.source])]
SeekToLast(c)  == IF c.source \in TwoLevels THEN TableSeekToLast(c)
                  ELSE [c EXCEPT !.pos = Final(lists[c.source])]
NextOf(c)      == IF c.source \in TwoLevels THEN TableNext(c)
                  ELSE [c EXCEPT !.pos = After(lists[c.source], @)]
PrevOf(c)      == IF c.source \in TwoLevels THEN TablePrev(c)
                  ELSE [c EXCEPT !.pos = BeforeIn(lists[c.source], @)]
-----------------------------------------------------------------------------
(* MergingIterator, as a value *)

Key(m) == IF m.current = 0 THEN 0 ELSE m.child[m.current].pos

Positions(m) == {m.child[n].pos : n \in Children} \ {0}
At(m, r) == First({n \in Children : r # 0 /\ m.child[n].pos = r})

FindSmallest(m) == [m EXCEPT !.current = At(m, First(Positions(m))),
                             !.forward = TRUE]
FindLargest(m)  == [m EXCEPT !.current = At(m, Final(Positions(m))),
                             !.forward = FALSE]

EachChild(m, Op(_)) == [m EXCEPT !.child = [n \in Children |-> Op(m.child[n])]]
Others(m, Op(_)) ==
  EachChild(m, LAMBDA c : IF c.source = m.current THEN c ELSE Op(c))

MSeek(m, r)     == FindSmallest(EachChild(m, LAMBDA c : Seek(c, r)))
MSeekToFirst(m) == FindSmallest(EachChild(m, SeekToFirst))
MSeekToLast(m)  == FindLargest(EachChild(m, SeekToLast))

\* Next after Prev: the other children are brought past key().
MNext(m) ==
  LET past(c) == LET d == Seek(c, Key(m))
                 IN IF d.pos = Key(m) THEN NextOf(d) ELSE d
      turned == IF m.forward THEN m ELSE Others(m, past)
  IN FindSmallest([turned EXCEPT !.child[m.current] = NextOf(@)])

\* Faulty variant: a child with nothing at or after key() is left there.
MPrevFromEnd(m) ==
  LET short(c) == LET d == Seek(c, Key(m))
                  IN IF d.pos # 0 THEN PrevOf(d) ELSE d
      turned == IF m.forward THEN Others(m, short) ELSE m
  IN FindLargest([turned EXCEPT !.child[m.current] = PrevOf(@)])

\* Prev after Next: the other children are brought before key().
MPrev(m) ==
  LET short(c) == LET d == Seek(c, Key(m))
                  IN IF d.pos # 0 THEN PrevOf(d) ELSE SeekToLast(d)
      turned == IF m.forward THEN Others(m, short) ELSE m
  IN FindLargest([turned EXCEPT !.child[m.current] = PrevOf(@)])

\* status(): any child's error; a two-level iterator has its own and that of
\* the block it is in.
ChildStatusOk(c) == ~ c.failed /\ ~ Unreadable(c)
StatusOk == \A n \in Children : ChildStatusOk(merging.child[n])
-----------------------------------------------------------------------------
(* DBIter, as a pair of the MergingIterator and its own state *)

Seen(r) == Sequence(r) <= sequence_
Deletes(r) == entries[Sequence(r)].type = "deletion"

Invalid(d) == [d EXCEPT !.valid = FALSE, !.saved_key = 0]

\* FindNextUserEntry: skip is the key to pass, 0 when not skipping.
RECURSIVE FindNextUserEntry(_, _, _)
FindNextUserEntry(m, d, skip) ==
  LET r == Key(m) IN
  CASE r = 0 -> <<m, Invalid(d)>>
    [] r # 0 /\ Seen(r) /\ Deletes(r) ->
         FindNextUserEntry(MNext(m), d, UserKey(r))
    [] r # 0 /\ Seen(r) /\ ~ Deletes(r) /\ UserKey(r) > skip ->
         <<m, [d EXCEPT !.valid = TRUE, !.saved_key = 0]>>
    [] OTHER -> FindNextUserEntry(MNext(m), d, skip)

\* FindPrevUserEntry: found is the newest value seen of the key so far.
RECURSIVE FindPrevUserEntry(_, _, _)
FindPrevUserEntry(m, d, found) ==
  LET r == Key(m)
      stops == r = 0 \/ (Seen(r) /\ found # 0 /\ UserKey(r) < UserKey(found))
      next == IF Seen(r) THEN IF Deletes(r) THEN 0 ELSE r
              ELSE found
  IN IF ~ stops THEN FindPrevUserEntry(MPrev(m), d, next)
     ELSE IF found = 0 THEN <<m, [Invalid(d) EXCEPT !.forward = TRUE]>>
     ELSE <<m, [d EXCEPT !.valid = TRUE, !.saved_key = UserKey(found),
                         !.saved_value = Sequence(found)]>>

\* Prev after Next: back until the key changes.
RECURSIVE BackOver(_, _)
BackOver(m, key) == IF Key(m) = 0 \/ UserKey(Key(m)) < key THEN m
                    ELSE BackOver(MPrev(m), key)

Became(pair) == /\ merging' = pair[1]
                /\ it' = pair[2]
                /\ UNCHANGED data

CurrentKey == IF ~ it.valid THEN 0
              ELSE IF it.forward THEN UserKey(Key(merging)) ELSE it.saved_key

\* What a reader at sequence_ sees: the newest entry of a key, if a value.
NewestOf(k) == Final({s \in DOMAIN entries : s <= sequence_ /\ entries[s].key = k})
Visible == {k \in Keys : NewestOf(k) # 0 /\ entries[NewestOf(k)].type = "value"}

IterSeek(k) ==
  LET m == MSeek(merging, Rank(k, sequence_)) IN
  /\ Became(FindNextUserEntry(m, [it EXCEPT !.forward = TRUE], 0))
  /\ expected' = From(Visible, k)

IterSeekToFirst ==
  /\ Became(FindNextUserEntry(MSeekToFirst(merging),
                              [it EXCEPT !.forward = TRUE], 0))
  /\ expected' = First(Visible)

IterSeekToLast ==
  /\ Became(FindPrevUserEntry(MSeekToLast(merging),
                              [it EXCEPT !.forward = FALSE], 0))
  /\ expected' = Final(Visible)

\* Next; after Prev the merging iterator is before the entries of the key.
IterNext ==
  /\ it.valid
  /\ LET m == CASE it.forward -> merging
                [] ~ it.forward /\ Key(merging) = 0 -> MSeekToFirst(merging)
                [] OTHER -> MNext(merging)
     IN Became(FindNextUserEntry(m, [it EXCEPT !.forward = TRUE], CurrentKey))
  /\ expected' = After(Visible, expected)

\* Prev; after Next the merging iterator is at the entry itself.
IterPrev ==
  /\ it.valid
  /\ LET m == IF it.forward THEN BackOver(MPrev(merging), CurrentKey) ELSE merging
     IN Became(IF it.forward /\ Key(m) = 0 THEN <<m, Invalid(it)>>
               ELSE FindPrevUserEntry(m, [it EXCEPT !.forward = FALSE], 0))
  /\ expected' = BeforeIn(Visible, expected)

\* A write goes to the memtable the iterator reads.
Insert(k, type) ==
  /\ Len(entries) < kMaxSequenceNumber
  /\ entries' = Append(entries, [key |-> k, type |-> type])
  /\ lists' = [lists EXCEPT ![1] = @ \union {Rank(k, Len(entries'))}]
  /\ UNCHANGED <<blocks, bad, sequence_, merging, it, expected>>

Next ==
  \/ \E k \in Keys : IterSeek(k)
  \/ IterSeekToFirst \/ IterSeekToLast \/ IterNext \/ IterPrev
  \/ \E k \in Keys, type \in {"value", "deletion"} : Insert(k, type)

Spec == Init /\ [][Next]_vars
-----------------------------------------------------------------------------
\* DBIter: the iterator is where a cursor over the snapshot would be, with its
\* value, after any calls in either direction and whatever is written
\* meanwhile, unless status() says that a block could not be read.
IteratorIsExact ==
  StatusOk => /\ CurrentKey = expected
              /\ it.valid =>
                   NewestOf(expected) = IF it.forward THEN Sequence(Key(merging))
                                        ELSE it.saved_value
=============================================================================
