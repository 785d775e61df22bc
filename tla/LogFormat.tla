----------------------------- MODULE LogFormat -----------------------------
(***************************************************************************)
(* The log of leveldb: records cut into fragments that do not cross a      *)
(* block (db/log_writer.cc), and the reader that recovers what a crash or  *)
(* a bad sector has left (db/log_reader.cc).                               *)
(*                                                                         *)
(* A file is a sequence of cells.  The header of a fragment is three cells *)
(* in place of seven bytes: its checksum, its length and its type.  A cell *)
(* knows the fragment it was written for, so that "the checksum matches"   *)
(* is that all the cells of a fragment are there.                          *)
(***************************************************************************)
EXTENDS Integers, SequencesExt

CONSTANTS
  kBlockSize,
  MaxRecords,      \* bound: records written
  RecordLengths,   \* bound: cells of each
  Damages          \* bound: what may happen to the file

kHeaderSize == 3

Zero == [at |-> 0]   \* a cell of a trailer, or of a region never written
Bad  == [at |-> -1]   \* a cell that reads as anything but what was written

VARIABLES
  pc,        \* "write", "read" or "done"
  file,      \* the cells
  written,   \* of every record: where its first header starts and where it ends
  damage,    \* what happened to the file, and where
  reader     \* of the Reader: its members, and those of ReadRecord

vars == <<pc, file, written, damage, reader>>

Fragment(record, from, length, type) ==
  [record |-> record, from |-> from, length |-> length, type |-> type]

Min2(a, b) == IF a < b THEN a ELSE b

Init ==
  /\ pc = "write" /\ file = << >> /\ written = << >>
  /\ damage = [kind |-> "none"]
  /\ reader = << >>
-----------------------------------------------------------------------------
(* Writer *)

\* EmitPhysicalRecord
Emit(cells, f) ==
  cells \o [i \in 1..(kHeaderSize + f.length) |-> [fragment |-> f, at |-> i]]

\* The rest of the block, if no header fits in it.
Trailer(cells) ==
  LET leftover == kBlockSize - (Len(cells) % kBlockSize)
  IN IF leftover < kHeaderSize THEN [i \in 1..leftover |-> Zero] ELSE << >>

Avail(cells) == kBlockSize - (Len(cells) % kBlockSize) - kHeaderSize

FragmentType(begin, left, avail) ==
  CASE begin /\ left <= avail -> "full"
    [] begin -> "first"
    [] ~ begin /\ left <= avail -> "last"
    [] OTHER -> "middle"

\* AddRecord, which writes one fragment at least.
RECURSIVE AddFragments(_, _, _, _, _)
AddFragments(cells, record, begin, from, left) ==
  LET start == cells \o Trailer(cells)
      avail == Avail(start)
      n     == Min2(left, avail)
      f     == Fragment(record, from, n, FragmentType(begin, left, avail))
      after == Emit(start, f)
  IN IF left = n THEN after ELSE AddFragments(after, record, FALSE, from + n, left - n)

AddRecord(length) ==
  /\ pc = "write" /\ Len(written) < MaxRecords
  /\ file' = AddFragments(file, Len(written) + 1, TRUE, 0, length)
  /\ written' = Append(written, [length |-> length,
                                 start  |-> Len(file) + Len(Trailer(file)),
                                 end    |-> Len(file')])
  /\ UNCHANGED <<pc, damage, reader>>
-----------------------------------------------------------------------------
(* What happens to the file before it is read *)

\* The file ends at n, or reads as zeros from n on, or the cell n is not what
\* was written.
Damaged(d) ==
  CASE d.kind = "none"  -> file
    [] d.kind = "cut"   -> SubSeq(file, 1, d.at)
    [] d.kind = "zeros" -> [i \in DOMAIN file |-> IF i > d.at THEN Zero ELSE file[i]]
    [] d.kind = "flip"  -> [file EXCEPT ![d.at + 1] = Bad]

\* SkipToInitialBlock
FirstBlock(initial) ==
  LET offset == initial % kBlockSize
  IN IF offset > kBlockSize - (kHeaderSize - 1) THEN initial - offset + kBlockSize
     ELSE initial - offset

\* The constructor, and the seek of the first ReadRecord.
Open(d, initial) ==
  /\ pc = "write" /\ file # << >>
  /\ pc' = "read"
  /\ damage' = d
  /\ file' = Damaged(d)
  /\ reader' = [pos |-> FirstBlock(initial), end |-> FirstBlock(initial),
                eof |-> FALSE, initial |-> initial, resyncing |-> initial > 0,
                in_fragmented |-> FALSE, scratch |-> << >>,
                drops |-> 0, records |-> << >>]
  /\ UNCHANGED written
-----------------------------------------------------------------------------
(* Reader: the buffer is the cells from pos to end *)

Buffered == reader.end - reader.pos

\* ReadPhysicalRecord: skip a trailer and read a block.
ReadBlock ==
  LET end == Min2(reader.end + kBlockSize, Len(file)) IN
  /\ pc = "read" /\ Buffered < kHeaderSize /\ ~ reader.eof
  /\ reader' = [reader EXCEPT !.pos = reader.end,
                              !.end = IF end < reader.end THEN reader.end ELSE end,
                              !.eof = end < reader.end + kBlockSize]
  /\ UNCHANGED <<pc, file, written, damage>>

Header(i) == file[reader.pos + i]

Lengths ==
  CASE Header(2) = Zero -> {0}
    [] Header(2) = Bad  -> 0..kBlockSize
    [] OTHER            -> {Header(2).fragment.length}

Intact(length) ==
  \A i \in 1..(kHeaderSize + length) :
    /\ Header(i) \notin {Zero, Bad}
    /\ Header(i) = [fragment |-> Header(1).fragment, at |-> i]

\* A damaged type may read as zero.
MayBeZeroType == Header(3) \in {Zero, Bad}

\* The answers of ReadPhysicalRecord to a buffer with a header, and what it
\* leaves of the buffer: the type, whether it reports a drop, and the fragment.
Physical ==
  UNION {
    LET fits   == kHeaderSize + length <= Buffered
        intact == fits /\ Intact(length)
        after  == reader.pos + kHeaderSize + length
        bad(reported) == [type |-> "bad", drop |-> reported, pos |-> reader.end]
    IN CASE ~ fits /\ reader.eof ->
              {[type |-> "eof", drop |-> FALSE, pos |-> reader.end]}
         [] ~ fits /\ ~ reader.eof -> {bad(TRUE)}
         [] fits /\ ~ intact ->
              {bad(TRUE)} \union (IF length = 0 /\ MayBeZeroType THEN {bad(FALSE)}
                                  ELSE {})
         [] intact /\ reader.pos < reader.initial ->
              {[type |-> "bad", drop |-> FALSE, pos |-> after]}
         [] OTHER ->
              {[type |-> Header(1).fragment.type, drop |-> FALSE, pos |-> after,
                fragment |-> Header(1).fragment]}
    : length \in Lengths}

\* ReadRecord is done with a record, or the file.
Drop(n) == reader.drops + n

\* Faulty variant: a bad record in the middle does not end the fragments.
AfterBadKept(r) == r

AfterBad(r) ==
  [r EXCEPT !.in_fragmented = FALSE, !.scratch = << >>,
            !.drops = @ + (IF r.in_fragmented THEN 1 ELSE 0)]

\* The switch of ReadRecord on a physical record p; r has left the buffer at
\* the end of p.
Assembled(r, p) ==
  LET partial == IF \E i \in DOMAIN r.scratch : r.scratch[i].length > 0 THEN 1 ELSE 0
      resyncs == r.resyncing /\ p.type \in {"middle", "last"}
      next    == [r EXCEPT !.resyncing = r.resyncing /\ p.type = "middle"]
  IN CASE resyncs -> next
       [] p.type = "full" ->
            [next EXCEPT !.drops = @ + partial, !.scratch = << >>,
                         !.in_fragmented = FALSE,
                         !.records = Append(@, <<p.fragment>>)]
       [] p.type = "first" ->
            [next EXCEPT !.drops = @ + partial, !.in_fragmented = TRUE,
                         !.scratch = <<p.fragment>>]
       [] p.type \in {"middle", "last"} /\ ~ r.in_fragmented ->
            [next EXCEPT !.drops = @ + 1]
       [] p.type = "middle" /\ r.in_fragmented ->
            [next EXCEPT !.scratch = Append(@, p.fragment)]
       [] p.type = "last" /\ r.in_fragmented ->
            [next EXCEPT !.records = Append(@, Append(r.scratch, p.fragment)),
                         !.in_fragmented = FALSE, !.scratch = << >>]
       [] p.type = "bad" -> AfterBad(next)

\* ReadPhysicalRecord and the switch of ReadRecord, until the end of the file.
Read ==
  /\ pc = "read" /\ Buffered >= kHeaderSize
  /\ \E p \in Physical :
       LET r == [reader EXCEPT !.pos = p.pos, !.drops = Drop(IF p.drop THEN 1 ELSE 0)]
       IN IF p.type = "eof" THEN pc' = "done" /\ reader' = r
          ELSE reader' = Assembled(r, p) /\ UNCHANGED pc
  /\ UNCHANGED <<file, written, damage>>

EndOfFile ==
  /\ pc = "read" /\ Buffered < kHeaderSize /\ reader.eof
  /\ pc' = "done"
  /\ UNCHANGED <<file, written, damage, reader>>

Next ==
  \/ \E length \in RecordLengths : AddRecord(length)
  \/ \E kind \in Damages, at \in 0..(Len(file) - 1), initial \in 0..Len(file) :
       /\ kind = "none" => at = 0
       /\ kind # "none" => initial = 0
       /\ Open([kind |-> kind, at |-> at], initial)
  \/ ReadBlock \/ Read \/ EndOfFile

Spec == Init /\ [][Next]_vars
-----------------------------------------------------------------------------
\* A record is read when its fragments make it up, from its first cell on.
ReadAs(fragments, n) ==
  /\ \A i \in DOMAIN fragments : fragments[i].record = n
  /\ FoldLeft(LAMBDA at, f : IF f.from = at THEN at + f.length ELSE -1,
              0, fragments) = written[n].length

BlockOf(cell) == cell \div kBlockSize

\* The records a reader must find: those complete before the place where the
\* file was cut, those that touch no block with a damaged cell, and those that
\* start at initial_offset or later.
MustRead(n) ==
  LET w == written[n] IN
  CASE damage.kind \in {"cut", "zeros"} -> w.end <= damage.at
    [] damage.kind = "flip" -> \/ BlockOf(w.end - 1) < BlockOf(damage.at)
                               \/ BlockOf(w.start) > BlockOf(damage.at)
    [] OTHER -> w.start >= reader.initial

\* Reader::ReadRecord: what is recovered is records that were written, in their
\* order, each whole and none twice; a crash loses only records that were not
\* complete, and is not reported as a corruption; a bad cell costs at most what
\* has a part in its block.
LogIsRead ==
  pc = "done" =>
    LET got == [i \in DOMAIN reader.records |-> reader.records[i][1].record]
    IN /\ \A i \in DOMAIN got : ReadAs(reader.records[i], got[i])
       /\ \A i \in 2..Len(got) : got[i - 1] < got[i]
       /\ \A n \in DOMAIN written : MustRead(n) => n \in ToSet(got)
       /\ damage.kind = "none" => \A n \in ToSet(got) : MustRead(n)
       /\ damage.kind = "cut" => reader.drops = 0
=============================================================================
