----------------------------- MODULE VersionSet -----------------------------
(***************************************************************************)
(* The log-structured merge tree of leveldb: memtables, the levels of      *)
(* tables of a Version, and the one background thread that flushes and     *)
(* compacts them (db/version_set.cc and the compaction half of             *)
(* db/db_impl.cc).                                                         *)
(*                                                                         *)
(* A table is the set of its entries.  Level 0 is a sequence in the order  *)
(* of the file numbers, every other level one in the order of the keys; a  *)
(* file has no other identity, for no entry is ever in two files.  Sizes   *)
(* are numbers of entries.  The value of a put is its sequence number.     *)
(***************************************************************************)
EXTENDS Naturals, SequencesExt

CONSTANTS
  MaxKey,                 \* user keys are 1..MaxKey
  MaxSequence,            \* bound: number of writes
  ValueTypes,             \* bound: the types of entries written
  MaxSnapshots,           \* bound: snapshots held at a time
  MaxRangeCompactions,    \* bound: calls of CompactRange
  Ranges,                 \* bound: the ranges it is called with
  kNumLevels,
  kMaxMemCompactLevel,
  kL0_CompactionTrigger,
  kL0_StopWritesTrigger,
  write_buffer_size,
  max_file_size,
  LevelBytes,             \* MaxBytesForLevel of levels 0 and 1; doubles after
  MaxGrandParentOverlapBytes,
  ExpandedCompactionByteSizeLimit

ASSUME VersionSetAssumption ==
  /\ {MaxKey, max_file_size, LevelBytes} \subseteq Nat \ {0}
  /\ {MaxSequence, MaxSnapshots, MaxRangeCompactions, write_buffer_size,
      MaxGrandParentOverlapBytes, ExpandedCompactionByteSizeLimit} \subseteq Nat
  /\ ValueTypes \subseteq {"value", "deletion"}
  /\ Ranges \subseteq (0..MaxKey) \X (1..(MaxKey + 1))
  /\ kMaxMemCompactLevel \in Nat
  /\ kNumLevels \in Nat /\ kMaxMemCompactLevel + 1 < kNumLevels
  /\ kL0_CompactionTrigger \in Nat \ {0}
  /\ kL0_StopWritesTrigger \in Nat /\ kL0_StopWritesTrigger >= kL0_CompactionTrigger

Keys    == 1..MaxKey
Levels  == 0..(kNumLevels - 1)
NoValue == 0
kMaxSequenceNumber == MaxSequence + 1

Entries == [key : Keys, seq : 1..MaxSequence, type : ValueTypes]

VARIABLES
  mem,              \* mem_: a set of entries
  imm,              \* imm_: empty, or the one memtable being flushed
  lastSequence,     \* last_sequence_
  snapshots,        \* snapshots_, oldest first
  files,            \* files_ of the current version, by level
  file_to_compact,  \* empty, or <<level, file>> charged for too many seeks
  compact_pointer,  \* compact_pointer_: where the next compaction starts
  compaction,       \* empty, or the compaction that is running
  scheduled,        \* bg_compaction_scheduled_
  manual,           \* the call of CompactRange in progress
  rangeCompactions  \* calls of CompactRange so far

memVars  == <<mem, imm, lastSequence>>
treeVars == <<files, file_to_compact, compact_pointer, compaction>>
callVars == <<manual, rangeCompactions>>
vars     == <<memVars, snapshots, treeVars, scheduled, callVars>>
-----------------------------------------------------------------------------
(* Internal keys and tables *)

\* InternalKeyComparator: user keys ascend, sequence numbers descend.
Before(a, b) == \/ a.key < b.key
                \/ a.key = b.key /\ a.seq > b.seq

Smallest(T) == CHOOSE e \in T : \A x \in T \ {e} : Before(e, x)
Largest(T)  == CHOOSE e \in T : \A x \in T \ {e} : Before(x, e)

InOrder(S, Less(_, _)) ==
  [i \in 1..Cardinality(S) |->
     CHOOSE x \in S : Cardinality({y \in S : Less(y, x)}) = i - 1]

BySmallestKey(S) == InOrder(S, LAMBDA A, B : Before(Smallest(A), Smallest(B)))

\* What is left of the sequence s without the members of gone.
Without(s, gone) ==
  LET kept == {i \in DOMAIN s : s[i] \notin gone}
  IN [n \in 1..Cardinality(kept) |-> s[InOrder(kept, <)[n]]]

Bytes(S) == Cardinality(UNION S)   \* TotalFileSize

\* The versions of k a reader at s may see in T.
SeenIn(T, k, s) == {e \in T : e.key = k /\ e.seq <= s}
-----------------------------------------------------------------------------
(* Reading *)

Overlaps(T, lo, hi) == Smallest(T).key <= hi /\ Largest(T).key >= lo

\* FindFile, and the comparison that follows it: of level l the first file that
\* ends at or after the internal key, if it starts before k, {} otherwise.
FoundIn(v, l, k, s) ==
  LET ends == {i \in DOMAIN v[l] :
                 ~ Before(Largest(v[l][i]), [key |-> k, seq |-> s])}
      file == v[l][Min(ends)]
  IN IF ends # {} /\ Smallest(file).key <= k THEN file ELSE {}

\* ForEachOverlapping and the search of Version::Get: the files looked at for
\* k at s, each with its turn: those of level 0 from new to old, then of each
\* level the one found.
Probes(v, k, s) ==
  {<<Len(v[0]) - i, v[0][i]>> : i \in {j \in DOMAIN v[0] : Overlaps(v[0][j], k, k)}}
  \union {<<Len(v[0]) + l, FoundIn(v, l, k, s)>> :
            l \in {m \in 1..(kNumLevels - 1) : FoundIn(v, m, k, s) # {}}}

\* DBImpl::Get: mem_, imm_ and the files, in turn; of the first that knows k the
\* newest entry decides.
Visible(k, s) ==
  LET searched == {<<0, mem>>} \union {<<1, T>> : T \in ToSet(imm)}
                  \union {<<p[1] + 2, p[2]>> : p \in Probes(files, k, s)}
      seen == UNION {{<<t[1], e>> : e \in SeenIn(t[2], k, s)} : t \in searched}
      first == CHOOSE t \in seen : \A u \in seen :
                 t[1] < u[1] \/ (t[1] = u[1] /\ t[2].seq >= u[2].seq)
  IN IF seen = {} \/ first[2].type = "deletion" THEN NoValue ELSE first[2].seq
-----------------------------------------------------------------------------
(* Choosing the files of a compaction *)

\* GetRange
Low(S)  == Smallest(UNION S)
High(S) == Largest(UNION S)

\* GetOverlappingInputs.  Files of level 0 overlap one another, so there the
\* range grows until no file reaches across its ends.
OverlappingInputs(v, l, lo, hi) ==
  LET Closed(r) == \A T \in ToSet(v[0]) :
                     Overlaps(T, r[1], r[2]) => /\ r[1] <= Smallest(T).key
                                                /\ Largest(T).key <= r[2]
      ranges == {r \in (0..lo) \X (hi..(MaxKey + 1)) : Closed(r)}
      from == IF l = 0 THEN Max({r[1] : r \in ranges}) ELSE lo
      to   == IF l = 0 THEN Min({r[2] : r \in ranges}) ELSE hi
  IN {T \in ToSet(v[l]) : Overlaps(T, from, to)}

OverlapInLevel(v, l, lo, hi) == \E T \in ToSet(v[l]) : Overlaps(T, lo, hi)

\* Files of level l that overlap the keys of S; none beyond the last level.
Under(v, l, S) ==
  IF l >= kNumLevels THEN {}
  ELSE OverlappingInputs(v, l, Low(S).key, High(S).key)

\* The oldest sequence number a reader may still ask for.
SmallestSnapshot == IF snapshots = << >> THEN lastSequence ELSE Head(snapshots)

\* Faulty variant: a file is merged with none of the next level.
SetupNoOtherInputs(l, chosen) ==
  [level |-> l, inputs |-> <<chosen, {}>>, version |-> files,
   grandparents |-> {}, smallest_snapshot |-> SmallestSnapshot]

\* SetupOtherInputs: the files of the next level, more files of this level if
\* that takes no more of the next, and the files two levels down.
SetupOtherInputs(l, chosen) ==
  LET next      == Under(files, l + 1, chosen)
      expanded  == Under(files, l, chosen \union next)
      grows == /\ next # {}
               /\ Cardinality(expanded) > Cardinality(chosen)
               /\ Bytes(next) + Bytes(expanded) < ExpandedCompactionByteSizeLimit
               /\ Cardinality(Under(files, l + 1, expanded)) = Cardinality(next)
      inputs0 == IF grows THEN expanded ELSE chosen
      inputs1 == IF grows THEN Under(files, l + 1, expanded) ELSE next
  IN [level |-> l, inputs |-> <<inputs0, inputs1>>, version |-> files,
      grandparents |-> Under(files, l + 2, inputs0 \union inputs1),
      smallest_snapshot |-> SmallestSnapshot]

\* What a level may hold; that of level 0 is a number of files.
MaxBytesForLevel[l \in Levels] ==
  CASE l = 0 -> kL0_CompactionTrigger
    [] l = 1 -> LevelBytes
    [] OTHER -> 2 * MaxBytesForLevel[l - 1]

Load(v, l) == IF l = 0 THEN Len(v[0]) ELSE Bytes(ToSet(v[l]))

\* Finalize: the fullest level, the lowest one of several.
BestLevel(v) ==
  LET Fuller(l, m) == Load(v, l) * MaxBytesForLevel[m] > Load(v, m) * MaxBytesForLevel[l]
      best[l \in 0..(kNumLevels - 2)] ==
        IF l = 0 THEN 0 ELSE IF Fuller(l, best[l - 1]) THEN l ELSE best[l - 1]
  IN best[kNumLevels - 2]

TooFull(v) == Load(v, BestLevel(v)) >= MaxBytesForLevel[BestLevel(v)]

NeedsCompaction(v, charged) == TooFull(v) \/ charged # << >>

\* PickCompaction: the first file after the compaction pointer of the fullest
\* level, or the file that cost too many seeks.
PickCompaction ==
  LET l == IF TooFull(files) THEN BestLevel(files) ELSE file_to_compact[1]
      inKeyOrder == BySmallestKey(ToSet(files[l]))
      after == {i \in DOMAIN inKeyOrder :
                  Before(compact_pointer[l], Largest(inKeyOrder[i]))}
      picked == IF ~ TooFull(files) THEN file_to_compact[2]
                ELSE inKeyOrder[IF after # {} THEN Min(after) ELSE 1]
  IN SetupOtherInputs(l, IF l = 0 THEN Under(files, 0, {picked}) ELSE {picked})

\* VersionSet::CompactRange: below level 0, only as many files as make up one
\* output file.
RangeInputs(l, lo, hi) ==
  LET all == BySmallestKey(OverlappingInputs(files, l, lo, hi))
      Total(n) == Bytes({all[i] : i \in 1..n})
      enough == {n \in DOMAIN all : l > 0 /\ Total(n) >= max_file_size}
  IN {all[i] : i \in 1..(IF enough = {} THEN Len(all) ELSE Min(enough))}
-----------------------------------------------------------------------------
(* Merging *)

\* Faulty variant: deletions are dropped whatever lies below.
IsBaseLevelAlways(c, k) == TRUE

\* IsBaseLevelForKey
IsBaseLevelForKey(c, k) ==
  \A l \in (c.level + 2)..(kNumLevels - 1) : ~ OverlapInLevel(c.version, l, k, k)

\* ShouldStopBefore: the grandparents that end before e, and whether those passed
\* since the output began are too many.
ShouldStopBefore(c, acc, e) ==
  LET grandparents == BySmallestKey(c.grandparents)
      passed  == Cardinality({g \in c.grandparents : Before(Largest(g), e)})
      crossed == Bytes({grandparents[i] : i \in (acc.passed + 1)..passed})
      overlap == acc.overlap + (IF acc.seen_key THEN crossed ELSE 0)
      stop    == overlap > MaxGrandParentOverlapBytes
  IN [stop |-> stop, passed |-> passed, overlap |-> IF stop THEN 0 ELSE overlap]

\* One round of the loop of DoCompactionWork: close the output that overlaps
\* too many grandparents, drop e if no reader can want it, else add it and close
\* the output when it is big enough.
Merge(c, acc, e) ==
  LET before == ShouldStopBefore(c, acc, e)
      closed == IF before.stop /\ acc.open # {} THEN Append(acc.outputs, acc.open)
                ELSE acc.outputs
      kept   == IF before.stop THEN {} ELSE acc.open
      newer  == IF e.key = acc.key THEN acc.last ELSE kMaxSequenceNumber
      drop   == \/ newer <= c.smallest_snapshot
                \/ /\ e.type = "deletion"
                   /\ e.seq <= c.smallest_snapshot
                   /\ IsBaseLevelForKey(c, e.key)
      open   == IF drop THEN kept ELSE kept \union {e}
      full   == ~ drop /\ Cardinality(open) >= max_file_size
  IN [outputs  |-> IF full THEN Append(closed, open) ELSE closed,
      open     |-> IF full THEN {} ELSE open,
      key      |-> e.key,
      last     |-> e.seq,
      passed   |-> before.passed,
      seen_key |-> TRUE,
      overlap  |-> before.overlap]

\* The outputs of DoCompactionWork.
Outputs(c) ==
  LET start == [outputs |-> << >>, open |-> {}, key |-> 0,
                last |-> kMaxSequenceNumber, passed |-> 0, seen_key |-> FALSE,
                overlap |-> 0]
      input == InOrder(UNION (c.inputs[1] \union c.inputs[2]), Before)
      merged[n \in 0..Len(input)] ==
        IF n = 0 THEN start ELSE Merge(c, merged[n - 1], input[n])
      done == merged[Len(input)]
  IN ToSet(done.outputs) \union (IF done.open = {} THEN {} ELSE {done.open})

\* Version::PickLevelForMemTableOutput
PickLevelForMemTableOutput(T) ==
  LET lo == Smallest(T).key
      hi == Largest(T).key
      Stops(l) == \/ l = kMaxMemCompactLevel
                  \/ OverlapInLevel(files, l + 1, lo, hi)
                  \/ Bytes(Under(files, l + 2, {T})) > MaxGrandParentOverlapBytes
  IN IF OverlapInLevel(files, 0, lo, hi) THEN 0
     ELSE Min({l \in 0..kMaxMemCompactLevel : Stops(l)})
-----------------------------------------------------------------------------
Init ==
  /\ mem = {} /\ imm = << >> /\ lastSequence = 0
  /\ snapshots = << >>
  /\ files = [l \in Levels |-> << >>]
  /\ file_to_compact = << >>
  /\ compact_pointer = [l \in Levels |-> [key |-> 0, seq |-> 0]]
  /\ compaction = << >>
  /\ scheduled = FALSE
  /\ manual = [pc |-> "idle"]
  /\ rangeCompactions = 0

\* Faulty variant: a memtable that became full meanwhile is overlooked.
HasWorkBelow(i, v, charged, m) == m.pc = "submitted" \/ NeedsCompaction(v, charged)

\* MaybeScheduleCompaction.
HasWork(i, v, charged, m) ==
  i # << >> \/ m.pc = "submitted" \/ NeedsCompaction(v, charged)

\* MakeRoomForWrite: a full memtable becomes imm_, once the one before it is
\* flushed and level 0 is not too full.
CanSwitch == imm = << >> /\ Len(files[0]) < kL0_StopWritesTrigger

\* Faulty variant: nobody is told of the memtable.
SwitchSilently(m) ==
  /\ CanSwitch
  /\ imm' = <<mem>>
  /\ mem' = m
  /\ UNCHANGED scheduled

\* Faulty variant: the entry goes into the memtable that is given up, and is lost.
SwitchForgets(m) ==
  /\ CanSwitch
  /\ imm' = <<mem>>
  /\ mem' = {}
  /\ scheduled' = TRUE

SwitchTo(m) ==
  /\ CanSwitch
  /\ imm' = <<mem>>
  /\ mem' = m
  /\ scheduled' = TRUE

\* DBImpl::Write of one entry, by the writer at the head of the queue.
Write(k, type) ==
  LET e == [key |-> k, seq |-> lastSequence + 1, type |-> type] IN
  /\ lastSequence < MaxSequence
  /\ \/ /\ Cardinality(mem) <= write_buffer_size
        /\ mem' = mem \union {e}
        /\ UNCHANGED <<imm, scheduled>>
     \/ /\ Cardinality(mem) > write_buffer_size
        /\ SwitchTo({e})
  /\ lastSequence' = lastSequence + 1
  /\ UNCHANGED <<snapshots, treeVars, callVars>>

GetSnapshot ==
  /\ Len(snapshots) < MaxSnapshots
  /\ snapshots' = Append(snapshots, lastSequence)
  /\ UNCHANGED <<memVars, treeVars, scheduled, callVars>>

ReleaseSnapshot(i) ==
  /\ snapshots' = RemoveAt(snapshots, i)
  /\ UNCHANGED <<memVars, treeVars, scheduled, callVars>>

\* UpdateStats, from Get or RecordReadSample: a read that looked at two files
\* or more is charged to the first, and in the end, the seeks allowed to that
\* file being used up, asks for its compaction.
ChargeSeek(k, s) ==
  LET probes == Probes(files, k, s)
      first  == (CHOOSE p \in probes : \A q \in probes : p[1] <= q[1])[2]
      level  == CHOOSE l \in Levels : first \in ToSet(files[l])
  IN /\ Cardinality(probes) > 1
     /\ file_to_compact = << >>
     /\ file_to_compact' = <<level, first>>
     /\ scheduled' = TRUE
     /\ UNCHANGED <<memVars, snapshots, files, compact_pointer, compaction,
                    callVars>>
-----------------------------------------------------------------------------
(* The caller of CompactRange; 0 and MaxKey + 1 stand for no bound *)

CompactRange(lo, hi) ==
  /\ manual.pc = "idle" /\ rangeCompactions < MaxRangeCompactions
  /\ LET deep == {l \in Levels \ {0} : OverlapInLevel(files, l, lo, hi)}
     IN manual' = [pc |-> "write", level |-> 0, lo |-> lo, begin |-> lo,
                   hi |-> hi, last |-> Max(deep \union {1})]
  /\ rangeCompactions' = rangeCompactions + 1
  /\ UNCHANGED <<memVars, snapshots, treeVars, scheduled>>

\* TEST_CompactMemTable: the write of no batch, then the wait for its flush.
ForceSwitch ==
  /\ manual.pc = "write"
  /\ SwitchTo({})
  /\ manual' = [manual EXCEPT !.pc = "flush"]
  /\ UNCHANGED <<lastSequence, snapshots, treeVars, rangeCompactions>>

AwaitFlush ==
  /\ manual.pc = "flush" /\ imm = << >>
  /\ manual' = [manual EXCEPT !.pc = "range"]
  /\ UNCHANGED <<memVars, snapshots, treeVars, scheduled, rangeCompactions>>

\* TEST_CompactRange: hand the range to the background thread.
SubmitRange ==
  /\ manual.pc = "range"
  /\ manual' = [manual EXCEPT !.pc = "submitted"]
  /\ scheduled' = TRUE
  /\ UNCHANGED <<memVars, snapshots, treeVars, rangeCompactions>>

\* manual->done: on to the next level.
RangeDone ==
  IF manual.level + 1 < manual.last
  THEN [manual EXCEPT !.pc = "range", !.level = @ + 1, !.begin = manual.lo]
  ELSE [pc |-> "idle"]
-----------------------------------------------------------------------------
(* The background thread *)

\* Faulty variant: the new files are not merged into the order of their level.
EditedUnsorted(gone, l, new) ==
  [m \in Levels |->
     LET kept == Without(files[m], gone)
     IN IF m # l THEN kept ELSE kept \o BySmallestKey(new)]

\* LogAndApply: the files of gone leave the levels, those of new join level l.
\* A new Version has no file charged.
Edited(gone, l, new) ==
  [m \in Levels |->
     LET kept == Without(files[m], gone)
     IN IF m # l THEN kept
        ELSE IF m = 0 THEN kept \o BySmallestKey(new)
        ELSE BySmallestKey(ToSet(kept) \union new)]

\* CompactMemTable; an empty memtable makes no file.
Flushed == IF imm[1] = {} THEN files
           ELSE Edited({}, PickLevelForMemTableOutput(imm[1]), {imm[1]})

CompactMemTable ==
  /\ imm # << >>
  /\ imm' = << >>
  /\ files' = Flushed
  /\ file_to_compact' = << >>
  /\ UNCHANGED <<mem, lastSequence, snapshots, compact_pointer, callVars>>

\* BackgroundCall, when there is a memtable to flush.
FlushFirst ==
  /\ scheduled /\ compaction = << >>
  /\ CompactMemTable
  /\ scheduled' = HasWork(<< >>, files', << >>, manual)
  /\ UNCHANGED compaction

\* In the loop of DoCompactionWork: a memtable does not wait for the end.
FlushDuringCompaction ==
  /\ compaction # << >>
  /\ CompactMemTable
  /\ UNCHANGED <<scheduled, compaction>>

Start(c) ==
  /\ compaction' = <<c>>
  /\ compact_pointer' = [compact_pointer EXCEPT ![c.level] =
       [key |-> High(c.inputs[1]).key, seq |-> High(c.inputs[1]).seq]]

\* IsTrivialMove
IsTrivialMove(c) ==
  /\ Cardinality(c.inputs[1]) = 1
  /\ c.inputs[2] = {}
  /\ Bytes(c.grandparents) <= MaxGrandParentOverlapBytes

\* BackgroundCompaction for the caller of CompactRange.
StartManual ==
  /\ scheduled /\ compaction = << >> /\ imm = << >> /\ manual.pc = "submitted"
  /\ LET inputs == RangeInputs(manual.level, manual.begin, manual.hi)
         c == SetupOtherInputs(manual.level, inputs)
         manual_end == Largest(Last(BySmallestKey(c.inputs[1])))
     IN \/ /\ inputs = {}
           /\ manual' = RangeDone
           /\ scheduled' = HasWork(imm, files, file_to_compact, manual')
           /\ UNCHANGED <<compaction, compact_pointer>>
        \/ /\ inputs # {}
           /\ Start(c)
           /\ manual' = [manual EXCEPT !.pc = "running",
                                       !.begin = manual_end.key]
           /\ UNCHANGED scheduled
  /\ UNCHANGED <<memVars, snapshots, files, file_to_compact, rangeCompactions>>

\* BackgroundCompaction otherwise.
StartCompaction ==
  /\ scheduled /\ compaction = << >> /\ imm = << >> /\ manual.pc # "submitted"
  /\ NeedsCompaction(files, file_to_compact)
  /\ ~ IsTrivialMove(PickCompaction)
  /\ Start(PickCompaction)
  /\ UNCHANGED <<memVars, snapshots, files, file_to_compact, scheduled, callVars>>

MoveFile ==
  /\ scheduled /\ compaction = << >> /\ imm = << >> /\ manual.pc # "submitted"
  /\ NeedsCompaction(files, file_to_compact)
  /\ LET c == PickCompaction
     IN /\ IsTrivialMove(c)
        /\ files' = Edited(c.inputs[1], c.level + 1, c.inputs[1])
        /\ compact_pointer' = [compact_pointer EXCEPT ![c.level] =
             [key |-> High(c.inputs[1]).key, seq |-> High(c.inputs[1]).seq]]
  /\ file_to_compact' = << >>
  /\ scheduled' = HasWork(imm, files', << >>, manual)
  /\ UNCHANGED <<memVars, snapshots, compaction, callVars>>

\* Faulty variant: manual_compaction_ is not given up.
AfterCompactionKept == manual

\* The end of BackgroundCompaction: the caller may submit what is left.
AfterCompaction ==
  IF manual.pc = "running" THEN [manual EXCEPT !.pc = "range"] ELSE manual

\* The end of DoCompactionWork, InstallCompactionResults and BackgroundCall.
FinishCompaction ==
  /\ compaction # << >>
  /\ LET c == compaction[1]
     IN files' = Edited(c.inputs[1] \union c.inputs[2], c.level + 1, Outputs(c))
  /\ compaction' = << >>
  /\ file_to_compact' = << >>
  /\ manual' = AfterCompaction
  /\ scheduled' = HasWork(imm, files', << >>, manual')
  /\ UNCHANGED <<memVars, snapshots, compact_pointer, rangeCompactions>>

Background ==
  \/ FlushFirst \/ FlushDuringCompaction
  \/ StartManual \/ StartCompaction \/ MoveFile \/ FinishCompaction

CompactRangeStep == ForceSwitch \/ AwaitFlush \/ SubmitRange

Next ==
  \/ \E k \in Keys, type \in ValueTypes : Write(k, type)
  \/ GetSnapshot
  \/ \E i \in DOMAIN snapshots : ReleaseSnapshot(i)
  \/ \E k \in Keys, s \in 0..lastSequence : ChargeSeek(k, s)
  \/ \E r \in Ranges : CompactRange(r[1], r[2])
  \/ CompactRangeStep
  \/ Background

Spec == Init /\ [][Next]_vars

\* The background thread is scheduled by the system while it has work, and so
\* is the caller of CompactRange.  The first disjunction is WF_vars(Background):
\* Background is enabled whenever the thread is busy (WorkIsScheduled).
Busy == scheduled \/ compaction # << >>

FairSpec ==
  /\ Spec
  /\ []<>(~ Busy) \/ []<><<Background>>_vars
  /\ WF_vars(CompactRangeStep)
-----------------------------------------------------------------------------
Tables == {mem} \union ToSet(imm) \union UNION {ToSet(files[l]) : l \in Levels}

TypeOK ==
  /\ Tables \subseteq SUBSET Entries
  /\ Len(imm) <= 1 /\ Len(compaction) <= 1
  /\ lastSequence \in 0..MaxSequence
  /\ snapshots \in BoundedSeq(0..lastSequence, MaxSnapshots)
  /\ scheduled \in BOOLEAN

\* The comment of Version::Get: entries never hop across levels, so that what
\* is found in a smaller level makes later levels irrelevant.  The entries of
\* a key get older from mem to imm to level 0 and down the levels, and within
\* level 0 from the newest file to the oldest.
EntriesNeverHop ==
  LET age == <<mem>> \o imm \o Reverse(files[0])
             \o [l \in 1..(kNumLevels - 1) |-> UNION ToSet(files[l])]
  IN \A i, j \in DOMAIN age : i < j =>
       \A newer \in age[i], older \in age[j] :
         newer.key = older.key => newer.seq > older.seq

\* Builder::SaveTo: there is no overlap in levels > 0.
LevelsDisjoint ==
  \A l \in Levels \ {0} : \A i \in 2..Len(files[l]) :
    Before(Largest(files[l][i - 1]), Smallest(files[l][i]))

\* The background thread is woken for all the work there is, and never for
\* none: the branch of BackgroundCompaction with nothing to do is not taken.
WorkIsScheduled ==
  scheduled <=> \/ compaction # << >>
                \/ HasWork(imm, files, file_to_compact, manual)

\* The map that Get shows, now and in every snapshot: a put is known by its
\* sequence number, which no other put has.
DB == INSTANCE KVStore WITH
        Values <- 1..MaxSequence,
        dict   <- [k \in Keys |-> Visible(k, lastSequence)],
        snaps  <- [i \in DOMAIN snapshots |->
                     [k \in Keys |-> Visible(k, snapshots[i])]]

\* Each call does to the map what it is for; every other step, of the background
\* thread, of CompactRange or of a read charged with a seek, does nothing to it.
CallsActOnTheMap ==
  /\ \A k \in Keys, type \in ValueTypes :
       Write(k, type) =>
         DB!Write(k, IF type = "deletion" THEN NoValue ELSE lastSequence + 1)
  /\ GetSnapshot => DB!GetSnapshot
  /\ \A i \in DOMAIN snapshots : ReleaseSnapshot(i) => DB!ReleaseSnapshot(i)
  /\ UNCHANGED <<lastSequence, snapshots>> => UNCHANGED DB!vars

\* Get answers from the tree what the map of KVStore would, for the present
\* state and for every snapshot: at once after a write, with the value written
\* and for no other key, and with the same values whatever is flushed, moved,
\* merged or dropped.  A behaviour that does this is one of DB!Spec (theorem
\* TreeIsTheMap), and one whose steps are those of the calls that made them.
ImplementsKVStore == DB!Init /\ [][CallsActOnTheMap]_vars

\* A writer that finds its memtable full goes on in the end: the memtable
\* before it is flushed, and level 0 does not stay too full.
RoomIsMade == []<>CanSwitch

\* CompactRange returns.
RangeCompactionEnds == manual.pc # "idle" ~> manual.pc = "idle"
=============================================================================
