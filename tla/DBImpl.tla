------------------------------- MODULE DBImpl -------------------------------
(***************************************************************************)
(* What leveldb keeps on disk and when (db/db_impl.cc, the MANIFEST half   *)
(* of db/version_set.cc, db/builder.cc, db/filename.cc): the queue of      *)
(* writers and their group commit, the log, the switch of memtables, the   *)
(* background thread that turns memtables and old tables into new tables,  *)
(* the deletion of obsolete files, and DB::Open after the process was      *)
(* killed or the machine lost power.  Which tables a compaction picks, and *)
(* which versions of a key it keeps, is VersionSet's matter: here a table  *)
(* is the set of the entries it holds.                                     *)
(*                                                                         *)
(* The file system is external.  Creating, renaming and deleting a file    *)
(* lasts; of what was appended to a log or a MANIFEST, a power loss leaves *)
(* some prefix that is at least what was synced.                           *)
(***************************************************************************)
EXTENDS Naturals, Sequences, FiniteSetsExt

CONSTANTS
  MaxCalls,           \* bound: calls of Write
  MaxWriters,         \* bound: threads in Write at a time
  MaxOpens,           \* bound: calls of DB::Open
  MaxFaults,          \* bound: I/O errors
  MaxFileNumber,      \* bound: no compaction starts from there on
  Faults,             \* bound: the operations that may fail
  PowerLosses,        \* bound: may the machine lose power
  CallKinds,          \* bound: kinds of calls of Write
  write_buffer_size   \* entries a memtable holds before it is full

ASSUME DBImplAssumption ==
  /\ {MaxCalls, MaxOpens, MaxFaults, MaxFileNumber, write_buffer_size} \subseteq Nat
  /\ MaxWriters \in Nat \ {0}
  /\ Faults \subseteq {"newlog", "append", "sync", "table", "edit", "manifest"}
  /\ PowerLosses \in BOOLEAN
  \* sync or not, or the NULL batch of TEST_CompactMemTable
  /\ CallKinds \subseteq {"async", "sync", "force"}

VARIABLES
  \* files of the database directory, by number
  logs,        \* [records, synced]; a record is a set of entries
  tables,      \* [entries, synced]
  manifests,   \* [records, synced]; a record is <<edit>>, or Torn
  temps,       \* CURRENT files not renamed yet
  current,     \* the MANIFEST that CURRENT names, or 0
  \* DBImpl and its VersionSet
  pc,          \* "closed", the steps of DB::Open, "open"
  replay,      \* the log that DB::Open reads next, and the records read of it
  mem,         \* mem_, or the memtable that a log is read into: a set of entries
  imm,         \* {}, or {imm_}
  logfile,     \* logfile_number_
  nextFile,    \* next_file_number_
  lastSequence,
  version,     \* the files of the current version
  logNumber,   \* log_number_ of the VersionSet
  manifest,    \* manifest_file_number_
  pending,     \* pending_outputs_
  bgError,     \* ~ bg_error_.ok()
  writers,     \* writers_: calls in progress
  leader,      \* what the writer at the head of the queue is doing
  flush,       \* CompactMemTable, if it is in progress
  compact,     \* DoCompactionWork, if it is in progress
  deleting,    \* DeleteObsoleteFiles is about to run, under the mutex
  iterator,    \* {}, or {the version that an iterator or a Get holds}
  \* the callers
  calls,       \* calls of Write so far
  acked,       \* calls that returned OK, and that a kill may not undo
  safe,        \* those of them that had asked for a sync
  opens, faults

disk    == <<logs, tables, manifests, temps, current>>
memory  == <<replay, mem, imm, logfile, nextFile, lastSequence, version,
             logNumber, manifest, pending, bgError, deleting>>
queue   == <<writers, leader>>
bg      == <<flush, compact>>
callers == <<calls, acked, safe>>
bounds  == <<opens, faults>>
vars    == <<disk, pc, memory, queue, bg, iterator, callers, bounds>>
-----------------------------------------------------------------------------
(* Files *)

Maximum(S, least) == Max(S \union {least})

Put(f, n, x)   == [m \in DOMAIN f \union {n} |-> IF m = n THEN x ELSE f[m]]
Without(f, S)  == [m \in DOMAIN f \ S |-> f[m]]
NewFile        == [records |-> << >>, synced |-> 0]
Wrote(file, r) == [file EXCEPT !.records = Append(@, r)]
Synced(file)   == [file EXCEPT !.synced = Len(file.records)]

\* What a failed append leaves.  The writer goes on as if it had written all of
\* it, so the reader finds nothing from there on where the next record is.
Torn == {}

\* log::Reader: the records before the first torn one.
Readable(records) == {i \in DOMAIN records : \A j \in 1..i : records[j] # Torn}

Seqs(entries)      == {e.seq : e \in entries}
EntriesOf(records) == UNION {records[i] : i \in Readable(records)}

Edit(record) == CHOOSE edit \in record : TRUE
NoEdit == [added |-> {}, deleted |-> {}, log |-> 0, next |-> 0, last |-> 0]

\* VersionSet::Recover and Builder: the files that the edits of a MANIFEST have
\* added and not deleted since, ...
FilesOf(records) ==
  {n \in UNION {Edit(records[i]).added : i \in Readable(records)} :
     \E i \in Readable(records) :
       /\ n \in Edit(records[i]).added
       /\ \A j \in Readable(records) : j > i => n \notin Edit(records[j]).deleted}

\* ... and the numbers of the last edit.
LastEdit(records) ==
  IF Readable(records) = {} THEN NoEdit ELSE Edit(records[Max(Readable(records))])

\* A record that is torn, with others after it, is Corruption.
IsCorrupt(records) ==
  records = << >> \/ \E i \in 1..(Len(records) - 1) : records[i] = Torn

\* Faulty variant: the table is not synced.
TableOfUnsynced(entries) == [entries |-> entries, synced |-> FALSE]

\* BuildTable and FinishCompactionOutputFile: write, sync, close.
TableOf(entries) == [entries |-> entries, synced |-> TRUE]

\* One more I/O error, of an operation that may fail.
Fault(kind) == /\ kind \in Faults /\ faults < MaxFaults
               /\ faults' = faults + 1
-----------------------------------------------------------------------------
NoFlush == [pc |-> "none", number |-> 0]
NoCompaction == [pc |-> "none", inputs |-> {}, version |-> {}, number |-> 0]

Init ==
  /\ logs = << >> /\ tables = << >> /\ manifests = << >>
  /\ temps = {} /\ current = 0
  /\ pc = "closed" /\ replay = [log |-> 0, read |-> 0]
  /\ mem = {} /\ imm = {} /\ logfile = 0 /\ nextFile = 2
  /\ lastSequence = 0 /\ version = {} /\ logNumber = 0 /\ manifest = 0
  /\ pending = {} /\ bgError = FALSE /\ deleting = FALSE
  /\ writers = << >> /\ leader = [pc |-> "room"]
  /\ flush = NoFlush /\ compact = NoCompaction /\ iterator = {}
  /\ calls = 0 /\ acked = {} /\ safe = {}
  /\ opens = 0 /\ faults = 0

\* The memory of a process that is gone.
Forget ==
  /\ pc' = "closed" /\ replay' = [log |-> 0, read |-> 0]
  /\ mem' = {} /\ imm' = {} /\ logfile' = 0 /\ nextFile' = 2
  /\ lastSequence' = 0 /\ version' = {} /\ logNumber' = 0 /\ manifest' = 0
  /\ pending' = {} /\ bgError' = FALSE /\ deleting' = FALSE
  /\ writers' = << >> /\ leader' = [pc |-> "room"]
  /\ flush' = NoFlush /\ compact' = NoCompaction /\ iterator' = {}
-----------------------------------------------------------------------------
(* DeleteObsoleteFiles *)

\* Faulty variant: the outputs of a compaction are not in use yet.
UsedByVersions == version \union (UNION iterator) \union compact.version

\* AddLiveFiles, of the current version and those an iterator or a compaction
\* holds, and pending_outputs_.
Used == version \union (UNION iterator) \union compact.version \union pending

ObsoleteLogs      == {n \in DOMAIN logs : n < logNumber}
ObsoleteTables    == DOMAIN tables \ Used
ObsoleteManifests == {n \in DOMAIN manifests : n < manifest}

Delete(l, t, m) ==
  /\ logs' = Without(logs, l)
  /\ tables' = Without(tables, t)
  /\ manifests' = Without(manifests, m)

DeleteObsoleteFiles ==
  /\ deleting
  /\ Delete(ObsoleteLogs, ObsoleteTables, ObsoleteManifests)
  /\ temps' = {}
  /\ deleting' = FALSE
  /\ UNCHANGED <<current, pc, replay, mem, imm, logfile, nextFile, lastSequence,
                 version, logNumber, manifest, pending, bgError, queue, bg,
                 iterator, callers, bounds>>

\* The process is killed, maybe half way through DeleteObsoleteFiles, or the
\* database is closed.
Kill ==
  /\ pc # "closed"
  /\ \/ ~ deleting /\ UNCHANGED <<logs, tables, manifests>>
     \/ /\ deleting
        /\ \E l \in SUBSET ObsoleteLogs, t \in SUBSET ObsoleteTables,
              m \in SUBSET ObsoleteManifests : Delete(l, t, m)
  /\ Forget
  /\ UNCHANGED <<temps, current, callers, bounds>>

\* The machine loses power: what was not synced may be lost.
Surviving(files, f) ==
  [n \in DOMAIN files |-> [records |-> SubSeq(files[n].records, 1, f[n]),
                           synced  |-> f[n]]]

Lengths(files) ==
  {f \in [DOMAIN files -> 0..Maximum({Len(files[n].records) : n \in DOMAIN files}, 0)] :
     \A n \in DOMAIN files : f[n] \in files[n].synced..Len(files[n].records)}

PowerLoss ==
  /\ PowerLosses
  /\ pc # "closed" \/ \E n \in DOMAIN manifests : manifests[n].synced = 0
  /\ \E f \in Lengths(logs) : logs' = Surviving(logs, f)
  /\ \E f \in Lengths(manifests) : manifests' = Surviving(manifests, f)
  /\ tables' = Without(tables, {n \in DOMAIN tables : ~ tables[n].synced})
  /\ acked' = safe
  /\ Forget
  /\ UNCHANGED <<temps, current, calls, safe, bounds>>
-----------------------------------------------------------------------------
(* DB::Open *)

\* NewDB: MANIFEST 1, not synced, and CURRENT.
NewDB ==
  /\ pc = "closed" /\ opens < MaxOpens /\ current = 0
  /\ manifests' = Put(manifests, 1,
       [records |-> <<{[added |-> {}, deleted |-> {}, log |-> 0, next |-> 2, last |-> 0]}>>,
        synced |-> 0])
  /\ current' = 1
  /\ UNCHANGED <<logs, tables, temps, pc, memory, queue, bg, iterator, callers,
                 bounds>>

LogsFrom(log) == {n \in DOMAIN logs : n >= log}

\* VersionSet::Recover; the logs from the last edit's on are still to be read.
Recover ==
  LET edit == LastEdit(manifests[current].records) IN
  /\ pc = "closed" /\ opens < MaxOpens /\ current # 0
  /\ ~ IsCorrupt(manifests[current].records)
  /\ FilesOf(manifests[current].records) \subseteq DOMAIN tables
  /\ pc' = "replay"
  /\ version' = FilesOf(manifests[current].records)
  /\ replay' = [log |-> edit.log, read |-> 0]
  /\ logNumber' = edit.log
  /\ manifest' = edit.next
  /\ nextFile' = edit.next + 1
  /\ lastSequence' = edit.last
  /\ opens' = opens + 1
  /\ UNCHANGED <<disk, mem, imm, logfile, pending, bgError, deleting, queue, bg,
                 iterator, callers, faults>>

\* Faulty variant: the sequence numbers of the logs are not looked at.
LastOfManifest(record) == lastSequence

\* max_sequence
LastOf(record) == Maximum(Seqs(record), lastSequence)

\* The log that is read now.
Replaying(n) ==
  /\ pc = "replay" /\ n \in LogsFrom(replay.log)
  /\ \A m \in LogsFrom(replay.log) : n <= m

\* WriteLevel0Table of a memtable read from a log; DB::Open will log the edit
\* that adds it to the version.
WriteLevel0Table(entries) ==
  /\ tables' = Put(tables, nextFile, TableOf(entries))
  /\ version' = version \union {nextFile}
  /\ mem' = {}

\* RecoverLogFile reads a record into the memtable, which is written when full.
ReplayRecord(n) ==
  LET record == logs[n].records[replay.read + 1] IN
  /\ Replaying(n) /\ replay.read + 1 \in Readable(logs[n].records)
  /\ \/ /\ Cardinality(mem \union record) > write_buffer_size
        /\ WriteLevel0Table(mem \union record)
        /\ nextFile' = nextFile + 1
     \/ /\ Cardinality(mem \union record) <= write_buffer_size
        /\ mem' = mem \union record
        /\ UNCHANGED <<tables, version, nextFile>>
  /\ lastSequence' = LastOf(record)
  /\ replay' = [replay EXCEPT !.read = @ + 1]
  /\ UNCHANGED <<logs, manifests, temps, current, pc, imm, logfile, logNumber,
                 manifest, pending, bgError, deleting, queue, bg, iterator,
                 callers, bounds>>

\* At the end of the log what is left is written, and MarkFileNumberUsed.
ReplayEnd(n) ==
  /\ Replaying(n) /\ replay.read + 1 \notin Readable(logs[n].records)
  /\ \/ /\ mem # {}
        /\ WriteLevel0Table(mem)
        /\ nextFile' = Maximum({nextFile + 1}, n + 1)
     \/ /\ mem = {}
        /\ nextFile' = Maximum({nextFile}, n + 1)
        /\ UNCHANGED <<tables, version, mem>>
  /\ replay' = [log |-> n + 1, read |-> 0]
  /\ UNCHANGED <<logs, manifests, temps, current, pc, imm, logfile,
                 lastSequence, logNumber, manifest, pending, bgError, deleting,
                 queue, bg, iterator, callers, bounds>>

\* Faulty variant: NewFileNumber does not count up.
NextNumberSame == nextFile

\* NewFileNumber
NextNumber == nextFile + 1

OpenLog ==
  /\ pc = "replay" /\ LogsFrom(replay.log) = {}
  /\ pc' = "log"
  /\ logs' = Put(logs, nextFile, NewFile)
  /\ logfile' = nextFile
  /\ nextFile' = NextNumber
  /\ UNCHANGED <<tables, manifests, temps, current, replay, mem, imm,
                 lastSequence, version, logNumber, manifest, pending, bgError,
                 deleting, queue, bg, iterator, callers, bounds>>

\* WriteSnapshot, and what LogAndApply adds to it.
WriteSnapshot ==
  [added |-> version, deleted |-> {}, log |-> logfile, next |-> nextFile,
   last |-> lastSequence]

\* LogAndApply with no descriptor yet: the whole state goes to a new MANIFEST,
\* which is synced, then its name to a temporary file.
OpenManifest ==
  /\ pc = "log"
  /\ pc' = "manifest"
  /\ manifests' = Put(manifests, manifest, Synced(
       [records |-> <<{WriteSnapshot}>>, synced |-> 0]))
  /\ temps' = temps \union {manifest}
  /\ UNCHANGED <<logs, tables, current, memory, queue, bg, iterator, callers,
                 bounds>>

\* A table, the log or the MANIFEST cannot be written: DB::Open returns the error.
OpenFails ==
  /\ \/ pc = "replay" /\ (Fault("table") \/ Fault("newlog"))
     \/ pc = "log" /\ Fault("manifest")
  /\ Forget
  /\ UNCHANGED <<disk, callers, opens>>

\* SetCurrentFile renames, and the rest of DB::Open.
OpenInstall ==
  /\ pc = "manifest"
  /\ pc' = "open"
  /\ temps' = temps \ {manifest}
  /\ current' = manifest
  /\ logNumber' = logfile
  /\ deleting' = TRUE
  /\ UNCHANGED <<logs, tables, manifests, replay, mem, imm, logfile, nextFile,
                 lastSequence, version, manifest, pending, bgError, queue, bg,
                 iterator, callers, bounds>>

Open == NewDB \/ Recover \/ (\E n \in DOMAIN logs : ReplayRecord(n) \/ ReplayEnd(n))
          \/ OpenLog \/ OpenManifest \/ OpenFails \/ OpenInstall
-----------------------------------------------------------------------------
(* DBImpl::Write *)

\* A thread calls Write and joins the queue; it sleeps unless it is the head.
Enqueue(kind) ==
  /\ pc = "open" /\ calls < MaxCalls /\ Len(writers) < MaxWriters
  /\ calls' = calls + 1
  /\ writers' = Append(writers, [call |-> calls + 1, kind |-> kind,
                                 awake |-> writers = << >>])
  /\ UNCHANGED <<disk, pc, memory, leader, bg, iterator, acked, safe, bounds>>

Leading(step) == /\ writers # << >> /\ writers[1].awake
                 /\ leader.pc = step

MustSwitch == \/ writers[1].kind = "force" /\ leader.pc = "room"
              \/ Cardinality(mem) > write_buffer_size

\* Faulty variant: nobody wakes the next writer.
WakeNobody(q) == q

\* The new head of the queue is signalled.
WakeHead(q) == IF q = << >> THEN q ELSE [q EXCEPT ![1].awake = TRUE]

\* bg_cv_ is signalled; only the head of the queue can be waiting for it.
WakeAll(q) == WakeHead(q)

\* Those of the first n writers that have a batch.
Batches(n) == {i \in 1..n : writers[i].kind # "force"}

\* The first n calls return; all of them succeed or fail together.
Return(n, ok) ==
  LET wrote == IF ok THEN Batches(n) ELSE {}
  IN /\ writers' = WakeHead(SubSeq(writers, n + 1, Len(writers)))
     /\ leader' = [pc |-> "room"]
     /\ acked' = acked \union {writers[i].call : i \in wrote}
     /\ safe' = safe \union {writers[i].call :
                               i \in {j \in wrote : writers[j].kind = "sync"}}
     /\ UNCHANGED calls

\* MakeRoomForWrite: an earlier background error is the answer.
RoomError ==
  /\ Leading("room") \/ Leading("switched")
  /\ bgError
  /\ Return(1, FALSE)
  /\ UNCHANGED <<disk, pc, memory, bg, iterator, bounds>>

\* Wait for the memtable before this one.
RoomWait ==
  /\ Leading("room") \/ Leading("switched")
  /\ ~ bgError /\ MustSwitch /\ imm # {}
  /\ writers' = [writers EXCEPT ![1].awake = FALSE]
  /\ UNCHANGED <<disk, pc, memory, leader, bg, iterator, callers, bounds>>

\* Switch to a new log and memtable.
RoomSwitch ==
  /\ Leading("room") \/ Leading("switched")
  /\ ~ bgError /\ MustSwitch /\ imm = {}
  /\ logs' = Put(logs, nextFile, NewFile)
  /\ logfile' = nextFile
  /\ nextFile' = NextNumber
  /\ imm' = {mem}
  /\ mem' = {}
  /\ leader' = [pc |-> "switched"]
  /\ UNCHANGED <<tables, manifests, temps, current, pc, replay, lastSequence, version,
                 logNumber, manifest, pending, bgError, deleting, writers, bg,
                 iterator, callers, bounds>>

\* The new log cannot be created.
RoomNoLog ==
  /\ Leading("room") \/ Leading("switched")
  /\ ~ bgError /\ MustSwitch /\ imm = {}
  /\ Fault("newlog")
  /\ Return(1, FALSE)
  /\ UNCHANGED <<disk, pc, memory, bg, iterator, opens>>

\* There is room; a NULL batch is done with that.
ForceDone ==
  /\ Leading("room") \/ Leading("switched")
  /\ ~ bgError /\ ~ MustSwitch /\ writers[1].kind = "force"
  /\ Return(1, TRUE)
  /\ UNCHANGED <<disk, pc, memory, bg, iterator, bounds>>

\* Faulty variant: a group takes whoever waits.
GroupOfAll == Len(writers)

\* BuildBatchGroup: everyone up to the first that wants a sync when the leader
\* does not.  (The limits on the bytes of a group are left out.)
BuildBatchGroup ==
  LET barred == {i \in 2..Len(writers) : /\ writers[i].kind = "sync"
                                         /\ writers[1].kind # "sync"}
  IN Min({i - 1 : i \in barred} \union {Len(writers)})

BuildGroup ==
  /\ Leading("room") \/ Leading("switched")
  /\ ~ bgError /\ ~ MustSwitch /\ writers[1].kind # "force"
  /\ LET n == BuildBatchGroup
         Number(i) == lastSequence + Cardinality(Batches(i))
     IN leader' = [pc |-> "log", count |-> n,
                   updates |-> {[call |-> writers[i].call, seq |-> Number(i)] :
                                  i \in Batches(n)}]
  /\ UNCHANGED <<disk, pc, memory, writers, bg, iterator, callers, bounds>>

AddRecord ==
  /\ Leading("log")
  /\ logs' = [logs EXCEPT ![logfile] = Wrote(@, leader.updates)]
  /\ leader' = [leader EXCEPT !.pc = IF writers[1].kind = "sync" THEN "sync"
                                     ELSE "insert"]
  /\ UNCHANGED <<tables, manifests, temps, current, pc, memory, writers, bg,
                 iterator, callers, bounds>>

\* Only a sync error is remembered (bg_error_); the sequence numbers are used up.
AddRecordFails ==
  /\ Leading("log") /\ Fault("append")
  /\ logs' = [logs EXCEPT ![logfile] = Wrote(@, Torn)]
  /\ lastSequence' = lastSequence + Cardinality(leader.updates)
  /\ Return(leader.count, FALSE)
  /\ UNCHANGED <<tables, manifests, temps, current, pc, replay, mem, imm,
                 logfile, nextFile, version, logNumber, manifest, pending,
                 bgError, deleting, bg, iterator, opens>>

SyncLog ==
  /\ Leading("sync")
  /\ logs' = [logs EXCEPT ![logfile].synced = Len(logs[logfile].records)]
  /\ leader' = [leader EXCEPT !.pc = "insert"]
  /\ UNCHANGED <<tables, manifests, temps, current, pc, memory, writers, bg,
                 iterator, callers, bounds>>

\* All later writes fail.
SyncLogFails ==
  /\ Leading("sync") /\ Fault("sync")
  /\ bgError' = TRUE
  /\ lastSequence' = lastSequence + Cardinality(leader.updates)
  /\ Return(leader.count, FALSE)
  /\ UNCHANGED <<disk, pc, replay, mem, imm, logfile, nextFile, version,
                 logNumber, manifest, pending, deleting, bg, iterator, opens>>

\* InsertInto mem_, SetLastSequence, and everyone of the group returns.
Insert ==
  /\ Leading("insert")
  /\ mem' = mem \union leader.updates
  /\ lastSequence' = lastSequence + Cardinality(leader.updates)
  /\ Return(leader.count, TRUE)
  /\ UNCHANGED <<disk, pc, replay, imm, logfile, nextFile, version, logNumber,
                 manifest, pending, bgError, deleting, bg, iterator, bounds>>

Writer ==
  \/ RoomError \/ RoomWait \/ RoomSwitch \/ RoomNoLog \/ ForceDone
  \/ BuildGroup \/ AddRecord \/ AddRecordFails \/ SyncLog \/ SyncLogFails
  \/ Insert
-----------------------------------------------------------------------------
(* The background thread *)

\* LogAndApply appends an edit to the MANIFEST.
AppendEdit(added, deleted, log) ==
  manifests' = [manifests EXCEPT ![manifest] =
                  Wrote(@, {[added |-> added, deleted |-> deleted, log |-> log,
                             next |-> nextFile, last |-> lastSequence]})]

\* RecordBackgroundError.
BackgroundError ==
  /\ bgError' = TRUE
  /\ writers' = WakeAll(writers)

\* LogAndApply fails in AddRecord, or in Sync.
EditFails ==
  \/ /\ Fault("edit")
     /\ manifests' = [manifests EXCEPT ![manifest] = Wrote(@, Torn)]
  \/ /\ Fault("manifest")
     /\ UNCHANGED manifests

\* CompactMemTable, alone or, whatever went wrong before, between two keys of
\* a compaction.
FlushStart ==
  /\ imm # {} /\ flush = NoFlush
  /\ \/ compact.pc = "none" /\ ~ bgError
     \/ compact.pc \in {"merge", "output"}
  /\ flush' = [pc |-> "build", number |-> nextFile]
  /\ pending' = pending \union {nextFile}
  /\ nextFile' = NextNumber
  /\ UNCHANGED <<disk, pc, replay, mem, imm, logfile, lastSequence, version,
                 logNumber, manifest, bgError, deleting, queue, compact,
                 iterator, callers, bounds>>

Flushing(step)   == flush.pc = step
Compacting(step) == compact.pc = step /\ flush = NoFlush

\* BuildTable; of an empty memtable it leaves no file.
FlushBuild ==
  /\ Flushing("build")
  /\ flush' = [flush EXCEPT !.pc = "log"]
  /\ tables' = IF UNION imm = {} THEN tables
               ELSE Put(tables, flush.number, TableOf(UNION imm))
  /\ pending' = pending \ {flush.number}
  /\ UNCHANGED <<logs, manifests, temps, current, pc, replay, mem, imm, logfile,
                 nextFile, lastSequence, version, logNumber, manifest, bgError,
                 deleting, queue, compact, iterator, callers, bounds>>

FlushBuildFails ==
  /\ Flushing("build") /\ Fault("table")
  /\ flush' = NoFlush
  /\ pending' = pending \ {flush.number}
  /\ BackgroundError
  /\ UNCHANGED <<disk, pc, replay, mem, imm, logfile, nextFile, lastSequence,
                 version, logNumber, manifest, deleting, leader, compact,
                 iterator, callers, opens>>

FlushedFile == IF UNION imm = {} THEN {} ELSE {flush.number}

FlushLog ==
  /\ Flushing("log")
  /\ AppendEdit(FlushedFile, {}, logfile)
  /\ flush' = [flush EXCEPT !.pc = "sync"]
  /\ UNCHANGED <<logs, tables, temps, current, pc, memory, queue, compact,
                 iterator, callers, bounds>>

FlushLogFails ==
  /\ Flushing("log") \/ Flushing("sync")
  /\ EditFails
  /\ flush' = NoFlush
  /\ BackgroundError
  /\ UNCHANGED <<logs, tables, temps, current, pc, replay, mem, imm, logfile,
                 nextFile, lastSequence, version, logNumber, manifest, pending,
                 deleting, leader, compact, iterator, callers, opens>>

\* The MANIFEST is synced, the version installed, and imm_ dropped.
FlushInstall ==
  /\ Flushing("sync")
  /\ manifests' = [manifests EXCEPT ![manifest] = Synced(@)]
  /\ version' = version \union FlushedFile
  /\ logNumber' = logfile
  /\ imm' = {}
  /\ flush' = NoFlush
  /\ writers' = WakeAll(writers)
  /\ deleting' = ~ bgError
  /\ UNCHANGED <<logs, tables, temps, current, pc, replay, mem, logfile, nextFile,
                 lastSequence, manifest, pending, bgError, leader, compact,
                 iterator, callers, bounds>>

\* DoCompactionWork begins.
CompactStart(inputs) ==
  /\ pc = "open" /\ compact = NoCompaction /\ flush = NoFlush /\ imm = {} /\ ~ bgError
  /\ inputs # {} /\ nextFile < MaxFileNumber
  /\ compact' = [pc |-> "merge", inputs |-> inputs, version |-> version,
                 number |-> 0]
  /\ UNCHANGED <<disk, pc, memory, queue, flush, iterator, callers, bounds>>

\* OpenCompactionOutputFile
CompactOutput ==
  /\ Compacting("merge")
  /\ compact' = [compact EXCEPT !.pc = "output", !.number = nextFile]
  /\ tables' = Put(tables, nextFile, TableOfUnsynced({}))
  /\ pending' = pending \union {nextFile}
  /\ nextFile' = NextNumber
  /\ UNCHANGED <<logs, manifests, temps, current, pc, replay, mem, imm, logfile,
                 lastSequence, version, logNumber, manifest, bgError, deleting,
                 queue, flush, iterator, callers, bounds>>

\* FinishCompactionOutputFile
CompactFinish ==
  /\ Compacting("output")
  /\ compact' = [compact EXCEPT !.pc = "log"]
  /\ LET n == compact.number
         merged == UNION {tables[t].entries : t \in compact.inputs}
     IN tables' = IF n \in DOMAIN tables
                  THEN [tables EXCEPT ![n] = TableOf(merged)] ELSE tables
  /\ UNCHANGED <<logs, manifests, temps, current, pc, memory, queue, flush,
                 iterator, callers, bounds>>

\* DoCompactionWork fails; CleanupCompaction.
CompactFails ==
  /\ \/ /\ Compacting("merge") \/ Compacting("output")
        /\ Fault("table")
        /\ UNCHANGED manifests
     \/ /\ Compacting("log") \/ Compacting("sync")
        /\ EditFails
  /\ compact' = NoCompaction
  /\ pending' = pending \ {compact.number}
  /\ BackgroundError
  /\ UNCHANGED <<logs, tables, temps, current, pc, replay, mem, imm, logfile,
                 nextFile, lastSequence, version, logNumber, manifest, deleting,
                 leader, flush, iterator, callers, opens>>

\* Faulty variant: the edit of a compaction says, like that of a flush, that
\* only the log being written is needed.
LogOfCompactionNew == logfile

\* An edit without a log number gets that of the version set.
LogOfCompaction == logNumber

CompactLog ==
  /\ Compacting("log")
  /\ AppendEdit({compact.number}, compact.inputs, LogOfCompaction)
  /\ compact' = [compact EXCEPT !.pc = "sync"]
  /\ UNCHANGED <<logs, tables, temps, current, pc, memory, queue, flush,
                 iterator, callers, bounds>>

\* The version is installed; CleanupCompaction and ReleaseInputs.
CompactInstall ==
  /\ Compacting("sync")
  /\ manifests' = [manifests EXCEPT ![manifest] = Synced(@)]
  /\ version' = (version \ compact.inputs) \union {compact.number}
  /\ compact' = NoCompaction
  /\ pending' = pending \ {compact.number}
  /\ writers' = WakeAll(writers)
  /\ deleting' = ~ bgError
  /\ UNCHANGED <<logs, tables, temps, current, pc, replay, mem, imm, logfile,
                 nextFile, lastSequence, logNumber, manifest, bgError, leader,
                 flush, iterator, callers, bounds>>

Background ==
  \/ FlushStart \/ FlushBuild \/ FlushBuildFails
  \/ FlushLog \/ FlushLogFails \/ FlushInstall
  \/ CompactOutput \/ CompactFinish \/ CompactFails
  \/ CompactLog \/ CompactInstall
-----------------------------------------------------------------------------
(* Readers *)

\* Get and NewInternalIterator hold the current version.
NewIterator ==
  /\ pc = "open" /\ iterator = {}
  /\ iterator' = {version}
  /\ UNCHANGED <<disk, pc, memory, queue, bg, callers, bounds>>

\* CleanupIteratorState
DeleteIterator ==
  /\ iterator # {}
  /\ iterator' = {}
  /\ UNCHANGED <<disk, pc, memory, queue, bg, callers, bounds>>
-----------------------------------------------------------------------------
Next ==
  \/ DeleteObsoleteFiles
  \/ Kill
  \/ PowerLoss
  \/ /\ ~ deleting
     /\ \/ Open
        \/ \E kind \in CallKinds : Enqueue(kind)
        \/ Writer
        \/ Background
        \/ \E inputs \in SUBSET version : CompactStart(inputs)
        \/ NewIterator
        \/ DeleteIterator

Spec == Init /\ [][Next]_vars

\* The threads in Write, and the background thread, are scheduled.
FairSpec ==
  /\ Spec
  /\ WF_vars(~ deleting /\ Writer)
  /\ WF_vars((~ deleting /\ Background) \/ DeleteObsoleteFiles)
-----------------------------------------------------------------------------
Entries == [call : 1..MaxCalls, seq : Nat]

TypeOK ==
  /\ \A n \in DOMAIN logs : logs[n].synced \in 0..Len(logs[n].records)
  /\ \A n \in DOMAIN manifests : manifests[n].synced \in 0..Len(manifests[n].records)
  /\ \A n \in DOMAIN tables : tables[n].entries \subseteq Entries
  /\ current \in {0} \union DOMAIN manifests
  /\ mem \subseteq Entries /\ \A m, n \in imm : m = n
  /\ pc = "open" => \A n \in version \union {logfile} : n < nextFile
  /\ safe \subseteq acked /\ acked \subseteq 1..calls

Calls(entries) == {e.call : e \in entries}
In(files)      == UNION {tables[n].entries : n \in files \intersect DOMAIN tables}

\* options.h: if it is just the process that crashes, no writes will be lost
\* even if sync==false.  Whatever state the kill leaves behind, DB::Open finds
\* every call of Write that returned OK.
KillLosesNothing ==
  current # 0 =>
    LET records == manifests[current].records
    IN acked \subseteq Calls(In(FilesOf(records))
         \union UNION {EntriesOf(logs[n].records) : n \in LogsFrom(LastEdit(records).log)})

\* options.h: a write with sync is like a write() followed by fsync().  After a
\* power loss, whatever of the unsynced data is left, DB::Open finds every such
\* call.
SyncedWritesSurvive ==
  current > 1 =>
    \A k \in manifests[current].synced..Len(manifests[current].records) :
      LET records == SubSeq(manifests[current].records, 1, k)
          left == {n \in DOMAIN tables : tables[n].synced}
          Left(n) == EntriesOf(SubSeq(logs[n].records, 1, logs[n].synced))
      IN safe \subseteq Calls(In(FilesOf(records) \intersect left)
                  \union UNION {Left(n) : n \in LogsFrom(LastEdit(records).log)})

\* DBImpl::Recover never answers that files are missing, nor VersionSet::Recover
\* that the MANIFEST is corrupt, once DB::Open has succeeded.
DatabaseOpens ==
  pc = "closed" /\ current > 1 =>
    /\ ~ IsCorrupt(manifests[current].records)
    /\ FilesOf(manifests[current].records) \subseteq DOMAIN tables

\* DeleteObsoleteFiles leaves what an iterator, a Get, a compaction or the
\* current version still reads, and what a compaction is writing.
FilesInUseExist ==
  pc = "open" =>
    /\ version \subseteq DOMAIN tables
    /\ \A v \in iterator : v \subseteq DOMAIN tables
    /\ compact.version \subseteq DOMAIN tables
    /\ compact.number \in {0} \union DOMAIN tables

\* No sequence number is given to two batches, before or after a crash; that
\* is what versions of a key are told apart by.
SequencesAreUnique ==
  LET there == mem \union (UNION imm) \union In(version)
  IN pc = "open" =>
       /\ \A e, f \in there : e.seq = f.seq => e = f
       /\ \A e \in there : e.seq <= lastSequence

\* Every call of Write returns, unless the process is gone first.
WritersReturn ==
  \A c \in 1..MaxCalls :
    (\E i \in DOMAIN writers : writers[i].call = c)
      ~> ~ \E i \in DOMAIN writers : writers[i].call = c
=============================================================================
