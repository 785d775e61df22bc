------------------------ MODULE DBImplRecoveryProofs ------------------------
(***************************************************************************)
(* Proofs about what DB::Open gives back: every call of Write that         *)
(* returned OK, after a kill; and those that asked for a sync, after a     *)
(* loss of power.                                                          *)
(***************************************************************************)
EXTENDS DBImplSequenceProofs

-----------------------------------------------------------------------------
(* Where the calls that returned OK are *)

LogsWhole == \A n \in DOMAIN logs : Whole(logs[n].records)

\* No write before the first DB::Open has succeeded.
NothingYet == current <= 1 => acked = {}

\* The records of the logs that DB::Open has not read yet.
ToRead(n) == {i \in Readable(logs[n].records) : Replaying(n) => i > replay.read}
Remaining == UNION {UNION {logs[n].records[i] : i \in ToRead(n)} : n \in LogsFrom(replay.log)}

\* What a power loss leaves has the calls that asked for a sync.
SafeSeen(r) == safe \subseteq Calls(Held(tables, FilesOf(r)) \union LogKeeps(logs, LastEdit(r).log))

\* The calls are on disk, while no database is open, ...
AtRest ==
  pc # "open" /\ current > 1 =>
    acked \subseteq Calls(Seen(Records)) /\ \A r \in Found : SafeSeen(r)

\* ... in what DB::Open has read, or has yet to read, ...
Replayed ==
  /\ pc = "replay" => acked \subseteq Calls(mem \union Held(tables, version) \union Remaining)
  /\ pc \in {"log", "manifest"} => acked \subseteq Calls(Held(tables, version))

\* ... and in the memtables and tables of the open database.
Running == pc = "open" => acked \subseteq Calls(InMemory)

\* The memtables are in the logs that DB::Open would read, or in tables that it
\* would find.
Kept ==
  /\ safe \subseteq Calls(Held(tables, version)
                      \union ((UNION imm) \intersect LogKeeps(logs, logNumber))
                      \union (mem \intersect LeftOf(logs[logfile])))
  /\ UNION imm \subseteq LogHolds(logs, logNumber)
  /\ mem \subseteq EntriesOf(logs[logfile].records)
  /\ \A r \in Found : Held(tables, version) \subseteq Held(tables, FilesOf(r))
  /\ \A r \in Found : \/ LastEdit(r).log <= logNumber
                      \/ LastEdit(r).log <= logfile /\ UNION imm \subseteq Held(tables, FilesOf(r))
  /\ flush.pc = "sync" => UNION imm \subseteq Held(tables, FilesOf(Records))

\* When half a record is in the MANIFEST, versions still change but DB::Open would
\* not find them; no file is deleted any more.
Stuck ==
  \A r \in Found : InMemory \subseteq Seen(r) /\ SafeSeen(r) /\ LastEdit(r).log <= logfile

Recorded == pc = "open" => IF Whole(Records) THEN Kept ELSE Stuck

\* The batches of a group are those of its writers; they are in the log before
\* they are in the memtable, and synced if one of the writers asked for that.
Group ==
  leader.pc \in {"log", "sync", "insert"} =>
    /\ leader.updates # {}
    /\ Calls(leader.updates) = {writers[i].call : i \in Batches(leader.count)}
    /\ \A i \in 2..leader.count : writers[i].kind = "sync" => writers[1].kind = "sync"
    /\ leader.pc \in {"sync", "insert"} => leader.updates \subseteq EntriesOf(logs[logfile].records)
    /\ leader.pc = "insert" /\ writers[1].kind = "sync" => leader.updates \subseteq LeftOf(logs[logfile])

Durable == LogsWhole /\ NothingYet /\ AtRest /\ Replayed /\ Running /\ Recorded /\ Group

LEMMA CallsMoves ==
  ASSUME NEW A, NEW S, NEW T, A \subseteq Calls(S), S \subseteq T
  PROVE  A \subseteq Calls(T)
BY DEF Calls

LEMMA LogKeepsLess ==
  ASSUME NEW l, \A n \in DOMAIN l : n \in Nat, NEW j \in Nat, NEW k \in Nat, j <= k
  PROVE  LogKeeps(l, k) \subseteq LogKeeps(l, j)
<1>1. \A n \in DOMAIN l : n >= k => n >= j
  OBVIOUS
<1> QED
  BY <1>1 DEF LogKeeps

\* What the memtables and tables hold is what DB::Open would read.
LEMMA ReadBack ==
  ASSUME NEW t, NEW l, NEW r, NEW k \in Nat,
         \A n \in DOMAIN l : n \in Nat, logNumber \in Nat, logfile \in DOMAIN l,
         Held(t, version) \subseteq Held(t, FilesOf(r)),
         \/ k <= logNumber /\ logNumber <= logfile
         \/ k <= logfile /\ UNION imm \subseteq Held(t, FilesOf(r)),
         UNION imm \subseteq LogHolds(l, logNumber),
         mem \subseteq EntriesOf(l[logfile].records)
  PROVE  /\ mem \union (UNION imm) \union Held(t, version)
              \subseteq Held(t, FilesOf(r)) \union LogHolds(l, k)
         /\ Held(t, version) \union ((UNION imm) \intersect LogKeeps(l, logNumber))
              \union (mem \intersect LeftOf(l[logfile]))
              \subseteq Held(t, FilesOf(r)) \union LogKeeps(l, k)
<1>1. logfile \in Nat /\ k <= logfile
  OBVIOUS
<1>2. EntriesOf(l[logfile].records) \subseteq LogHolds(l, k)
  BY <1>1 DEF LogHolds
<1>3. LeftOf(l[logfile]) \subseteq LogKeeps(l, k)
  BY <1>1 DEF LogKeeps
<1>4. CASE k <= logNumber
  <2>1. LogHolds(l, logNumber) \subseteq LogHolds(l, k)
    BY <1>4, LogHoldsLess
  <2>2. LogKeeps(l, logNumber) \subseteq LogKeeps(l, k)
    BY <1>4, LogKeepsLess
  <2> QED
    BY <1>2, <1>3, <2>1, <2>2
<1>5. CASE UNION imm \subseteq Held(t, FilesOf(r))
  BY <1>2, <1>3, <1>5
<1> QED
  BY <1>4, <1>5

\* Whenever the process ends, what DB::Open would find has every call.
LEMMA DurableSeen ==
  ASSUME Typed, Numbered, Durable, current > 1
  PROVE  /\ acked \subseteq Calls(Seen(Records)) /\ \A r \in Found : SafeSeen(r)
         /\ pc = "open" => \A r \in Found : InMemory \subseteq Seen(r) /\ LastEdit(r).log <= logfile
<1>1. CASE pc # "open"
  BY <1>1 DEF Durable, AtRest
<1>2. CASE pc = "open"
  <2>1. /\ \A n \in DOMAIN logs : n \in Nat
        /\ logNumber \in Nat /\ logfile \in DOMAIN logs /\ logNumber <= logfile
        /\ Records \in Found
    BY <1>2, OpenRecords DEF Typed, FilesTyped, MemoryTyped, Numbered, Numbers
  <2>2. ASSUME NEW r \in Found
        PROVE  InMemory \subseteq Seen(r) /\ SafeSeen(r) /\ LastEdit(r).log <= logfile
    <3>1. CASE Whole(Records)
      <4> DEFINE k == LastEdit(r).log
      <4>1. k \in Nat
        BY FoundTyped DEF Typed, Edits
      <4>2. /\ Held(tables, version) \subseteq Held(tables, FilesOf(r))
            /\ \/ k <= logNumber
               \/ k <= logfile /\ UNION imm \subseteq Held(tables, FilesOf(r))
            /\ UNION imm \subseteq LogHolds(logs, logNumber)
            /\ mem \subseteq EntriesOf(logs[logfile].records)
            /\ safe \subseteq Calls(Held(tables, version)
                        \union ((UNION imm) \intersect LogKeeps(logs, logNumber))
                        \union (mem \intersect LeftOf(logs[logfile])))
        BY <1>2, <3>1 DEF Durable, Recorded, Kept
      <4>3. k <= logfile
        BY <2>1, <4>1, <4>2
      <4> HIDE DEF k
      <4>4. /\ mem \union (UNION imm) \union Held(tables, version)
                 \subseteq Held(tables, FilesOf(r)) \union LogHolds(logs, k)
            /\ Held(tables, version) \union ((UNION imm) \intersect LogKeeps(logs, logNumber))
                 \union (mem \intersect LeftOf(logs[logfile]))
                 \subseteq Held(tables, FilesOf(r)) \union LogKeeps(logs, k)
        BY <2>1, <4>1, <4>2, ReadBack
      <4>5. safe \subseteq Calls(Held(tables, FilesOf(r)) \union LogKeeps(logs, k))
        BY <4>2, <4>4, CallsMoves
      <4> QED
        BY <4>3, <4>4, <4>5 DEF k, InMemory, Seen, SafeSeen
    <3>2. CASE ~ Whole(Records)
      BY <1>2, <3>2 DEF Durable, Recorded, Stuck
    <3> QED
      BY <3>1, <3>2
  <2>3. acked \subseteq Calls(Seen(Records))
    <3>1. acked \subseteq Calls(InMemory)
      BY <1>2 DEF Durable, Running
    <3> QED
      BY <2>1, <2>2, <3>1, CallsMoves
  <2> QED
    BY <2>2, <2>3
<1> QED
  BY <1>1, <1>2

LEMMA DurableInit == Init => Durable
<1> SUFFICES ASSUME Init PROVE Durable
  OBVIOUS
<1>1. /\ DOMAIN logs = {} /\ acked = {} /\ safe = {} /\ pc = "closed" /\ current = 0
      /\ leader.pc = "room"
        /\ ~ (0 > 1)
  BY DEF Init
<1> QED
  BY <1>1 DEF Durable, LogsWhole, NothingYet, AtRest, Replayed, Running, Recorded, Group

\* The process ends, and leaves what has every call.
LEMMA DurableForget ==
  ASSUME Forget, LogsWhole', NothingYet',
         current' > 1 => acked' \subseteq Calls(Seen(Records)') /\ \A r \in Found' : SafeSeen(r)'
  PROVE  Durable'
<1>1. pc' = "closed" /\ leader'.pc = "room"
  BY DEF Forget
<1>2. AtRest'
  BY <1>1 DEF AtRest
<1>3. Replayed' /\ Running' /\ Recorded' /\ Group'
  BY <1>1 DEF Replayed, Running, Recorded, Group
<1> QED
  BY <1>2, <1>3 DEF Durable

LEMMA RecordsFound ==
  ASSUME Typed, Numbered, current > 1
  PROVE  Records \in Found /\ current # 0 /\ current \in Nat
<1>1. current \in Nat /\ current # 0
  BY DEF Typed, FilesTyped
<1>2. /\ manifests[current].synced >= 1 /\ manifests[current] \in FileOf(EditRecords)
      /\ Len(Records) \in Nat
  BY <1>1, FoundTyped DEF Numbered, Numbers, Typed
<1>3. Len(Records) >= 1
  BY <1>2, FileProperties DEF Records
<1> QED
  BY <1>1, <1>3, FoundTyped DEF Typed

\* A log is added.
LEMMA LogsAfterPut ==
  ASSUME NEW l, NEW n, n \notin DOMAIN l, NEW k
  PROVE  /\ LogHolds(l, k) \subseteq LogHolds(Put(l, n, NewFile), k)
         /\ LogKeeps(l, k) \subseteq LogKeeps(Put(l, n, NewFile), k)
<1> DEFINE m == Put(l, n, NewFile)
<1>1. \A i \in DOMAIN l : i \in DOMAIN m /\ m[i] = l[i]
  BY DEF Put
<1> HIDE DEF m
<1>2. LogHolds(l, k) \subseteq LogHolds(m, k)
  BY <1>1 DEF LogHolds
<1>3. LogKeeps(l, k) \subseteq LogKeeps(m, k)
  BY <1>1 DEF LogKeeps
<1> QED
  BY <1>2, <1>3 DEF m

LEMMA WholeAfterPut ==
  ASSUME LogsWhole, NEW n, logs' = Put(logs, n, NewFile)
  PROVE  LogsWhole'
<1>1. \A i \in DOMAIN logs' : logs'[i] = NewFile \/ (i \in DOMAIN logs /\ logs'[i] = logs[i])
  BY DEF Put
<1> QED
  BY <1>1, EntriesOfEmpty DEF LogsWhole

\* Readable records are a prefix.
LEMMA ReadableBefore ==
  ASSUME NEW f \in FileOf(LogRecords), NEW i \in Readable(f.records), NEW j \in Nat, 1 <= j, j <= i
  PROVE  j \in Readable(f.records)
<1>1. DOMAIN f.records = 1..Len(f.records) /\ Len(f.records) \in Nat
  BY FileProperties
<1>2. i \in 1..Len(f.records) /\ \A h \in 1..i : f.records[h] # Torn
  BY <1>1 DEF Readable
<1>3. j \in 1..Len(f.records) /\ \A h \in 1..j : h \in 1..i
  BY <1>1, <1>2
<1> QED
  BY <1>1, <1>2, <1>3 DEF Readable

\* What DB::Open does to what is left to read.
LEMMA RecordRead ==
  ASSUME Typed, Typed', NEW n \in DOMAIN logs, ReplayRecord(n)
  PROVE  Remaining \subseteq logs[n].records[replay.read + 1] \union Remaining'
<1>1. /\ Replaying(n) /\ pc' = pc /\ logs' = logs /\ replay'.log = replay.log
      /\ replay'.read = replay.read + 1 /\ replay.read \in Nat /\ replay.log \in Nat
  BY DEF ReplayRecord, Typed, MemoryTyped
<1>2. LogsFrom(replay.log)' = LogsFrom(replay.log)
  BY <1>1 DEF LogsFrom
<1>3. \A m : Replaying(m)' = Replaying(m)
  BY <1>1, <1>2 DEF Replaying
<1> SUFFICES ASSUME NEW e \in Remaining PROVE e \in logs[n].records[replay.read + 1] \/ e \in Remaining'
  OBVIOUS
<1>4. PICK m \in LogsFrom(replay.log) : \E i \in ToRead(m) : e \in logs[m].records[i]
  BY DEF Remaining
<1>5. PICK i \in ToRead(m) : e \in logs[m].records[i]
  BY <1>4
<1>6. i \in Nat
  BY FileProperties DEF ToRead, Readable, LogsFrom, Typed, FilesTyped
<1>7. CASE Replaying(m) /\ i = replay.read + 1
  <2>1. m = n
    BY <1>1, <1>7 DEF Replaying, LogsFrom, Typed, FilesTyped
  <2> QED
    BY <1>5, <1>7, <2>1
<1>8. CASE Replaying(m) => i # replay.read + 1
  <2>1. i \in Readable(logs[m].records) /\ (Replaying(m) => i > replay.read + 1)
    BY <1>1, <1>5, <1>6, <1>8 DEF ToRead
  <2>2. i \in {j \in Readable(logs'[m].records) : Replaying(m)' => j > replay'.read}
    BY <1>1, <1>3, <2>1
  <2>3. i \in ToRead(m)'
    BY <2>2 DEF ToRead
  <2>4. e \in UNION {logs'[m].records[j] : j \in ToRead(m)'}
    BY <1>1, <1>5, <2>3
  <2> QED
    BY <1>2, <1>4, <2>4 DEF Remaining
<1> QED
  BY <1>7, <1>8

LEMMA LogRead ==
  ASSUME Typed, NEW n \in DOMAIN logs, ReplayEnd(n)
  PROVE  Remaining \subseteq Remaining'
<1>1. /\ Replaying(n) /\ pc' = pc /\ logs' = logs /\ replay'.log = n + 1 /\ replay'.read = 0
      /\ replay.read \in Nat /\ replay.log \in Nat /\ n \in Nat
      /\ replay.read + 1 \notin Readable(logs[n].records)
  BY DEF ReplayEnd, Typed, MemoryTyped, FilesTyped
<1> SUFFICES ASSUME NEW e \in Remaining PROVE e \in Remaining'
  OBVIOUS
<1>2. PICK m \in LogsFrom(replay.log) : \E i \in ToRead(m) : e \in logs[m].records[i]
  BY DEF Remaining
<1>3. PICK i \in ToRead(m) : e \in logs[m].records[i]
  BY <1>2
<1>4. m \in DOMAIN logs /\ m \in Nat /\ n <= m /\ logs[m] \in FileOf(LogRecords)
  BY <1>1 DEF LogsFrom, Replaying, Typed, FilesTyped
<1>5. i \in Readable(logs[m].records) /\ i \in Nat /\ 1 <= i
  BY <1>4, FileProperties DEF ToRead, Readable
<1>6. m # n
  <2> SUFFICES ASSUME m = n PROVE FALSE
    OBVIOUS
  <2>1. i > replay.read
    BY <1>1 DEF ToRead
  <2>2. 1 <= replay.read + 1 /\ replay.read + 1 <= i /\ replay.read + 1 \in Nat
    BY <1>1, <1>5, <2>1
  <2> QED
    BY <1>1, <1>4, <1>5, <2>2, ReadableBefore
<1>7. m \in LogsFrom(replay.log)'
  BY <1>1, <1>4, <1>6 DEF LogsFrom
<1>8. i \in {j \in Readable(logs'[m].records) : Replaying(m)' => j > replay'.read}
  BY <1>1, <1>5
<1>9. i \in ToRead(m)'
  BY <1>8 DEF ToRead
<1>10. e \in UNION {logs'[m].records[j] : j \in ToRead(m)'}
  BY <1>1, <1>3, <1>9
<1> QED
  BY <1>7, <1>10 DEF Remaining

\* A step of DB::Open that has not got to the end.
LEMMA DurableOpening ==
  ASSUME Typed, Numbered, Durable, pc # "open", pc' # "open",
         UNCHANGED <<current, acked, safe>>, leader'.pc = "room",
         LogsWhole', current # 0 => Found' = Found /\ Records' = Records,
         \A r \in Found : Held(tables, FilesOf(r)) \subseteq Held(tables', FilesOf(r)),
         \A k : LogHolds(logs, k) \subseteq LogHolds(logs', k),
         \A k : LogKeeps(logs, k) \subseteq LogKeeps(logs', k),
         Replayed'
  PROVE  Durable'
<1>1. AtRest'
  <2> SUFFICES ASSUME current > 1
               PROVE  acked \subseteq Calls(Seen(Records)') /\ \A r \in Found' : SafeSeen(r)'
    BY DEF AtRest
  <2>1. /\ Records \in Found /\ Found' = Found /\ Records' = Records
        /\ acked \subseteq Calls(Seen(Records)) /\ \A r \in Found : SafeSeen(r)
    BY RecordsFound DEF Durable, AtRest
  <2>2. Seen(Records) \subseteq Seen(Records)'
    BY <2>1 DEF Seen
  <2>3. acked \subseteq Calls(Seen(Records)')
    BY <2>1, <2>2, CallsMoves
  <2>4. ASSUME NEW r \in Found PROVE SafeSeen(r)'
    <3>1. safe \subseteq Calls(Held(tables, FilesOf(r)) \union LogKeeps(logs, LastEdit(r).log))
      BY <2>1 DEF SafeSeen
    <3>2. safe \subseteq Calls(Held(tables', FilesOf(r)) \union LogKeeps(logs', LastEdit(r).log))
      BY <3>1, CallsMoves
    <3> QED
      BY <3>2 DEF SafeSeen
  <2> QED
    BY <2>1, <2>3, <2>4
<1>2. NothingYet'
  BY DEF Durable, NothingYet
<1>3. Running' /\ Recorded' /\ Group'
  BY DEF Running, Recorded, Group
<1> QED
  BY <1>1, <1>2, <1>3 DEF Durable

LEMMA DurableOpen ==
  ASSUME DBImplAssumption, Typed, Typed', Numbered, Sound, Durable, ~ deleting, Open
  PROVE  Durable'
<1>a. FilesTyped /\ UNCHANGED <<acked, safe>>
  BY DEF Open, NewDB, Recover, ReplayRecord, ReplayEnd, OpenLog, OpenManifest, OpenFails,
     OpenInstall, callers, Typed
<1>b. pc # "open" /\ leader = [pc |-> "room"] /\ imm = {} /\ safe \subseteq acked
  <2>1. pc # "open"
    BY DEF Open, NewDB, Recover, ReplayRecord, ReplayEnd, Replaying, OpenLog, OpenManifest,
       OpenFails, OpenInstall
  <2> QED
    BY <2>1 DEF Typed, Idle, QueueTyped
<1>c. LogsWhole /\ (~ (current > 1) => acked = {})
  <2>1. ~ (current > 1) => current <= 1
    BY <1>a DEF FilesTyped
  <2> QED
    BY <2>1 DEF Durable, NothingYet
<1>1. CASE NewDB
  <2>1. /\ current = 0 /\ current' = 1 /\ pc = "closed"
        /\ UNCHANGED <<logs, pc, leader>>
    BY <1>1 DEF NewDB, queue
  <2>2. acked = {} /\ LogsWhole'
    BY <1>c, <2>1 DEF LogsWhole
  <2>3. AtRest' /\ NothingYet'
    BY <1>a, <2>1, <2>2 DEF AtRest, NothingYet
  <2>4. Replayed' /\ Running' /\ Recorded' /\ Group'
    BY <1>b, <2>1 DEF Replayed, Running, Recorded, Group
  <2> QED
    BY <2>2, <2>3, <2>4 DEF Durable
<1>2. CASE Recover
  <2>1. /\ pc' = "replay" /\ version' = FilesOf(Records) /\ pc = "closed" /\ current # 0
        /\ replay' = [log |-> LastEdit(Records).log, read |-> 0]
        /\ UNCHANGED <<logs, tables, manifests, current, leader>>
    BY <1>2 DEF Recover, disk, Records, queue
  <2>2. Found' = Found /\ Records' = Records
    BY <2>1, FoundStays
  <2>3. LogHolds(logs, LastEdit(Records).log) \subseteq Remaining'
    <3> SUFFICES ASSUME NEW n \in DOMAIN logs, n >= LastEdit(Records).log,
                        NEW e \in EntriesOf(logs[n].records)
                 PROVE  e \in Remaining'
      BY DEF LogHolds
    <3>1. n \in LogsFrom(replay.log)'
      BY <2>1 DEF LogsFrom
    <3>2. PICK i \in Readable(logs[n].records) : e \in logs[n].records[i]
      BY DEF EntriesOf
    <3>3. i > 0
      BY FileProperties DEF Readable, Typed, FilesTyped
    <3>4. i \in {j \in Readable(logs'[n].records) : Replaying(n)' => j > replay'.read}
      BY <2>1, <3>3
    <3>5. i \in ToRead(n)'
      BY <3>4 DEF ToRead
    <3>6. e \in UNION {logs'[n].records[j] : j \in ToRead(n)'}
      BY <2>1, <3>2, <3>5
    <3> QED
      BY <3>1, <3>6 DEF Remaining
  <2>4. acked \subseteq Calls(mem' \union Held(tables', version') \union Remaining')
    <3>1. CASE ~ (current > 1)
      BY <1>c, <3>1
    <3>2. CASE current > 1
      <4>1. acked \subseteq Calls(Seen(Records))
        BY <1>b, <3>2 DEF Durable, AtRest
      <4>2. Seen(Records) \subseteq mem' \union Held(tables', version') \union Remaining'
        BY <2>1, <2>3 DEF Seen
      <4> QED
        BY <4>1, <4>2, CallsMoves
    <3> QED
      BY <3>1, <3>2
  <2>5. Replayed'
    BY <1>a, <2>1, <2>4 DEF Replayed
  <2>6. LogsWhole'
    BY <1>c, <2>1 DEF LogsWhole
  <2> QED
    BY <1>a, <1>b, <2>1, <2>2, <2>5, <2>6, DurableOpening
<1>3. ASSUME NEW n \in DOMAIN logs, ReplayRecord(n) \/ ReplayEnd(n) PROVE Durable'
  <2>1. /\ pc = "replay" /\ UNCHANGED <<pc, logs, manifests, current, leader>>
    BY <1>3 DEF ReplayRecord, ReplayEnd, Replaying, queue
  <2>2. Found' = Found /\ Records' = Records
    BY <2>1, FoundStays DEF Numbered, Numbers
  <2>3. Fresh(nextFile)
    BY <2>1, NextFileIsFresh
  <2>4. acked \subseteq Calls(mem \union Held(tables, version) \union Remaining)
    BY <2>1 DEF Durable, Replayed
  <2>5. /\ \A r \in Found : Held(tables, FilesOf(r)) \subseteq Held(tables', FilesOf(r))
        /\ mem \union Held(tables, version) \union Remaining
             \subseteq mem' \union Held(tables', version') \union Remaining'
    <3>1. CASE ReplayRecord(n)
      <4> DEFINE record == logs[n].records[replay.read + 1]
      <4>1. \/ WriteLevel0Table(mem \union record)
            \/ mem' = mem \union record /\ UNCHANGED <<tables, version>>
        BY <3>1 DEF ReplayRecord
      <4>2. Remaining \subseteq record \union Remaining'
        BY <3>1, RecordRead
      <4> HIDE DEF record
      <4>3. /\ (mem \union record) \union Held(tables, version)
                   \subseteq mem' \union Held(tables', version')
            /\ \A r \in Found : Held(tables', FilesOf(r)) = Held(tables, FilesOf(r))
        BY <2>3, <4>1, WroteLevel0
      <4> QED
        BY <4>2, <4>3
    <3>2. CASE ReplayEnd(n)
      <4>1. WriteLevel0Table(mem) \/ (mem' = mem /\ UNCHANGED <<tables, version>>)
        BY <3>2 DEF ReplayEnd
      <4>2. Remaining \subseteq Remaining'
        BY <3>2, LogRead
      <4>3. /\ mem \union Held(tables, version) \subseteq mem' \union Held(tables', version')
            /\ \A r \in Found : Held(tables', FilesOf(r)) = Held(tables, FilesOf(r))
        BY <2>3, <4>1, WroteLevel0
      <4> QED
        BY <4>2, <4>3
    <3> QED
      BY <1>3, <3>1, <3>2
  <2>6. acked \subseteq Calls(mem' \union Held(tables', version') \union Remaining')
    BY <2>4, <2>5, CallsMoves
  <2>7. Replayed' /\ LogsWhole'
    BY <1>a, <1>c, <2>1, <2>6 DEF Replayed, LogsWhole
  <2> QED
    BY <1>a, <1>b, <2>1, <2>2, <2>5, <2>7, DurableOpening
<1>4. CASE OpenLog
  <2>1. /\ pc = "replay" /\ pc' = "log" /\ LogsFrom(replay.log) = {}
        /\ logs' = Put(logs, nextFile, NewFile)
        /\ UNCHANGED <<tables, manifests, current, version, mem, leader>>
    BY <1>4 DEF OpenLog, queue
  <2>2. Found' = Found /\ Records' = Records
    BY <2>1, FoundStays DEF Numbered, Numbers
  <2>3. nextFile \notin DOMAIN logs
    BY <2>1 DEF LogsFrom, Numbered, Numbers, Typed, MemoryTyped
  <2>4. mem = {} /\ Remaining = {}
    BY <2>1 DEF Typed, Remaining
  <2>5. acked \subseteq Calls(Held(tables, version))
    BY <2>1, <2>4 DEF Durable, Replayed
  <2>6. LogsWhole'
    BY <1>c, <2>1, WholeAfterPut
  <2>7. \A k : LogHolds(logs, k) \subseteq LogHolds(logs', k) /\ LogKeeps(logs, k) \subseteq LogKeeps(logs', k)
    BY <2>1, <2>3, LogsAfterPut
  <2>8. Replayed'
    BY <1>a, <2>1, <2>5 DEF Replayed
  <2> QED
    BY <1>a, <1>b, <2>1, <2>2, <2>6, <2>7, <2>8, DurableOpening
<1>5. CASE OpenManifest
  <2>1. /\ pc = "log" /\ pc' = "manifest" /\ manifest # current
        /\ manifests' = Put(manifests, manifest, Synced([records |-> <<{WriteSnapshot}>>, synced |-> 0]))
        /\ UNCHANGED <<logs, tables, current, version, leader>>
    BY <1>5 DEF OpenManifest, memory, queue, Numbered, Numbers, Typed, MemoryTyped, FilesTyped
  <2>2. current # 0 => manifests'[current] = manifests[current]
    BY <1>a, <2>1 DEF Put, FilesTyped
  <2>3. current # 0 => Found' = Found /\ Records' = Records
    BY <2>1, <2>2, FoundStays
  <2>4. Replayed' /\ LogsWhole'
    BY <1>a, <1>c, <2>1 DEF Durable, Replayed, LogsWhole
  <2> QED
    BY <1>a, <1>b, <2>1, <2>3, <2>4, DurableOpening
<1>6. CASE OpenFails
  <2>1. Forget /\ UNCHANGED <<logs, tables, manifests, current>>
    BY <1>6 DEF OpenFails, disk
  <2>2. Found' = Found /\ Records' = Records
    BY <2>1 DEF Found, Records
  <2>3. pc' = "closed" /\ leader'.pc = "room"
    BY <2>1 DEF Forget
  <2>4. Replayed' /\ LogsWhole'
    BY <1>c, <2>1, <2>3 DEF Replayed, LogsWhole
  <2> QED
    BY <1>a, <1>b, <2>1, <2>2, <2>3, <2>4, DurableOpening
<1>7. CASE OpenInstall
  <2> DEFINE s == <<{WriteSnapshot}>>
  <2>1. /\ pc = "manifest" /\ pc' = "open" /\ current' = manifest /\ logNumber' = logfile
        /\ UNCHANGED <<logs, tables, manifests, version, mem, imm, logfile, leader, flush>>
    BY <1>7 DEF OpenInstall, queue, bg
  <2>2. /\ manifests'[current'] = [records |-> s, synced |-> 1] /\ current' # 0 /\ current' > 1
        /\ logfile \in Nat /\ flush = NoFlush
    <3>1. manifests[manifest] = [records |-> s, synced |-> 1] /\ manifest > current
      BY <2>1 DEF Numbered, Numbers
    <3>2. current \in Nat /\ manifest \in Nat /\ logfile \in Nat
      BY DEF Typed, MemoryTyped, FilesTyped
    <3>3. flush = NoFlush
      BY <2>1 DEF Typed, Idle
    <3>4. current # 0
      BY <2>1 DEF Numbered, Numbers
    <3>5. manifest # 0 /\ manifest > 1
      <4>1. current >= 1
        BY <3>2, <3>4
      <4> QED
        BY <3>1, <3>2, <4>1
    <3> QED
      BY <2>1, <3>1, <3>2, <3>3, <3>5
  <2>3. /\ WriteSnapshot \in Edits /\ WriteSnapshot.added = version /\ WriteSnapshot.log = logfile
    BY DEF WriteSnapshot, Edits, Typed, MemoryTyped
  <2>4. {WriteSnapshot} \in EditRecords
    BY <2>3 DEF EditRecords
  <2>5. Recoverable([records |-> s, synced |-> 1]) = {s}
    BY <2>4, RecoverableOne, 1 \in {0, 1}
  <2>6. FilesOf(s) = version /\ LastEdit(s).log = logfile
    BY <2>3, OneEdit
  <2>7. Whole(s)
    BY DEF Whole, Torn
  <2> HIDE DEF s
  <2>8. Found' = {s} /\ Records' = s
    BY <2>2, <2>5 DEF Found, Records
  <2>9. mem = {} /\ UNION imm = {}
    BY <1>b, <2>1 DEF Typed
  <2>10. acked' \subseteq Calls(Held(tables', version'))
    BY <1>a, <2>1 DEF Durable, Replayed
  <2>11. Kept'
    <3>1. safe' \subseteq Calls(Held(tables', version')
                      \union ((UNION imm') \intersect LogKeeps(logs', logNumber'))
                      \union (mem' \intersect LeftOf(logs'[logfile'])))
      BY <1>a, <1>b, <2>10, CallsMoves
    <3>2. /\ UNION imm' \subseteq LogHolds(logs', logNumber')
          /\ mem' \subseteq EntriesOf(logs'[logfile'].records)
          /\ flush'.pc # "sync"
      BY <2>1, <2>2, <2>9 DEF NoFlush
    <3>3. ASSUME NEW r \in Found'
          PROVE  /\ Held(tables', version') \subseteq Held(tables', FilesOf(r))
                 /\ LastEdit(r).log <= logNumber'
      BY <2>1, <2>2, <2>6, <2>8
    <3> QED
      BY <3>1, <3>2, <3>3 DEF Kept
  <2>12. Running'
    <3>1. acked' \subseteq Calls(InMemory')
      BY <2>10, CallsMoves DEF InMemory
    <3> QED
      BY <3>1 DEF Running
  <2>13. NothingYet' /\ AtRest' /\ Replayed' /\ Recorded' /\ Group' /\ LogsWhole'
    <3>1. ~ (current' <= 1)
      BY <1>a, <2>2 DEF Typed, FilesTyped
    <3>2. Group' /\ LogsWhole' /\ NothingYet' /\ AtRest' /\ Replayed'
      BY <1>b, <1>c, <2>1, <3>1 DEF Group, LogsWhole, NothingYet, AtRest, Replayed
    <3> QED
      BY <2>7, <2>8, <2>11, <3>2 DEF Recorded
  <2> QED
    BY <2>12, <2>13 DEF Durable
<1> QED
  BY <1>1, <1>2, <1>3, <1>4, <1>5, <1>6, <1>7 DEF Open

-----------------------------------------------------------------------------
(* Writers *)

\* The database stays open.
LEMMA DurableRunning ==
  ASSUME pc' = "open", current' > 1, current' \in Nat, LogsWhole', Running', Recorded', Group'
  PROVE  Durable'
BY DEF Durable, NothingYet, AtRest, Replayed

\* A step of a writer that leaves the manifests and the memtable before alone.  W is
\* what it adds to the memtable.
LEMMA RecordedWriter ==
  ASSUME Typed, Numbered, Durable, pc = "open", Found' = Found, Records' = Records,
         UNCHANGED <<tables, version, logNumber, logfile, imm, flush>>,
         \A n \in DOMAIN logs : /\ n \in DOMAIN logs'
                                /\ EntriesOf(logs[n].records) \subseteq EntriesOf(logs'[n].records)
                                /\ LeftOf(logs[n]) \subseteq LeftOf(logs'[n]),
         NEW W, mem' = mem \union W, W \subseteq EntriesOf(logs'[logfile].records),
         safe' \subseteq safe \union Calls(W \intersect LeftOf(logs'[logfile]))
  PROVE  Recorded'
<1> DEFINE l == logs'
<1>1. /\ \A n \in DOMAIN logs : n \in DOMAIN l
      /\ logfile \in DOMAIN logs /\ logfile \in DOMAIN l
      /\ \A n \in DOMAIN logs : EntriesOf(logs[n].records) \subseteq EntriesOf(l[n].records) \union {}
      /\ \A n \in DOMAIN logs : LeftOf(logs[n]) \subseteq LeftOf(l[n])
  BY DEF Numbered, Numbers
<1>2. W \subseteq EntriesOf(l[logfile].records)
  OBVIOUS
<1>3. safe' \subseteq safe \union Calls(W \intersect LeftOf(l[logfile]))
  OBVIOUS
<1> HIDE DEF l
<1>4. \A k : LogHolds(logs, k) \subseteq LogHolds(l, k) \union {}
  BY <1>1, LogHoldsMoves
<1>5. \A k : LogKeeps(logs, k) \subseteq LogKeeps(l, k)
  BY <1>1, LogKeepsMoves
<1>6. CASE Whole(Records)
  <2>1. Kept
    BY <1>6 DEF Durable, Recorded
  <2> DEFINE A == Held(tables, version)
             B == A \union ((UNION imm) \intersect LogKeeps(logs, logNumber))
                    \union (mem \intersect LeftOf(logs[logfile]))
             C == A \union ((UNION imm) \intersect LogKeeps(l, logNumber))
                    \union (mem' \intersect LeftOf(l[logfile]))
  <2>2. safe \subseteq Calls(B)
    BY <2>1 DEF Kept
  <2>3. B \subseteq C /\ W \intersect LeftOf(l[logfile]) \subseteq C
    BY <1>1, <1>5
  <2>4. safe' \subseteq Calls(C)
    <3> HIDE DEF B, C
    <3>1. safe \subseteq Calls(C)
      BY <2>2, <2>3, CallsMoves
    <3>2. Calls(W \intersect LeftOf(l[logfile])) \subseteq Calls(C)
      BY <2>3, CallsMoves
    <3> QED
      BY <1>3, <3>1, <3>2
  <2>5. UNION imm \subseteq LogHolds(l, logNumber)
    BY <1>4, <2>1 DEF Kept
  <2>6. mem' \subseteq EntriesOf(l[logfile].records)
    BY <1>1, <1>2, <2>1 DEF Kept
  <2>7. Kept'
    BY <2>1, <2>4, <2>5, <2>6 DEF Kept, l
  <2> QED
    BY <1>6, <2>7 DEF Recorded
<1>7. CASE ~ Whole(Records)
  <2>1. Stuck
    BY <1>7 DEF Durable, Recorded
  <2>2. ASSUME NEW r \in Found
        PROVE  InMemory' \subseteq Seen(r)' /\ SafeSeen(r)' /\ LastEdit(r).log <= logfile
    <3> DEFINE k == LastEdit(r).log
               H == Held(tables, FilesOf(r))
    <3>1. /\ InMemory \subseteq H \union LogHolds(logs, k)
          /\ safe \subseteq Calls(H \union LogKeeps(logs, k)) /\ k <= logfile
      BY <2>1 DEF Stuck, Seen, SafeSeen
    <3> HIDE DEF k, H
    <3>2. W \subseteq LogHolds(l, k) /\ LeftOf(l[logfile]) \subseteq LogKeeps(l, k)
      BY <1>1, <1>2, <3>1 DEF LogHolds, LogKeeps
    <3>3. InMemory' \subseteq H \union LogHolds(l, k)
      BY <1>4, <3>1, <3>2 DEF InMemory
    <3>4. safe \subseteq Calls(H \union LogKeeps(l, k))
      BY <1>5, <3>1, CallsMoves
    <3>5. Calls(W \intersect LeftOf(l[logfile])) \subseteq Calls(H \union LogKeeps(l, k))
      BY <3>2, CallsMoves
    <3>6. safe' \subseteq Calls(H \union LogKeeps(l, k))
      BY <1>3, <3>4, <3>5
    <3> QED
      BY <3>1, <3>3, <3>6 DEF k, H, l, Seen, SafeSeen
  <2>3. Stuck'
    BY <2>2 DEF Stuck
  <2> QED
    BY <1>7, <2>3 DEF Recorded
<1> QED
  BY <1>6, <1>7

\* The calls of a group that is not written, or has nothing to write.
LEMMA ReturnNothing ==
  ASSUME NEW n, NEW ok, Return(n, ok), ok = TRUE => Batches(n) = {}
  PROVE  UNCHANGED <<acked, safe>> /\ leader' = [pc |-> "room"]
BY DEF Return

\* A group that BuildBatchGroup picks has a batch, the leader's.
LEMMA UpdatesOfGroup ==
  ASSUME QueueTyped, NEW n \in 1..Len(writers), writers # << >>, writers[1].kind # "force", NEW U,
         U = {[call |-> writers[i].call, seq |-> lastSequence + Cardinality(Batches(i))] :
                i \in Batches(n)}
  PROVE  U # {} /\ Calls(U) = {writers[i].call : i \in Batches(n)}
<1>1. 1 \in Batches(n)
  BY HeadOfQueue DEF Batches
<1> DEFINE E(i) == [call |-> writers[i].call, seq |-> lastSequence + Cardinality(Batches(i))]
<1>2. U = {E(i) : i \in Batches(n)} /\ \A i : E(i).call = writers[i].call
  OBVIOUS
<1> HIDE DEF E
<1> QED
  BY <1>1, <1>2 DEF Calls

LEMMA DurableWriter ==
  ASSUME DBImplAssumption, "append" \notin Faults,
         Typed, Typed', Numbered, Numbered', Sound, Durable, Writer
  PROVE  Durable'
<1>0. /\ UNCHANGED <<tables, manifests, current, pc, version, logNumber, flush>>
      /\ pc = "open" /\ pc' = "open" /\ current > 1 /\ current' > 1 /\ current' \in Nat
  BY WriterFrame, OpenRecords DEF bg, Numbered, Numbers
<1>a. Found' = Found /\ Records' = Records
  BY <1>0, OpenRecords, FoundStays
<1>b. /\ FilesTyped /\ QueueTyped /\ logfile \in DOMAIN logs /\ logs[logfile] \in FileOf(LogRecords)
      /\ LogsWhole /\ acked \subseteq Calls(InMemory) /\ Group
      /\ nextFile \notin DOMAIN logs /\ logfile \in Nat /\ nextFile \in Nat
  <2>1. FilesTyped /\ QueueTyped /\ logfile \in Nat /\ nextFile \in Nat
    BY DEF Typed, MemoryTyped
  <2>2. logfile \in DOMAIN logs /\ logfile < nextFile /\ \A n \in DOMAIN logs : n <= logfile
    BY <1>0 DEF Numbered, Numbers
  <2>3. logs[logfile] \in FileOf(LogRecords)
    BY <2>1, <2>2 DEF FilesTyped
  <2>4. nextFile \notin DOMAIN logs
    BY <2>1, <2>2
  <2>5. LogsWhole /\ acked \subseteq Calls(InMemory) /\ Group
    BY <1>0 DEF Durable, Running
  <2> QED
    BY <2>1, <2>2, <2>3, <2>4, <2>5
<1>1. CASE RoomError \/ RoomWait \/ RoomNoLog \/ ForceDone \/ BuildGroup \/ SyncLogFails
  <2>1. UNCHANGED <<logs, mem, imm, logfile, acked, safe>>
    <3>1. UNCHANGED <<logs, mem, imm, logfile>>
      BY <1>1 DEF RoomError, RoomWait, RoomNoLog, ForceDone, BuildGroup, SyncLogFails, disk, memory
    <3>2. UNCHANGED <<acked, safe>>
      <4>1. CASE RoomError \/ RoomNoLog \/ SyncLogFails
        BY <4>1, ReturnNothing DEF RoomError, RoomNoLog, SyncLogFails
      <4>2. CASE ForceDone
        <5>1. writers[1].kind = "force" /\ Return(1, TRUE)
          BY <4>2 DEF ForceDone
        <5>2. Batches(1) = {}
          BY <5>1 DEF Batches
        <5> QED
          BY <5>1, <5>2, ReturnNothing
      <4>3. CASE RoomWait \/ BuildGroup
        BY <4>3 DEF RoomWait, BuildGroup, callers
      <4> QED
        BY <1>1, <4>1, <4>2, <4>3
    <3> QED
      BY <3>1, <3>2
  <2>2. Recorded'
    <3>1. mem' = mem \union {} /\ {} \subseteq EntriesOf(logs'[logfile].records)
          /\ safe' \subseteq safe \union Calls({} \intersect LeftOf(logs'[logfile]))
      BY <2>1
    <3> QED
      BY <1>0, <1>a, <2>1, <3>1, RecordedWriter
  <2>3. Running' /\ LogsWhole'
    BY <1>0, <1>b, <2>1 DEF Running, InMemory, LogsWhole
  <2>4. Group'
    <3>1. CASE ~ BuildGroup
      <4>1. leader'.pc \in {"room", "switched"}
        BY <1>1, <3>1 DEF RoomError, RoomWait, RoomNoLog, ForceDone, SyncLogFails, Return, Leading
      <4> QED
        BY <4>1 DEF Group
    <3>2. CASE BuildGroup
      <4> DEFINE U == {[call |-> writers[i].call, seq |-> lastSequence + Cardinality(Batches(i))] :
                         i \in Batches(BuildBatchGroup)}
      <4>1. /\ writers # << >> /\ writers[1].kind # "force" /\ writers' = writers
            /\ leader' = [pc |-> "log", count |-> BuildBatchGroup, updates |-> U]
        BY <3>2 DEF BuildGroup, Leading
      <4>2. /\ BuildBatchGroup \in 1..Len(writers)
            /\ \A i \in 2..BuildBatchGroup :
                 writers[i].kind = "sync" => writers[1].kind = "sync"
        BY <1>b, <4>1, GroupProperties
      <4>3. U # {} /\ Calls(U) = {writers[i].call : i \in Batches(BuildBatchGroup)}
        BY <1>b, <4>1, <4>2, UpdatesOfGroup
      <4> HIDE DEF U
      <4>4. /\ leader'.pc = "log" /\ leader'.count = BuildBatchGroup /\ leader'.updates = U
        BY <4>1
      <4>5. Batches(BuildBatchGroup)' = Batches(BuildBatchGroup)
        BY <4>1 DEF Batches, BuildBatchGroup
      <4>6. Batches(leader.count)' = Batches(BuildBatchGroup)
        BY <4>1, <4>4 DEF Batches
      <4> QED
        BY <4>1, <4>2, <4>3, <4>4, <4>6 DEF Group
    <3> QED
      BY <3>1, <3>2
  <2> QED
    BY <1>0, <2>2, <2>3, <2>4, DurableRunning
<1>2. CASE RoomSwitch
  <2>1. /\ leader'.pc = "switched" /\ imm = {} /\ imm' = {mem} /\ mem' = {}
        /\ logs' = Put(logs, nextFile, NewFile) /\ logfile' = nextFile
        /\ ~ bgError /\ UNCHANGED <<acked, safe>>
    BY <1>2 DEF RoomSwitch, callers
  <2>2. Whole(Records) /\ logNumber = logfile /\ flush.pc # "sync" /\ logNumber \in Nat
    BY <1>0, <2>1 DEF Sound, UpToDate, Numbered, Numbers, Typed, MemoryTyped, BgTyped
  <2>3. Kept
    BY <1>0, <2>2 DEF Durable, Recorded
  <2> DEFINE l == logs'
  <2>4. l = Put(logs, nextFile, NewFile) /\ logfile \in DOMAIN l /\ l[logfile] = logs[logfile]
    BY <1>b, <2>1 DEF Put
  <2>5. LogsWhole'
    BY <1>b, <2>1, WholeAfterPut
  <2> HIDE DEF l
  <2>6. UNION imm' = mem /\ UNION imm = {}
    BY <2>1
  <2>7. mem \subseteq LogHolds(l, logNumber)
    BY <2>2, <2>3, <2>4 DEF Kept, LogHolds
  <2>8. safe' \subseteq Calls(Held(tables, version) \union (mem \intersect LogKeeps(l, logNumber))
                                \union {})
    <3>1. safe \subseteq Calls(Held(tables, version) \union ({} \intersect LogKeeps(logs, logNumber))
                      \union (mem \intersect LeftOf(logs[logfile])))
      BY <2>3, <2>6 DEF Kept
    <3>2. LeftOf(logs[logfile]) \subseteq LogKeeps(l, logNumber)
      BY <2>2, <2>4 DEF LogKeeps
    <3> QED
      BY <2>1, <3>1, <3>2, CallsMoves
  <2>9. Kept'
    <3>1. \A r \in Found : LastEdit(r).log <= logNumber
      BY <2>2, <2>3 DEF Kept
    <3>2. \A r \in Found : Held(tables, version) \subseteq Held(tables, FilesOf(r))
      BY <2>3 DEF Kept
    <3>3. /\ safe' \subseteq Calls(Held(tables', version')
                      \union ((UNION imm') \intersect LogKeeps(logs', logNumber'))
                      \union (mem' \intersect LeftOf(logs'[logfile'])))
      <4>1. mem' \intersect LeftOf(logs'[logfile']) = {}
        BY <2>1
      <4> QED
        BY <1>0, <2>6, <2>8, <4>1 DEF l
    <3>4. UNION imm' \subseteq LogHolds(logs', logNumber') /\ mem' = {}
      BY <1>0, <2>1, <2>6, <2>7 DEF l
    <3> QED
      BY <1>0, <1>a, <2>2, <3>1, <3>2, <3>3, <3>4 DEF Kept
  <2>10. Recorded'
    BY <1>a, <2>2, <2>9 DEF Recorded
  <2>11. Running' /\ Group'
    <3>1. InMemory \subseteq InMemory'
      BY <1>0, <2>1, <2>6 DEF InMemory
    <3>2. acked' \subseteq Calls(InMemory')
      BY <1>b, <2>1, <3>1, CallsMoves
    <3> QED
      BY <2>1, <3>2 DEF Running, Group
  <2> QED
    BY <1>0, <2>5, <2>10, <2>11, DurableRunning
<1>3. CASE AddRecord
  <2> DEFINE U == leader.updates
             f == logs[logfile]
             l == logs'
  <2>1. /\ leader.pc = "log" /\ U # Torn /\ U \in LogRecords
        /\ leader' = [leader EXCEPT !.pc = IF writers[1].kind = "sync" THEN "sync" ELSE "insert"]
        /\ l = [logs EXCEPT ![logfile] = Wrote(f, U)]
        /\ UNCHANGED <<mem, imm, logfile, acked, safe, writers>>
    BY <1>3, <1>b, LeaderTyped DEF AddRecord, Leading, Group, Torn, memory, callers
  <2>2. /\ leader'.pc = (IF writers[1].kind = "sync" THEN "sync" ELSE "insert")
        /\ leader'.updates = U /\ leader'.count = leader.count
    BY <2>1, LeaderTyped
  <2>3. f \in FileOf(LogRecords) /\ Whole(f.records)
    BY <1>b DEF LogsWhole
  <2> HIDE DEF U, f
  <2>4. LET g == Wrote(f, U) IN
         /\ EntriesOf(f.records) \subseteq EntriesOf(g.records)
         /\ LeftOf(f) \subseteq LeftOf(g)
         /\ Whole(g.records) /\ U \subseteq EntriesOf(g.records)
    BY <2>1, <2>3, WroteEntries
  <2>5. /\ DOMAIN l = DOMAIN logs /\ l[logfile] = Wrote(f, U)
        /\ \A n \in DOMAIN logs : n # logfile => l[n] = logs[n]
    BY <1>b, <2>1
  <2>6. \A n \in DOMAIN logs : /\ n \in DOMAIN l
                               /\ EntriesOf(logs[n].records) \subseteq EntriesOf(l[n].records)
                               /\ LeftOf(logs[n]) \subseteq LeftOf(l[n])
                               /\ Whole(l[n].records)
    BY <1>b, <2>4, <2>5 DEF f, LogsWhole
  <2>7. Recorded'
    <3>1. mem' = mem \union {} /\ {} \subseteq EntriesOf(logs'[logfile].records)
          /\ safe' \subseteq safe \union Calls({} \intersect LeftOf(logs'[logfile]))
      BY <2>1
    <3> QED
      BY <1>0, <1>a, <2>1, <2>6, <3>1, RecordedWriter
  <2>8. LogsWhole' /\ Running'
    BY <1>0, <1>b, <2>1, <2>5, <2>6 DEF LogsWhole, Running, InMemory
  <2>9. Group'
    <3>1. /\ Calls(U) = {writers[i].call : i \in Batches(leader.count)} /\ U # {}
          /\ \A i \in 2..leader.count : writers[i].kind = "sync" => writers[1].kind = "sync"
      BY <1>b, <2>1 DEF Group, U
    <3>2. Batches(leader.count)' = Batches(leader.count)
      BY <2>1, <2>2 DEF Batches
    <3>3. U \subseteq EntriesOf(logs'[logfile'].records)
      BY <2>1, <2>4, <2>5
    <3> QED
      BY <2>1, <2>2, <3>1, <3>2, <3>3 DEF Group
  <2> QED
    BY <1>0, <2>7, <2>8, <2>9, DurableRunning
<1>4. CASE SyncLog
  <2> DEFINE U == leader.updates
             f == logs[logfile]
             l == logs'
  <2>1. /\ leader.pc = "sync" /\ U \subseteq EntriesOf(f.records)
        /\ leader' = [leader EXCEPT !.pc = "insert"]
        /\ l = [logs EXCEPT ![logfile].synced = Len(f.records)]
        /\ UNCHANGED <<mem, imm, logfile, acked, safe, writers>>
    BY <1>4, <1>b DEF SyncLog, Leading, Group, memory, callers
  <2>2. /\ leader'.pc = "insert"
        /\ leader'.updates = U /\ leader'.count = leader.count
    BY <2>1, LeaderTyped
  <2>3. f \in FileOf(LogRecords) /\ Whole(f.records)
    BY <1>b DEF LogsWhole
  <2>4. /\ DOMAIN l = DOMAIN logs /\ l[logfile] = Synced(f)
        /\ \A n \in DOMAIN logs : n # logfile => l[n] = logs[n]
    BY <1>b, <2>1 DEF Synced
  <2> HIDE DEF U, f
  <2>5. /\ Synced(f).records = f.records
        /\ LeftOf(Synced(f)) = EntriesOf(f.records)
        /\ LeftOf(f) \subseteq EntriesOf(f.records)
    BY <2>3, SyncedEntries
  <2>6. \A n \in DOMAIN logs : /\ n \in DOMAIN l
                               /\ EntriesOf(logs[n].records) \subseteq EntriesOf(l[n].records)
                               /\ LeftOf(logs[n]) \subseteq LeftOf(l[n])
                               /\ Whole(l[n].records)
    BY <1>b, <2>3, <2>4, <2>5 DEF f, LogsWhole
  <2>7. Recorded'
    <3>1. mem' = mem \union {} /\ {} \subseteq EntriesOf(logs'[logfile].records)
          /\ safe' \subseteq safe \union Calls({} \intersect LeftOf(logs'[logfile]))
      BY <2>1
    <3> QED
      BY <1>0, <1>a, <2>1, <2>6, <3>1, RecordedWriter
  <2>8. LogsWhole' /\ Running'
    BY <1>0, <1>b, <2>1, <2>4, <2>6 DEF LogsWhole, Running, InMemory
  <2>9. Group'
    <3>1. /\ Calls(U) = {writers[i].call : i \in Batches(leader.count)} /\ U # {}
          /\ \A i \in 2..leader.count : writers[i].kind = "sync" => writers[1].kind = "sync"
      BY <1>b, <2>1 DEF Group, U
    <3>2. Batches(leader.count)' = Batches(leader.count)
      BY <2>1, <2>2 DEF Batches
    <3>3. U \subseteq EntriesOf(logs'[logfile'].records) /\ U \subseteq LeftOf(logs'[logfile'])
      BY <2>1, <2>4, <2>5
    <3> QED
      BY <2>1, <2>2, <3>1, <3>2, <3>3 DEF Group
  <2> QED
    BY <1>0, <2>7, <2>8, <2>9, DurableRunning
<1>5. CASE Insert
  <2> DEFINE U == leader.updates
             n == leader.count
  <2>1. /\ leader.pc = "insert" /\ mem' = mem \union U /\ Return(n, TRUE)
        /\ UNCHANGED <<logs, imm, logfile>>
    BY <1>5 DEF Insert, Leading, disk
  <2>2. /\ leader' = [pc |-> "room"]
        /\ acked' = acked \union {writers[i].call : i \in Batches(n)}
        /\ safe' = safe \union {writers[i].call : i \in {j \in Batches(n) : writers[j].kind = "sync"}}
    BY <2>1 DEF Return
  <2>3. /\ Calls(U) = {writers[i].call : i \in Batches(n)} /\ n \in Nat
        /\ \A i \in 2..n : writers[i].kind = "sync" => writers[1].kind = "sync"
        /\ U \subseteq EntriesOf(logs[logfile].records)
        /\ writers[1].kind = "sync" => U \subseteq LeftOf(logs[logfile])
    BY <1>b, <2>1, LeaderTyped DEF Group
  <2> HIDE DEF U, n
  <2>4. safe' \subseteq safe \union Calls(U \intersect LeftOf(logs'[logfile]))
    <3>1. CASE writers[1].kind = "sync"
      <4>1. U \intersect LeftOf(logs'[logfile]) = U
        BY <2>1, <2>3, <3>1
      <4>2. {writers[i].call : i \in {j \in Batches(n) : writers[j].kind = "sync"}}
              \subseteq {writers[i].call : i \in Batches(n)}
        OBVIOUS
      <4> QED
        BY <2>2, <2>3, <4>1, <4>2
    <3>2. CASE writers[1].kind # "sync"
      <4>1. \A j \in 1..n : writers[j].kind # "sync"
        BY <2>3, <3>2
      <4>2. {j \in Batches(n) : writers[j].kind = "sync"} = {}
        BY <4>1 DEF Batches
      <4> QED
        BY <2>2, <4>2
    <3> QED
      BY <3>1, <3>2
  <2>5. Recorded'
    <3>1. U \subseteq EntriesOf(logs'[logfile].records)
      BY <2>1, <2>3
    <3> QED
      BY <1>0, <1>a, <2>1, <2>4, <3>1, RecordedWriter
  <2>6. Running'
    <3>1. InMemory \subseteq InMemory' /\ U \subseteq InMemory'
      BY <1>0, <2>1 DEF InMemory
    <3>2. acked \subseteq Calls(InMemory') /\ Calls(U) \subseteq Calls(InMemory')
      BY <1>b, <3>1, CallsMoves
    <3>3. acked' \subseteq Calls(InMemory')
      BY <2>2, <2>3, <3>2
    <3> QED
      BY <3>3 DEF Running
  <2>7. LogsWhole' /\ Group'
    BY <1>b, <2>1, <2>2 DEF LogsWhole, Group
  <2> QED
    BY <1>0, <2>5, <2>6, <2>7, DurableRunning
<1>6. ~ AddRecordFails
  BY DEF AddRecordFails, Fault
<1> QED
  BY <1>1, <1>2, <1>3, <1>4, <1>5, <1>6 DEF Writer

-----------------------------------------------------------------------------
(* The background thread *)

LEMMA SameWriter ==
  ASSUME NEW q \in Seq(Callers), NEW i \in 1..Len(q)
  PROVE  WakeHead(q)[i].call = q[i].call /\ WakeHead(q)[i].kind = q[i].kind
<1>1. q[i] \in Callers /\ i \in DOMAIN q
  BY LenProperties, ElementOfSeq
<1>2. CASE q = << >>
  BY <1>2 DEF WakeHead
<1>3. CASE q # << >>
  <2>1. WakeHead(q) = [q EXCEPT ![1].awake = TRUE]
    BY <1>3 DEF WakeHead
  <2>2. WakeHead(q)[i] = IF i = 1 THEN [q[1] EXCEPT !.awake = TRUE] ELSE q[i]
    BY <1>1, <2>1
  <2> QED
    BY <1>1, <2>2 DEF Callers
<1> QED
  BY <1>2, <1>3

\* Waking a writer changes nothing of what a group is.
LEMMA GroupWakes ==
  ASSUME Typed, Group, UNCHANGED <<leader, logs, logfile>>, writers' \in {writers, WakeAll(writers)}
  PROVE  Group'
<1> SUFFICES ASSUME leader.pc \in {"log", "sync", "insert"} PROVE Group'
  BY DEF Group
<1>1. writers \in Seq(Callers) /\ leader.count \in 1..Len(writers) /\ Len(writers) \in Nat
  BY LeaderTyped, LenProperties DEF Typed, QueueTyped
<1>2. \A i \in 1..Len(writers) : writers'[i].call = writers[i].call /\ writers'[i].kind = writers[i].kind
  BY <1>1, SameWriter DEF WakeAll
<1>3. \A i \in 1..leader.count : i \in 1..Len(writers)
  BY <1>1
<1>4. Batches(leader.count)' = Batches(leader.count) /\ Batches(leader.count) \subseteq 1..Len(writers)
  BY <1>2, <1>3 DEF Batches
<1>5. {writers'[i].call : i \in Batches(leader.count)'} = {writers[i].call : i \in Batches(leader.count)}
  BY <1>2, <1>4
<1>6. \A i \in 2..leader.count : i \in 1..Len(writers) /\ 1 \in 1..Len(writers)
  BY <1>1
<1>7. /\ \A i \in 2..leader.count : writers'[i].kind = writers[i].kind
      /\ writers'[1].kind = writers[1].kind
  BY <1>1, <1>2, <1>6
<1> QED
  BY <1>5, <1>7 DEF Group

\* What DB::Open would find is still as good, whatever becomes of the MANIFEST.
LEMMA StuckBehind ==
  ASSUME Typed, Numbered, Durable, pc = "open", UNCHANGED <<logs, logfile, safe>>,
         InMemory' \subseteq InMemory,
         \A r \in Found' : \E s \in Found : /\ LastEdit(r) = LastEdit(s)
                                            /\ Held(tables, FilesOf(s)) \subseteq Held(tables', FilesOf(r))
  PROVE  Stuck'
<1>1. \A r \in Found : InMemory \subseteq Seen(r) /\ SafeSeen(r) /\ LastEdit(r).log <= logfile
  BY DurableSeen DEF Numbered, Numbers
<1>2. ASSUME NEW r \in Found'
      PROVE  InMemory' \subseteq Seen(r)' /\ SafeSeen(r)' /\ LastEdit(r).log <= logfile'
  <2>1. PICK s \in Found : /\ LastEdit(r) = LastEdit(s)
                           /\ Held(tables, FilesOf(s)) \subseteq Held(tables', FilesOf(r))
    BY <1>2
  <2>2. Seen(s) \subseteq Seen(r)'
    BY <2>1 DEF Seen
  <2>3. safe \subseteq Calls(Held(tables', FilesOf(r)) \union LogKeeps(logs, LastEdit(r).log))
    <3>1. safe \subseteq Calls(Held(tables, FilesOf(s)) \union LogKeeps(logs, LastEdit(s).log))
      BY <1>1 DEF SafeSeen
    <3>2. Held(tables, FilesOf(s)) \union LogKeeps(logs, LastEdit(s).log)
            \subseteq Held(tables', FilesOf(r)) \union LogKeeps(logs, LastEdit(r).log)
      BY <2>1
    <3> QED
      BY <3>1, <3>2, CallsMoves
  <2> QED
    BY <1>1, <2>1, <2>2, <2>3 DEF SafeSeen
<1> QED
  BY <1>2 DEF Stuck

\* The MANIFEST says what it said, and the tables hold what they held.
LEMMA RecordedBehind ==
  ASSUME Typed, Numbered, Durable, pc = "open", UNCHANGED <<logs, mem, imm, logfile, logNumber, safe>>,
         Records' = Records, Held(tables', version') = Held(tables, version),
         \A r \in Found' : r \in Found /\ Held(tables', FilesOf(r)) = Held(tables, FilesOf(r)),
         flush'.pc # "sync"
  PROVE  Recorded'
<1>1. CASE Whole(Records)
  <2>1. Kept
    BY <1>1 DEF Durable, Recorded
  <2>2. Kept'
    BY <2>1 DEF Kept
  <2> QED
    BY <1>1, <2>2 DEF Recorded
<1>2. CASE ~ Whole(Records)
  <2>1. InMemory' \subseteq InMemory
    BY DEF InMemory
  <2>2. Stuck'
    BY <2>1, StuckBehind
  <2> QED
    BY <1>2, <2>2 DEF Recorded
<1> QED
  BY <1>1, <1>2

\* Half a record in the MANIFEST.
LEMMA TornAfterFailure ==
  ASSUME Typed, Numbered, pc = "open", current' = current, EditFails
  PROVE  manifests' = manifests \/ ~ Whole(Records')
<1> SUFFICES ASSUME manifests' = [manifests EXCEPT ![manifest] = Wrote(manifests[manifest], Torn)]
             PROVE  ~ Whole(Records')
  BY DEF EditFails
<1>1. /\ current = manifest /\ current # 0 /\ Records \in Seq(EditRecords)
      /\ current \in DOMAIN manifests /\ manifests[current] \in FileOf(EditRecords)
  BY OpenRecords, FoundTyped DEF Typed
<1>2. Records' = Append(Records, Torn)
  <2>1. Wrote(manifests[current], Torn).records = Append(manifests[current].records, Torn)
    BY <1>1, RecoverableWrote DEF EditRecords
  <2> QED
    BY <1>1, <2>1 DEF Records
<1> DEFINE n == Len(Records) + 1
<1>3. n \in DOMAIN Append(Records, Torn) /\ Append(Records, Torn)[n] = Torn
  BY <1>1
<1> QED
  BY <1>2, <1>3 DEF Whole

\* LogAndApply appends an edit after which the tables hold at least what they held.
LEMMA RecordedEdit ==
  ASSUME Typed, Numbered, Durable, pc = "open",
         UNCHANGED <<current, tables, logs, mem, imm, logfile, logNumber, version, safe>>,
         NEW added \in SUBSET Nat, NEW deleted \in SUBSET Nat, NEW log \in Nat,
         AppendEdit(added, deleted, log),
         Held(tables, deleted) \subseteq Held(tables, added),
         log <= logNumber \/ (log <= logfile /\ UNION imm \subseteq Held(tables, added)),
         flush'.pc = "sync" => UNION imm \subseteq Held(tables, added)
  PROVE  Recorded'
<1> DEFINE edit == [added |-> added, deleted |-> deleted, log |-> log,
                    next |-> nextFile, last |-> lastSequence]
<1>1. /\ \A r \in Found' : r \in Found \/ r = Records'
      /\ Whole(Records) => /\ Whole(Records') /\ LastEdit(Records') = edit
                           /\ FilesOf(Records') = (FilesOf(Records) \ deleted) \union added
      /\ ~ Whole(Records) => ~ Whole(Records')
  BY OpenRecords, FoundAfterEdit DEF Typed
<1>2. edit.log = log
  OBVIOUS
<1> HIDE DEF edit
<1>3. CASE Whole(Records)
  <2>1. Kept /\ Records \in Found
    BY <1>3, OpenRecords DEF Durable, Recorded
  <2> DEFINE F == FilesOf(Records)
             G == F \ deleted
  <2>2. Held(tables, F) \subseteq Held(tables, G) \union Held(tables, deleted)
    <3>1. Held(tables, F) \subseteq Held(tables, G \union deleted)
      BY HeldMoves
    <3> HIDE DEF G
    <3> QED
      BY <3>1, HeldUnion
  <2>3. FilesOf(Records') = G \union added /\ LastEdit(Records').log = log
    BY <1>1, <1>2, <1>3
  <2> HIDE DEF G
  <2>4. Held(tables, FilesOf(Records')) = Held(tables, G) \union Held(tables, added)
    BY <2>3, HeldUnion
  <2> HIDE DEF F
  <2>5. Held(tables, F) \subseteq Held(tables, FilesOf(Records'))
        /\ Held(tables, added) \subseteq Held(tables, FilesOf(Records'))
    BY <2>2, <2>4
  <2>6. Held(tables, version) \subseteq Held(tables, F)
    BY <2>1 DEF Kept, F
  <2>7. ASSUME NEW r \in Found'
        PROVE  /\ Held(tables, version) \subseteq Held(tables, FilesOf(r))
               /\ \/ LastEdit(r).log <= logNumber
                  \/ LastEdit(r).log <= logfile /\ UNION imm \subseteq Held(tables, FilesOf(r))
    <3>1. CASE r \in Found
      BY <2>1, <3>1 DEF Kept
    <3>2. CASE r = Records'
      <4>1. LastEdit(r).log = log /\ FilesOf(r) = FilesOf(Records')
        BY <2>3, <3>2
      <4> QED
        BY <2>5, <2>6, <4>1
    <3> QED
      BY <1>1, <3>1, <3>2
  <2>8. flush'.pc = "sync" => UNION imm \subseteq Held(tables, FilesOf(Records'))
    BY <2>5
  <2>9. Kept'
    BY <2>1, <2>7, <2>8 DEF Kept
  <2> QED
    BY <1>1, <1>3, <2>9 DEF Recorded
<1>4. CASE ~ Whole(Records)
  <2>1. InMemory' \subseteq InMemory
    BY DEF InMemory
  <2>2. LastEdit(Records') = LastEdit(Records) /\ FilesOf(Records') = FilesOf(Records)
        /\ Records \in Found
    BY <1>4, OpenRecords, FoundAfterEdit DEF Typed
  <2>3. \A r \in Found' : \E s \in Found : /\ LastEdit(r) = LastEdit(s)
                                           /\ Held(tables, FilesOf(s)) \subseteq Held(tables', FilesOf(r))
    BY <1>1, <2>2
  <2>4. Stuck'
    BY <2>1, <2>3, StuckBehind
  <2> QED
    BY <1>1, <1>4, <2>4 DEF Recorded
<1> QED
  BY <1>3, <1>4

LEMMA DurableBackground ==
  ASSUME Typed, Typed', InUse, Numbered, Durable, ~ deleting, Background
  PROVE  Durable'
<1>0. /\ UNCHANGED <<logs, current, pc, mem, logfile, manifest, leader, acked, safe>>
      /\ pc = "open" /\ pc' = "open" /\ current' > 1 /\ current' \in Nat
  BY BackgroundFrame, OpenRecords DEF Numbered, Numbers
<1>a. /\ logNumber \in Nat /\ logfile \in Nat /\ logNumber <= logfile
      /\ current # 0 /\ flush.number \in Nat /\ compact.number \in Nat
      /\ compact.inputs \subseteq version /\ version \subseteq Nat
  BY <1>0, OpenRecords DEF Typed, MemoryTyped, BgTyped, Numbered, Numbers, Outputs
<1>b. /\ flush.pc \in {"log", "sync"} => Held(tables, FlushedFile) = UNION imm
      /\ compact.pc \in {"log", "sync"} =>
           Held(tables, {compact.number}) = Held(tables, compact.inputs)
  BY OutputsHold
<1>c. manifests' = manifests => Found' = Found /\ Records' = Records
  BY <1>0, <1>a, FoundStays
<1>d. Group' /\ LogsWhole'
  <2>1. writers' \in {writers, WakeAll(writers)}
    BY DEF Background, FlushStart, FlushBuild, FlushBuildFails, FlushLog, FlushLogFails,
       FlushInstall, CompactOutput, CompactFinish, CompactFails, CompactLog, CompactInstall,
       BackgroundError, queue
  <2> QED
    BY <1>0, <2>1, GroupWakes DEF Durable, LogsWhole
<1>e. ASSUME InMemory \subseteq InMemory', Recorded' PROVE Durable'
  <2>1. acked' \subseteq Calls(InMemory')
    BY <1>0, <1>e, CallsMoves DEF Durable, Running
  <2>2. Running'
    BY <2>1 DEF Running
  <2> QED
    BY <1>0, <1>d, <1>e, <2>2, DurableRunning
<1>f. ASSUME UNCHANGED <<imm, logNumber>>, Records' = Records, Held(tables', version') = Held(tables, version),
             \A r \in Found' : r \in Found /\ Held(tables', FilesOf(r)) = Held(tables, FilesOf(r)),
             flush'.pc # "sync"
      PROVE  Durable'
  <2>1. InMemory \subseteq InMemory'
    BY <1>0, <1>f DEF InMemory
  <2> QED
    BY <1>0, <1>e, <1>f, <2>1, RecordedBehind
<1>1. CASE FlushStart \/ FlushBuildFails
  <2>1. UNCHANGED <<tables, manifests, version, logNumber, imm>> /\ flush'.pc # "sync"
    BY <1>1 DEF FlushStart, FlushBuildFails, disk, NoFlush
  <2> QED
    BY <1>c, <1>f, <2>1
<1>2. ASSUME NEW n, NEW t, tables' = Put(tables, n, t), Fresh(n),
             UNCHANGED <<manifests, version, logNumber, imm>>, flush'.pc # "sync"
      PROVE  Durable'
  <2>1. /\ Held(tables', version) = Held(tables, version)
        /\ \A r \in Found : Held(tables', FilesOf(r)) = Held(tables, FilesOf(r))
    BY <1>2, HeldAfterPut
  <2> QED
    BY <1>c, <1>f, <1>2, <2>1
<1>3. CASE FlushBuild
  <2>1. /\ UNCHANGED <<manifests, version, logNumber, imm>> /\ Fresh(flush.number)
        /\ \/ tables' = tables
           \/ tables' = Put(tables, flush.number, TableOf(UNION imm))
    BY <1>3 DEF FlushBuild, Flushing, Numbered, Outputs
  <2>2. flush'.pc # "sync"
    <3>1. flush' = [flush EXCEPT !.pc = "log"]
      BY <1>3 DEF FlushBuild
    <3> QED
      BY <3>1 DEF Typed, BgTyped
  <2> QED
    BY <1>2, <1>c, <1>f, <2>1, <2>2
<1>4. CASE CompactOutput
  <2>1. /\ UNCHANGED <<manifests, version, logNumber, imm>> /\ flush'.pc # "sync"
        /\ tables' = Put(tables, nextFile, TableOfUnsynced({}))
    BY <1>4 DEF CompactOutput, Compacting, NoFlush
  <2>2. Fresh(nextFile)
    BY <1>0, NextFileIsFresh
  <2> QED
    BY <1>2, <2>1, <2>2
<1>5. CASE CompactFinish
  <2>1. /\ UNCHANGED <<manifests, version, logNumber, imm>> /\ Fresh(compact.number)
        /\ compact.number \in DOMAIN tables /\ flush'.pc # "sync"
        /\ tables' = [tables EXCEPT ![compact.number] = TableOf(Merged)]
    BY <1>5 DEF CompactFinish, Compacting, Numbered, Outputs, InUse, memory, Merged, NoFlush
  <2>2. tables' = Put(tables, compact.number, TableOf(Merged))
    BY <2>1 DEF Put
  <2> QED
    BY <1>2, <2>1, <2>2
<1>6. CASE FlushLog
  <2>1. /\ UNCHANGED <<tables, version, logNumber, imm>> /\ flush.pc = "log"
        /\ AppendEdit(FlushedFile, {}, logfile)
    BY <1>6 DEF FlushLog, Flushing, memory
  <2>2. FlushedFile \in SUBSET Nat /\ {} \in SUBSET Nat /\ Held(tables, {}) = {}
    BY <1>a DEF FlushedFile, Held
  <2>3. UNION imm \subseteq Held(tables, FlushedFile) /\ logfile <= logfile
    BY <1>a, <1>b, <2>1
  <2>4. Recorded'
    BY <1>0, <1>a, <2>1, <2>2, <2>3, RecordedEdit
  <2>5. InMemory' = InMemory
    BY <1>0, <2>1 DEF InMemory
  <2> QED
    BY <1>e, <2>4, <2>5
<1>7. CASE CompactLog
  <2>1. /\ UNCHANGED <<tables, version, logNumber, imm, flush>> /\ compact.pc = "log"
        /\ flush = NoFlush /\ AppendEdit({compact.number}, compact.inputs, logNumber)
    BY <1>7 DEF CompactLog, Compacting, LogOfCompaction, memory
  <2>2. {compact.number} \in SUBSET Nat /\ compact.inputs \in SUBSET Nat /\ logNumber <= logNumber
        /\ flush'.pc # "sync"
    <3>1. compact.inputs \subseteq Nat /\ {compact.number} \subseteq Nat
      BY <1>a
    <3>2. flush'.pc # "sync"
      BY <2>1 DEF NoFlush
    <3> QED
      BY <1>a, <3>1, <3>2
  <2>3. Held(tables, compact.inputs) \subseteq Held(tables, {compact.number})
    BY <1>b, <2>1
  <2>4. Recorded'
    BY <1>0, <1>a, <2>1, <2>2, <2>3, RecordedEdit
  <2>5. InMemory' = InMemory
    BY <1>0, <2>1 DEF InMemory
  <2> QED
    BY <1>e, <2>4, <2>5
<1>8. CASE FlushLogFails \/ CompactFails
  <2>1. UNCHANGED <<tables, version, logNumber, imm>> /\ (EditFails \/ manifests' = manifests)
        /\ flush'.pc # "sync"
    BY <1>8 DEF FlushLogFails, CompactFails, Compacting, NoFlush
  <2>2. CASE manifests' = manifests
    BY <1>c, <1>f, <2>1, <2>2
  <2>3. CASE EditFails /\ manifests' # manifests
    <3>1. ~ Whole(Records')
      BY <1>0, <2>3, TornAfterFailure
    <3>2. \A r \in Found' : \E s \in Found : LastEdit(r) = LastEdit(s) /\ FilesOf(r) = FilesOf(s)
      BY <1>0, <2>1, <2>3, FoundFailure
    <3>3. InMemory' = InMemory
      BY <1>0, <2>1 DEF InMemory
    <3>4. Stuck'
      BY <1>0, <2>1, <3>2, <3>3, StuckBehind
    <3> QED
      BY <1>e, <3>1, <3>3, <3>4 DEF Recorded
  <2> QED
    BY <2>1, <2>2, <2>3
<1>9. CASE FlushInstall
  <2>1. /\ tables' = tables /\ flush.pc = "sync" /\ imm' = {} /\ flush' = NoFlush
        /\ version' = version \union FlushedFile /\ logNumber' = logfile
        /\ manifests' = [manifests EXCEPT ![manifest] = Synced(manifests[manifest])]
    BY <1>9 DEF FlushInstall, Flushing
  <2>2. (\A r \in Found' : r \in Found /\ r = Records) /\ Records' = Records /\ Records \in Found
    BY <1>0, <2>1, FoundSync, OpenRecords
  <2>3. Held(tables', version') = Held(tables, version) \union UNION imm /\ UNION imm' = {}
    BY <1>b, <2>1, HeldUnion
  <2>4. InMemory' = InMemory
    BY <1>0, <2>3 DEF InMemory
  <2>5. Recorded'
    <3>1. CASE Whole(Records)
      <4>1. Kept
        BY <1>0, <3>1 DEF Durable, Recorded
      <4> DEFINE B == Held(tables, version)
                      \union ((UNION imm) \intersect LogKeeps(logs, logNumber))
                      \union (mem \intersect LeftOf(logs[logfile]))
                 C == Held(tables', version') \union (mem \intersect LeftOf(logs[logfile]))
      <4>2. safe \subseteq Calls(B) /\ B \subseteq C
        BY <2>3, <4>1 DEF Kept
      <4>3. safe \subseteq Calls(C)
        <5> HIDE DEF B, C
        <5> QED
          BY <4>2, CallsMoves
      <4>4. safe \subseteq Calls(Held(tables', version')
                      \union ((UNION imm') \intersect LogKeeps(logs, logNumber'))
                      \union (mem \intersect LeftOf(logs[logfile])))
        BY <2>3, <4>3
      <4>5. Held(tables', version') \subseteq Held(tables, FilesOf(Records))
        BY <2>1, <2>2, <2>3, <4>1 DEF Kept
      <4>6. LastEdit(Records).log <= logfile
        <5>1. LastEdit(Records).log \in Nat
          BY <2>2, FoundTyped DEF Typed, Edits
        <5> QED
          BY <1>a, <2>2, <4>1, <5>1 DEF Kept
      <4>7. mem \subseteq EntriesOf(logs[logfile].records)
        BY <4>1 DEF Kept
      <4>8. Kept'
        BY <1>0, <2>1, <2>2, <2>3, <4>4, <4>5, <4>6, <4>7 DEF Kept, NoFlush
      <4> QED
        BY <2>2, <3>1, <4>8 DEF Recorded
    <3>2. CASE ~ Whole(Records)
      <4>1. Stuck'
        BY <1>0, <2>1, <2>2, <2>4, StuckBehind
      <4> QED
        BY <2>2, <3>2, <4>1 DEF Recorded
    <3> QED
      BY <3>1, <3>2
  <2> QED
    BY <1>e, <2>4, <2>5
<1>10. CASE CompactInstall
  <2> DEFINE rest == version \ compact.inputs
  <2>1. /\ UNCHANGED <<tables, logNumber, imm, flush>> /\ compact.pc = "sync" /\ flush'.pc # "sync"
        /\ version' = rest \union {compact.number}
        /\ manifests' = [manifests EXCEPT ![manifest] = Synced(manifests[manifest])]
    BY <1>10 DEF CompactInstall, Compacting, NoFlush
  <2>2. (\A r \in Found' : r \in Found) /\ Records' = Records
    BY <1>0, <2>1, FoundSync
  <2>3. version = rest \union compact.inputs
    BY <1>a
  <2> HIDE DEF rest
  <2>4. /\ Held(tables, version) = Held(tables, rest) \union Held(tables, compact.inputs)
        /\ Held(tables, version') = Held(tables, rest) \union Held(tables, {compact.number})
    BY <2>1, <2>3, HeldUnion
  <2>5. Held(tables', version') = Held(tables, version)
    BY <1>b, <2>1, <2>4
  <2> QED
    BY <1>f, <2>1, <2>2, <2>5
<1> QED
  BY <1>1, <1>3, <1>4, <1>5, <1>6, <1>7, <1>8, <1>9, <1>10 DEF Background

-----------------------------------------------------------------------------
(* The end of the process, and the other steps *)

\* DeleteObsoleteFiles, however far it gets, leaves what the memtables and the
\* current version are made of.
LEMMA DeletionHolds ==
  ASSUME Typed, InUse, Numbered, Sound, Durable, deleting, current' = current,
         NEW l \in SUBSET ObsoleteLogs, NEW t \in SUBSET ObsoleteTables,
         NEW m \in SUBSET ObsoleteManifests, Delete(l, t, m)
  PROVE  /\ pc = "open" /\ flush = NoFlush /\ Found' = Found /\ Records' = Records
         /\ Whole(Records) /\ FilesOf(Records) = version /\ \A r \in Found : r = Records
         /\ logfile \in DOMAIN logs' /\ logs'[logfile] = logs[logfile] /\ LogsWhole'
         /\ Held(tables', version) = Held(tables, version)
         /\ LogHolds(logs, logNumber) \subseteq LogHolds(logs', logNumber)
         /\ LogKeeps(logs, logNumber) \subseteq LogKeeps(logs', logNumber)
<1>1. /\ pc = "open" /\ flush = NoFlush /\ ~ bgError
      /\ Found' = Found /\ Records' = Records
      /\ \A r \in Found : r = Records
      /\ FilesOf(Records) = version
      /\ \A n \in version : n \in DOMAIN tables /\ n \in DOMAIN tables' /\ tables'[n] = tables[n]
  BY DeletionKeeps
<1>2. /\ logfile \in DOMAIN logs /\ logfile \in Nat /\ logNumber \in Nat /\ logNumber <= logfile
      /\ Whole(Records) /\ LogsWhole /\ \A n \in DOMAIN logs : n \in Nat
  BY <1>1 DEF Typed, MemoryTyped, FilesTyped, Numbered, Numbers, Sound, UpToDate, Durable
<1> DEFINE k == logs'
<1>3. \A n \in DOMAIN logs : n >= logNumber => n \in DOMAIN k /\ k[n] = logs[n]
  BY <1>2 DEF Delete, Without, ObsoleteLogs
<1>4. \A n \in DOMAIN k : n \in DOMAIN logs /\ k[n] = logs[n]
  BY DEF Delete, Without
<1>5. logfile \in DOMAIN k /\ k[logfile] = logs[logfile]
  BY <1>2, <1>3
<1>6. LogsWhole'
  BY <1>2, <1>4 DEF LogsWhole
<1> HIDE DEF k
<1>7. LogHolds(logs, logNumber) \subseteq LogHolds(k, logNumber)
  BY <1>3 DEF LogHolds
<1>8. LogKeeps(logs, logNumber) \subseteq LogKeeps(k, logNumber)
  BY <1>3 DEF LogKeeps
<1>9. Held(tables', version) = Held(tables, version)
  <2>1. Held(tables', version) \subseteq Held(tables, version)
    BY <1>1, HeldMoves
  <2>2. Held(tables, version) \subseteq Held(tables', version)
    BY <1>1, HeldMoves
  <2> QED
    BY <2>1, <2>2
<1> QED
  BY <1>1, <1>2, <1>5, <1>6, <1>7, <1>8, <1>9 DEF k

LEMMA DurableDeletion ==
  ASSUME Typed, InUse, Numbered, Sound, Durable, DeleteObsoleteFiles
  PROVE  Durable'
<1>1. /\ UNCHANGED <<current, pc, mem, imm, logfile, version, logNumber, flush, leader, writers,
                     acked, safe>>
      /\ Delete(ObsoleteLogs, ObsoleteTables, ObsoleteManifests) /\ deleting
  BY DEF DeleteObsoleteFiles, queue, bg, callers
<1>2. /\ pc = "open" /\ flush = NoFlush /\ Found' = Found /\ Records' = Records
      /\ Whole(Records) /\ FilesOf(Records) = version /\ \A r \in Found : r = Records
      /\ logfile \in DOMAIN logs' /\ logs'[logfile] = logs[logfile] /\ LogsWhole'
      /\ Held(tables', version) = Held(tables, version)
      /\ LogHolds(logs, logNumber) \subseteq LogHolds(logs', logNumber)
      /\ LogKeeps(logs, logNumber) \subseteq LogKeeps(logs', logNumber)
  BY <1>1, DeletionHolds
<1>3. Kept
  BY <1>2 DEF Durable, Recorded
<1>4. safe' \subseteq Calls(Held(tables', version')
                      \union ((UNION imm') \intersect LogKeeps(logs', logNumber'))
                      \union (mem' \intersect LeftOf(logs'[logfile'])))
  <2> DEFINE B == Held(tables, version)
                      \union ((UNION imm) \intersect LogKeeps(logs, logNumber))
                      \union (mem \intersect LeftOf(logs[logfile]))
             C == Held(tables', version)
                      \union ((UNION imm) \intersect LogKeeps(logs', logNumber))
                      \union (mem \intersect LeftOf(logs'[logfile]))
  <2>1. safe \subseteq Calls(B) /\ B \subseteq C
    BY <1>2, <1>3 DEF Kept
  <2>2. safe \subseteq Calls(C)
    <3> HIDE DEF B, C
    <3> QED
      BY <2>1, CallsMoves
  <2> QED
    BY <1>1, <2>2
<1>5. UNION imm' \subseteq LogHolds(logs', logNumber') /\ mem' \subseteq EntriesOf(logs'[logfile'].records)
  BY <1>1, <1>2, <1>3 DEF Kept
<1>6. ASSUME NEW r \in Found'
      PROVE  /\ Held(tables', version') \subseteq Held(tables', FilesOf(r))
             /\ \/ LastEdit(r).log <= logNumber
                \/ LastEdit(r).log <= logfile /\ UNION imm \subseteq Held(tables', FilesOf(r))
  <2>1. r \in Found /\ FilesOf(r) = version /\ version' = version
    BY <1>1, <1>2
  <2>2. \/ LastEdit(r).log <= logNumber
        \/ LastEdit(r).log <= logfile /\ UNION imm \subseteq Held(tables, FilesOf(r))
    BY <1>3, <2>1 DEF Kept
  <2> QED
    BY <1>2, <2>1, <2>2
<1>7. Kept'
  BY <1>1, <1>2, <1>4, <1>5, <1>6 DEF Kept, NoFlush
<1>8. Recorded' /\ Running'
  BY <1>1, <1>2, <1>7 DEF Recorded, Durable, Running, InMemory
<1>9. Group'
  BY <1>1, <1>2 DEF Durable, Group, Batches
<1>10. pc' = "open" /\ current' > 1 /\ current' \in Nat
  BY <1>1, <1>2, OpenRecords DEF Numbered, Numbers
<1> QED
  BY <1>2, <1>8, <1>9, <1>10, DurableRunning

LEMMA DurableKill ==
  ASSUME Typed, InUse, Numbered, Sound, Durable, Kill
  PROVE  Durable'
<1>1. Forget /\ UNCHANGED <<current, acked, safe>>
  BY DEF Kill, callers
<1>2. NothingYet' /\ LogsWhole
  BY <1>1 DEF Durable, NothingYet
<1>3. CASE UNCHANGED <<logs, tables, manifests>>
  <2>1. Found' = Found /\ Records' = Records
    BY <1>1, <1>3 DEF Found, Records
  <2>2. LogsWhole'
    BY <1>2, <1>3 DEF LogsWhole
  <2>3. current' > 1 => acked' \subseteq Calls(Seen(Records)') /\ \A r \in Found' : SafeSeen(r)'
    <3> SUFFICES ASSUME current > 1
                 PROVE  acked' \subseteq Calls(Seen(Records)') /\ \A r \in Found' : SafeSeen(r)'
      BY <1>1
    <3>1. acked \subseteq Calls(Seen(Records)) /\ \A r \in Found : SafeSeen(r)
      BY DurableSeen
    <3>2. Seen(Records)' = Seen(Records)
      BY <1>3, <2>1 DEF Seen
    <3>3. \A r : SafeSeen(r) => SafeSeen(r)'
      BY <1>1, <1>3 DEF SafeSeen
    <3> QED
      BY <1>1, <2>1, <3>1, <3>2, <3>3
  <2> QED
    BY <1>1, <1>2, <2>2, <2>3, DurableForget
<1>4. ASSUME deleting, NEW l \in SUBSET ObsoleteLogs, NEW t \in SUBSET ObsoleteTables,
             NEW m \in SUBSET ObsoleteManifests, Delete(l, t, m)
      PROVE  Durable'
  <2> DEFINE k == logs'
             u == tables'
             h == LastEdit(Records).log
  <2>1. /\ pc = "open" /\ Found' = Found /\ Records' = Records
        /\ Whole(Records) /\ FilesOf(Records) = version /\ \A r \in Found : r = Records
        /\ logfile \in DOMAIN k /\ k[logfile] = logs[logfile] /\ LogsWhole'
        /\ Held(u, version) = Held(tables, version)
        /\ LogHolds(logs, logNumber) \subseteq LogHolds(k, logNumber)
        /\ LogKeeps(logs, logNumber) \subseteq LogKeeps(k, logNumber)
    BY <1>1, <1>4, DeletionHolds
  <2>2. Kept /\ acked \subseteq Calls(InMemory)
    BY <2>1 DEF Durable, Recorded, Running
  <2>3. h \in Nat /\ logNumber \in Nat /\ logNumber <= logfile /\ Records \in Found
    BY <2>1, OpenRecords, FoundTyped DEF Typed, MemoryTyped, Edits, Numbered, Numbers
  <2>4. \A n \in DOMAIN k : n \in Nat
    BY <1>4 DEF Delete, Without, Typed, FilesTyped
  <2> HIDE DEF k, u
  <2>5. /\ Held(u, version) \subseteq Held(u, FilesOf(Records))
        /\ UNION imm \subseteq LogHolds(k, logNumber)
        /\ mem \subseteq EntriesOf(k[logfile].records)
    BY <2>1, <2>2 DEF Kept
  <2>6. \/ h <= logNumber /\ logNumber <= logfile
        \/ h <= logfile /\ UNION imm \subseteq Held(u, FilesOf(Records))
    <3>1. h <= logNumber \/ (h <= logfile /\ UNION imm \subseteq Held(tables, FilesOf(Records)))
      BY <2>2, <2>3 DEF Kept
    <3> QED
      BY <2>1, <2>3, <3>1
  <2> HIDE DEF h
  <2>7. /\ mem \union (UNION imm) \union Held(u, version)
              \subseteq Held(u, FilesOf(Records)) \union LogHolds(k, h)
        /\ Held(u, version) \union ((UNION imm) \intersect LogKeeps(k, logNumber))
              \union (mem \intersect LeftOf(k[logfile]))
              \subseteq Held(u, FilesOf(Records)) \union LogKeeps(k, h)
    BY <2>1, <2>3, <2>4, <2>5, <2>6, ReadBack
  <2>8. acked \subseteq Calls(Held(u, FilesOf(Records)) \union LogHolds(k, h))
    <3>1. InMemory \subseteq Held(u, FilesOf(Records)) \union LogHolds(k, h)
      BY <2>1, <2>7 DEF InMemory
    <3> QED
      BY <2>2, <3>1, CallsMoves
  <2>9. safe \subseteq Calls(Held(u, FilesOf(Records)) \union LogKeeps(k, h))
    <3> DEFINE B == Held(tables, version)
                      \union ((UNION imm) \intersect LogKeeps(logs, logNumber))
                      \union (mem \intersect LeftOf(logs[logfile]))
               D == Held(u, FilesOf(Records)) \union LogKeeps(k, h)
    <3>1. safe \subseteq Calls(B)
      BY <2>2 DEF Kept
    <3>2. B \subseteq D
      BY <2>1, <2>7
    <3> HIDE DEF B, D
    <3>3. safe \subseteq Calls(D)
      BY <3>1, <3>2, CallsMoves
    <3> QED
      BY <3>3 DEF D
  <2>10. acked' \subseteq Calls(Seen(Records)') /\ \A r \in Found' : SafeSeen(r)'
    <3>1. Seen(Records)' = Held(u, FilesOf(Records)) \union LogHolds(k, h)
      BY <2>1 DEF Seen, u, k, h
    <3>2. SafeSeen(Records)'
      BY <1>1, <2>1, <2>9 DEF SafeSeen, u, k, h
    <3>3. ASSUME NEW r \in Found' PROVE SafeSeen(r)'
      <4>1. r = Records /\ r = Records'
        BY <2>1
      <4> QED
        BY <3>2, <4>1 DEF SafeSeen
    <3> QED
      BY <1>1, <2>8, <3>1, <3>3
  <2> QED
    BY <1>1, <1>2, <2>1, <2>10, DurableForget
<1> QED
  BY <1>3, <1>4 DEF Kill

LEMMA DurablePowerLoss ==
  ASSUME Typed, Typed', Numbered, Numbered', Sound, Durable, PowerLoss
  PROVE  Durable'
<1>1. Forget /\ UNCHANGED <<current, safe>> /\ acked' = safe
  BY DEF PowerLoss
<1>2. PICK f \in Lengths(logs) : logs' = Surviving(logs, f)
  BY DEF PowerLoss
<1>3. PICK g \in Lengths(manifests) : manifests' = Surviving(manifests, g)
  BY DEF PowerLoss
<1> DEFINE l == logs'
           t == tables'
<1>4. t = Without(tables, {n \in DOMAIN tables : ~ tables[n].synced})
  BY DEF PowerLoss
<1>5. \A r \in Found' : r \in Found /\ r = Records'
  BY <1>1, <1>3, FoundAfterPowerLoss DEF Typed
<1>6. /\ DOMAIN l = DOMAIN logs
      /\ \A n \in DOMAIN logs : /\ LeftOf(logs[n]) \subseteq EntriesOf(l[n].records)
                                /\ LeftOf(logs[n]) \subseteq LeftOf(l[n])
                                /\ Whole(logs[n].records) => Whole(l[n].records)
  BY <1>2, <1>4, HeldAfterPowerLoss DEF Typed
<1>7. LogsWhole'
  BY <1>6 DEF Durable, LogsWhole
<1>8. NothingYet'
  BY <1>1 DEF Durable, NothingYet, Typed, QueueTyped
<1>9. ASSUME NEW r \in Found PROVE Held(tables, FilesOf(r)) \subseteq Held(t, FilesOf(r))
  <2>1. \A n \in FilesOf(r) : n \in DOMAIN tables => n \in FilesOf(r) /\ n \in DOMAIN t /\ tables[n].entries = t[n].entries
    BY <1>4 DEF Sound, FoundFiles, SyncedTables, Without
  <2> HIDE DEF t
  <2> QED
    BY <2>1, HeldMoves
<1> HIDE DEF l, t
<1>10. \A k : LogKeeps(logs, k) \subseteq LogKeeps(l, k)
  BY <1>6, LogKeepsMoves
<1>11. \A k : LogKeeps(logs, k) \subseteq LogHolds(l, k)
  BY <1>6 DEF LogKeeps, LogHolds
<1>12. current' > 1 => acked' \subseteq Calls(Seen(Records)') /\ \A r \in Found' : SafeSeen(r)'
  <2> SUFFICES ASSUME current > 1
               PROVE  safe \subseteq Calls(Seen(Records)') /\ \A r \in Found' : SafeSeen(r)'
    BY <1>1
  <2>1. \A r \in Found : SafeSeen(r)
    BY DurableSeen
  <2>2. Records' \in Found'
    <3> DEFINE mf == manifests'[current']
    <3>1. mf \in FileOf(EditRecords) /\ mf.synced >= 1 /\ current' # 0
      BY <1>1 DEF Typed, FilesTyped, Numbered, Numbers
    <3> HIDE DEF mf
    <3>2. Len(mf.records) >= 1
      BY <3>1, FileProperties
    <3>3. mf.records \in Recoverable(mf)
      BY <3>1, <3>2, RecoverableRecords
    <3> QED
      BY <3>1, <3>3 DEF mf, Records, Found
  <2>3. ASSUME NEW r \in Found'
        PROVE  /\ safe \subseteq Calls(Held(t, FilesOf(r)) \union LogKeeps(l, LastEdit(r).log))
               /\ safe \subseteq Calls(Held(t, FilesOf(r)) \union LogHolds(l, LastEdit(r).log))
    <3>1. r \in Found /\ safe \subseteq Calls(Held(tables, FilesOf(r)) \union LogKeeps(logs, LastEdit(r).log))
      BY <1>5, <2>1 DEF SafeSeen
    <3>2. Held(tables, FilesOf(r)) \subseteq Held(t, FilesOf(r))
      BY <1>9, <3>1
    <3> QED
      BY <1>10, <1>11, <3>1, <3>2, CallsMoves
  <2>4. \A r \in Found' : SafeSeen(r)'
    BY <1>1, <2>3 DEF SafeSeen, t, l
  <2>5. safe \subseteq Calls(Seen(Records)')
    <3>1. safe \subseteq Calls(Held(t, FilesOf(Records')) \union LogHolds(l, LastEdit(Records').log))
      BY <2>2, <2>3
    <3> QED
      BY <3>1 DEF Seen, t, l
  <2> QED
    BY <2>4, <2>5
<1> QED
  BY <1>1, <1>7, <1>8, <1>12, DurableForget

LEMMA DurableStep ==
  ASSUME DBImplAssumption, "append" \notin Faults,
         Typed, InUse, Numbered, Sound, Durable, Typed', Numbered', [Next]_vars
  PROVE  Durable'
<1>1. CASE DeleteObsoleteFiles
  BY <1>1, DurableDeletion
<1>2. CASE Kill
  BY <1>2, DurableKill
<1>3. CASE PowerLoss
  BY <1>3, DurablePowerLoss
<1>4. CASE ~ deleting /\ Open
  BY <1>4, DurableOpen
<1>5. CASE ~ deleting /\ Writer
  BY <1>5, DurableWriter
<1>6. CASE ~ deleting /\ Background
  BY <1>6, DurableBackground
<1>7. ASSUME \/ \E kind \in CallKinds : Enqueue(kind)
             \/ \E inputs \in SUBSET version : CompactStart(inputs)
             \/ NewIterator \/ DeleteIterator \/ UNCHANGED vars
      PROVE  Durable'
  <2>1. UNCHANGED <<logs, tables, manifests, current, pc, replay, mem, imm, logfile, version,
                    logNumber, leader, flush, acked, safe>>
    BY <1>7 DEF Enqueue, CompactStart, NewIterator, DeleteIterator, vars, disk, memory, queue, bg,
       callers
  <2>2. Found' = Found /\ Records' = Records
    BY <2>1 DEF Found, Records
  <2>3. LogsWhole' /\ NothingYet'
    BY <2>1 DEF Durable, LogsWhole, NothingYet
  <2>4. AtRest'
    BY <2>1, <2>2 DEF Durable, AtRest, Seen, SafeSeen
  <2>5. Replayed'
    BY <2>1 DEF Durable, Replayed, Remaining, ToRead, Replaying, LogsFrom
  <2>6. Running'
    BY <2>1 DEF Durable, Running, InMemory
  <2>7. Recorded'
    <3>1. Kept => Kept'
      BY <2>1, <2>2 DEF Kept
    <3>2. Stuck => Stuck'
      BY <2>1, <2>2 DEF Stuck, Seen, SafeSeen, InMemory
    <3> QED
      BY <2>1, <2>2, <3>1, <3>2 DEF Durable, Recorded
  <2>8. Group'
    <3>1. CASE writers' = writers
      BY <2>1, <3>1 DEF Durable, Group, Batches
    <3>2. CASE \E kind \in CallKinds : Enqueue(kind)
      <4>1. PICK w : writers' = Append(writers, w)
        BY <3>2 DEF Enqueue
      <4>2. \A i \in 1..Len(writers) : writers'[i] = writers[i]
        BY <4>1 DEF Typed, QueueTyped
      <4> SUFFICES ASSUME leader.pc \in {"log", "sync", "insert"} PROVE Group'
        BY <2>1 DEF Group
      <4>3. leader.count \in 1..Len(writers) /\ Len(writers) \in Nat
        BY LeaderTyped, LenProperties DEF Typed, QueueTyped
      <4>4. \A i \in 1..leader.count : writers'[i] = writers[i]
        BY <4>2, <4>3
      <4>5. Batches(leader.count)' = Batches(leader.count) /\ 1 \in 1..leader.count
        BY <2>1, <4>3, <4>4 DEF Batches
      <4>6. {writers'[i].call : i \in Batches(leader.count)'} = {writers[i].call : i \in Batches(leader.count)}
        BY <4>4, <4>5 DEF Batches
      <4>7. (\A i \in 2..leader.count : writers'[i] = writers[i]) /\ writers'[1] = writers[1]
        BY <4>3, <4>4
      <4> QED
        BY <2>1, <4>6, <4>7 DEF Durable, Group
    <3> QED
      BY <1>7, <3>1, <3>2 DEF CompactStart, NewIterator, DeleteIterator, vars, queue
  <2> QED
    BY <2>3, <2>4, <2>5, <2>6, <2>7, <2>8 DEF Durable
<1> QED
  BY <1>1, <1>2, <1>3, <1>4, <1>5, <1>6, <1>7 DEF Next

-----------------------------------------------------------------------------
LEMMA AlwaysDurable ==
  ASSUME DBImplAssumption, "append" \notin Faults
  PROVE  Spec => [](Typed /\ InUse /\ Numbered /\ Sound /\ Durable)
<1>1. Init => Typed /\ InUse /\ Numbered /\ Sound /\ Durable
  BY TypedInit, InUseInit, NumberedInit, SoundInit, DurableInit
<1>2. Typed /\ InUse /\ Numbered /\ Sound /\ Durable /\ [Next]_vars
        => Typed' /\ InUse' /\ Numbered' /\ Sound' /\ Durable'
  BY TypedStep, InUseStep, NumberedStep, SoundStep, DurableStep
<1> QED
  BY <1>1, <1>2, PTL DEF Spec

\* options.h: if it is just the process that crashes, no writes will be lost
\* even if sync==false.  Wherever the process is killed - between the append of a
\* batch and its insertion, in the middle of a group commit, of a switch of
\* memtables, of a flush, of a compaction, of DeleteObsoleteFiles or of DB::Open
\* itself, after errors of the log's sync or of the MANIFEST - the tables and logs
\* that the next DB::Open reads have every call of Write that returned OK, as
\* long as no append to a log has failed half way.
THEOREM CrashesLoseNothing ==
  ASSUME "append" \notin Faults
  PROVE  Spec => []KillLosesNothing
<1>1. Typed /\ Numbered /\ Durable => KillLosesNothing
  <2> SUFFICES ASSUME Typed, Numbered, Durable, current # 0
               PROVE  acked \subseteq Calls(In(FilesOf(Records))
                        \union UNION {EntriesOf(logs[n].records) : n \in LogsFrom(LastEdit(Records).log)})
    BY DEF KillLosesNothing, Records
  <2>1. Seen(Records) = In(FilesOf(Records))
          \union UNION {EntriesOf(logs[n].records) : n \in LogsFrom(LastEdit(Records).log)}
    BY DEF Seen, In, Held, LogHolds, LogsFrom
  <2>2. CASE current > 1
    BY <2>1, <2>2, DurableSeen
  <2>3. CASE ~ (current > 1)
    <3>1. acked = {}
      BY <2>3 DEF Typed, FilesTyped, Durable, NothingYet
    <3> QED
      BY <3>1
  <2> QED
    BY <2>2, <2>3
<1> QED
  BY <1>1, AlwaysDurable, DBImplAssumption, PTL

\* options.h: a write with sync is like a write() followed by fsync().  Whatever a
\* loss of power leaves of what was not synced, whichever prefix of the MANIFEST
\* and of the logs that is, DB::Open finds every call that had asked for a sync
\* and returned OK, as long as no append to a log has failed half way.
THEOREM SyncsSurvive ==
  ASSUME "append" \notin Faults
  PROVE  Spec => []SyncedWritesSurvive
<1>1. Typed /\ Numbered /\ Sound /\ Durable => SyncedWritesSurvive
  <2> DEFINE Left(n) == EntriesOf(SubSeq(logs[n].records, 1, logs[n].synced))
  <2> SUFFICES ASSUME Typed, Numbered, Sound, Durable, current > 1,
                      NEW k \in manifests[current].synced..Len(Records),
                      NEW r, r = SubSeq(Records, 1, k)
               PROVE  safe \subseteq Calls(In(FilesOf(r) \intersect SyncedTables)
                        \union UNION {Left(n) : n \in LogsFrom(LastEdit(r).log)})
    BY DEF SyncedWritesSurvive, Records, SyncedTables
  <2>1. r \in Found
    <3>1. manifests[current].synced >= 1 /\ manifests[current].synced \in Nat /\ current # 0
      BY FoundTyped, FileProperties DEF Typed, FilesTyped, Numbered, Numbers
    <3>2. k >= 1
      BY <3>1
    <3> QED
      BY <3>1, <3>2 DEF Found, Recoverable, Records
  <2>2. safe \subseteq Calls(Held(tables, FilesOf(r)) \union LogKeeps(logs, LastEdit(r).log))
    BY <2>1, DurableSeen DEF SafeSeen
  <2>3. Held(tables, FilesOf(r)) \subseteq In(FilesOf(r) \intersect SyncedTables)
    BY <2>1 DEF Sound, FoundFiles, Held, In
  <2>4. LogKeeps(logs, LastEdit(r).log) \subseteq UNION {Left(n) : n \in LogsFrom(LastEdit(r).log)}
    BY DEF LogKeeps, LeftOf, LogsFrom
  <2> DEFINE h == LastEdit(r).log
             S == UNION {Left(n) : n \in LogsFrom(h)}
             T == In(FilesOf(r) \intersect SyncedTables)
  <2>5. Held(tables, FilesOf(r)) \union LogKeeps(logs, h) \subseteq T \union S
    BY <2>3, <2>4
  <2>6. safe \subseteq Calls(Held(tables, FilesOf(r)) \union LogKeeps(logs, h))
    BY <2>2
  <2> HIDE DEF S, T, h
  <2>7. safe \subseteq Calls(T \union S)
    BY <2>5, <2>6, CallsMoves
  <2> QED
    BY <2>7 DEF S, T, h
<1> QED
  BY <1>1, AlwaysDurable, DBImplAssumption, PTL
=============================================================================
