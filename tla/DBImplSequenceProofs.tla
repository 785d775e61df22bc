------------------------ MODULE DBImplSequenceProofs ------------------------
(***************************************************************************)
(* Proofs about the entries of logs, memtables and tables: no sequence     *)
(* number is given twice, whatever DB::Open reads them back from.          *)
(***************************************************************************)
EXTENDS DBImplProofs

-----------------------------------------------------------------------------
(* What logs and tables hold *)

\* The entries of some tables, ...
Held(t, S) == UNION {t[n].entries : n \in S \intersect DOMAIN t}

\* ... those that can be read of the logs from some number on, ...
LogHolds(l, k) == UNION {EntriesOf(l[n].records) : n \in {m \in DOMAIN l : m >= k}}

\* ... and those of them that a power loss leaves.
LeftOf(f) == EntriesOf(SubSeq(f.records, 1, f.synced))
LogKeeps(l, k) == UNION {LeftOf(l[n]) : n \in {m \in DOMAIN l : m >= k}}

LEMMA HeldWithin ==
  ASSUME NEW t, NEW S, NEW W,
         \A n \in S : n \in DOMAIN t => t[n].entries \subseteq W
  PROVE  Held(t, S) \subseteq W
BY DEF Held

LEMMA HeldMoves ==
  ASSUME NEW t, NEW S, NEW u, NEW T,
         \A n \in S : n \in DOMAIN t => n \in T /\ n \in DOMAIN u /\ t[n].entries = u[n].entries
  PROVE  Held(t, S) \subseteq Held(u, T)
BY DEF Held

LEMMA HeldUnion ==
  ASSUME NEW t, NEW S, NEW T
  PROVE  Held(t, S \union T) = Held(t, S) \union Held(t, T)
<1>1. Held(t, S \union T) \subseteq Held(t, S) \union Held(t, T)
  BY DEF Held
<1>2. Held(t, S) \subseteq Held(t, S \union T) /\ Held(t, T) \subseteq Held(t, S \union T)
  BY DEF Held
<1> QED
  BY <1>1, <1>2

LEMMA HeldOne ==
  ASSUME NEW t, NEW n \in DOMAIN t
  PROVE  Held(t, {n}) = t[n].entries
<1>1. Held(t, {n}) \subseteq t[n].entries
  BY DEF Held
<1>2. t[n].entries \subseteq Held(t, {n})
  BY DEF Held
<1> QED
  BY <1>1, <1>2

LEMMA LogHoldsMoves ==
  ASSUME NEW l, NEW j, NEW m, NEW k, NEW W,
         \A n \in DOMAIN l : n >= j =>
           \/ n \in DOMAIN m /\ n >= k
                /\ EntriesOf(l[n].records) \subseteq EntriesOf(m[n].records) \union W
           \/ EntriesOf(l[n].records) \subseteq W
  PROVE  LogHolds(l, j) \subseteq LogHolds(m, k) \union W
<1> SUFFICES ASSUME NEW e \in LogHolds(l, j) PROVE e \in LogHolds(m, k) \union W
  OBVIOUS
<1>1. PICK n \in DOMAIN l : n >= j /\ e \in EntriesOf(l[n].records)
  BY DEF LogHolds
<1>2. CASE e \in W
  BY <1>2
<1>3. CASE e \notin W
  <2>1. n \in DOMAIN m /\ n >= k /\ e \in EntriesOf(m[n].records)
    BY <1>1, <1>3
  <2> QED
    BY <2>1 DEF LogHolds
<1> QED
  BY <1>2, <1>3

LEMMA LogKeepsMoves ==
  ASSUME NEW l, NEW j, NEW m, NEW k,
         \A n \in DOMAIN l : n >= j =>
           n \in DOMAIN m /\ n >= k /\ LeftOf(l[n]) \subseteq LeftOf(m[n])
  PROVE  LogKeeps(l, j) \subseteq LogKeeps(m, k)
<1> SUFFICES ASSUME NEW e \in LogKeeps(l, j) PROVE e \in LogKeeps(m, k)
  OBVIOUS
<1>1. PICK n \in DOMAIN l : n >= j /\ e \in LeftOf(l[n])
  BY DEF LogKeeps
<1>2. n \in DOMAIN m /\ n >= k /\ e \in LeftOf(m[n])
  BY <1>1
<1> QED
  BY <1>2 DEF LogKeeps

-----------------------------------------------------------------------------
(* What can be read of a log *)

LEMMA PrefixEntries ==
  ASSUME NEW s, NEW t, NEW k \in Nat, NEW l \in Nat, k <= l,
         DOMAIN s = 1..k, DOMAIN t = 1..l, \A i \in 1..k : s[i] = t[i]
  PROVE  EntriesOf(s) \subseteq EntriesOf(t) /\ (Whole(t) => Whole(s))
<1>1. \A i \in 1..k : i \in 1..l /\ \A j \in 1..i : j \in 1..k
  OBVIOUS
<1>2. Readable(s) \subseteq Readable(t)
  BY <1>1 DEF Readable
<1>3. \A i \in Readable(s) : s[i] = t[i]
  BY DEF Readable
<1>4. EntriesOf(s) \subseteq EntriesOf(t)
  BY <1>2, <1>3 DEF EntriesOf
<1>5. Whole(t) => Whole(s)
  BY <1>1 DEF Whole
<1> QED
  BY <1>4, <1>5

LEMMA EntriesOfEmpty ==
  EntriesOf(<< >>) = {} /\ Whole(<< >>) /\ EntriesOf(NewFile.records) = {} /\ Whole(NewFile.records)
<1>1. DOMAIN << >> = {}
  OBVIOUS
<1>2. EntriesOf(<< >>) = {} /\ Whole(<< >>)
  BY <1>1 DEF EntriesOf, Readable, Whole
<1>3. NewFile.records = << >>
  BY DEF NewFile
<1> QED
  BY <1>2, <1>3

LEMMA EntriesOfWhole ==
  ASSUME NEW s, NEW k \in Nat, DOMAIN s = 1..k, Whole(s)
  PROVE  /\ Readable(s) = 1..k
         /\ \A e : e \in EntriesOf(s) <=> \E i \in 1..k : e \in s[i]
<1>1. \A i \in 1..k : \A j \in 1..i : j \in DOMAIN s
  OBVIOUS
<1>2. Readable(s) = 1..k
  BY <1>1 DEF Readable, Whole
<1> QED
  BY <1>2 DEF EntriesOf

\* A record is appended.
LEMMA WroteEntries ==
  ASSUME NEW R, NEW f \in FileOf(R), NEW x \in R
  PROVE  LET g == Wrote(f, x) IN
         /\ EntriesOf(g.records) \subseteq EntriesOf(f.records) \union x
         /\ EntriesOf(f.records) \subseteq EntriesOf(g.records)
         /\ LeftOf(f) \subseteq LeftOf(g)
         /\ Whole(f.records) /\ x # Torn => Whole(g.records) /\ x \subseteq EntriesOf(g.records)
<1> DEFINE g == Wrote(f, x)
           n == Len(f.records)
<1>1. /\ n \in Nat /\ f.synced \in Nat /\ f.synced <= n /\ DOMAIN f.records = 1..n
  BY FileProperties
<1>2. /\ g \in FileOf(R) /\ g.synced = f.synced /\ Len(g.records) = n + 1
      /\ \A i \in 1..n : g.records[i] = f.records[i]
      /\ g.records[n + 1] = x
  BY WroteFile
<1>3. DOMAIN g.records = 1..(n + 1)
  BY <1>2, FileProperties
<1> HIDE DEF g
<1>4. EntriesOf(g.records) \subseteq EntriesOf(f.records) \union x
  <2> SUFFICES ASSUME NEW i \in Readable(g.records), i # n + 1
               PROVE  i \in Readable(f.records) /\ g.records[i] = f.records[i]
    BY <1>2 DEF EntriesOf
  <2>1. i \in 1..n
    BY <1>1, <1>3 DEF Readable
  <2>2. \A j \in 1..i : j \in 1..n
    BY <1>1, <2>1
  <2> QED
    BY <1>1, <1>2, <1>3, <2>1, <2>2 DEF Readable
<1>5. EntriesOf(f.records) \subseteq EntriesOf(g.records)
  <2> DEFINE a == f.records
             b == g.records
             m == n + 1
  <2>1. /\ n \in Nat /\ m \in Nat /\ n <= m /\ DOMAIN a = 1..n /\ DOMAIN b = 1..m
        /\ \A i \in 1..n : a[i] = b[i]
    BY <1>1, <1>2, <1>3
  <2> HIDE DEF a, b, m, n
  <2> QED
    BY <2>1, PrefixEntries DEF a, b
<1>6. LeftOf(f) \subseteq LeftOf(g)
  <2> DEFINE k == f.synced
             a == SubSeq(f.records, 1, k)
             b == SubSeq(g.records, 1, k)
  <2>1. k \in f.synced..Len(f.records) /\ k \in g.synced..Len(g.records) /\ k \in Nat
    BY <1>1, <1>2
  <2>2. Len(a) = k /\ \A i \in 1..k : a[i] = f.records[i]
    BY <2>1, CutFile
  <2>3. Len(b) = k /\ \A i \in 1..k : b[i] = g.records[i]
    BY <1>2, <2>1, CutFile
  <2>4. [records |-> a, synced |-> k] \in FileOf(R) /\ [records |-> b, synced |-> k] \in FileOf(R)
    BY <1>2, <2>1, CutFile
  <2>5. LeftOf(f) = EntriesOf(a) /\ LeftOf(g) = EntriesOf(b)
    BY <1>2 DEF LeftOf
  <2>6. DOMAIN a = 1..k /\ DOMAIN b = 1..k
    BY <2>2, <2>3, <2>4 DEF FileOf
  <2> HIDE DEF a, b, k
  <2>7. \A i \in 1..k : i \in 1..n
    BY <1>1, <2>1 DEF k
  <2>8. \A i \in 1..k : a[i] = b[i]
    BY <1>2, <2>2, <2>3, <2>7
  <2>9. k <= k
    BY <2>1
  <2> QED
    BY <2>1, <2>5, <2>6, <2>8, <2>9, PrefixEntries
<1>7. ASSUME Whole(f.records), x # Torn
      PROVE  Whole(g.records) /\ x \subseteq EntriesOf(g.records)
  <2>1. Whole(g.records)
    <3>1. \A i \in 1..(n + 1) : i \in 1..n \/ i = n + 1
      BY <1>1
    <3> QED
      BY <1>1, <1>2, <1>3, <1>7, <3>1 DEF Whole
  <2>2. n + 1 \in Nat /\ n + 1 \in 1..(n + 1)
    BY <1>1
  <2> QED
    BY <1>2, <1>3, <2>1, <2>2, EntriesOfWhole
<1> QED
  BY <1>4, <1>5, <1>6, <1>7 DEF g

\* A file is synced.
LEMMA SyncedEntries ==
  ASSUME NEW R, NEW f \in FileOf(R)
  PROVE  /\ Synced(f).records = f.records
         /\ LeftOf(Synced(f)) = EntriesOf(f.records)
         /\ LeftOf(f) \subseteq EntriesOf(f.records)
<1>1. /\ Synced(f).records = f.records /\ Synced(f).synced = Len(f.records)
      /\ f.records \in Seq(R) /\ Len(f.records) \in Nat /\ f.synced \in Nat
      /\ f.synced <= Len(f.records) /\ DOMAIN f.records = 1..Len(f.records)
  BY SyncedFile, FileProperties
<1>2. SubSeq(f.records, 1, Len(f.records)) = f.records
  BY <1>1, SubSeqFull
<1>3. LeftOf(f) \subseteq EntriesOf(f.records)
  <2> DEFINE k == f.synced
             a == SubSeq(f.records, 1, k)
  <2>1. k \in f.synced..Len(f.records)
    BY <1>1
  <2>2. Len(a) = k /\ (\A i \in 1..k : a[i] = f.records[i])
        /\ [records |-> a, synced |-> k] \in FileOf(R)
    BY <2>1, CutFile
  <2>3. DOMAIN a = 1..k
    BY <2>2 DEF FileOf
  <2>4. LeftOf(f) = EntriesOf(a)
    BY DEF LeftOf
  <2> HIDE DEF a
  <2> QED
    BY <1>1, <2>2, <2>3, <2>4, PrefixEntries
<1> QED
  BY <1>1, <1>2, <1>3 DEF LeftOf

\* A power loss cuts a file.
LEMMA CutEntries ==
  ASSUME NEW R, NEW f \in FileOf(R), NEW k \in f.synced..Len(f.records), NEW g,
         g.records = SubSeq(f.records, 1, k), g.synced = k
  PROVE  /\ EntriesOf(g.records) \subseteq EntriesOf(f.records)
         /\ LeftOf(f) \subseteq EntriesOf(g.records)
         /\ LeftOf(f) \subseteq LeftOf(g)
         /\ Whole(f.records) => Whole(g.records)
<1> DEFINE a == SubSeq(f.records, 1, k)
           j == f.synced
           b == SubSeq(f.records, 1, j)
<1>1. /\ f.records \in Seq(R) /\ Len(f.records) \in Nat /\ j \in Nat /\ k \in Nat
      /\ j <= k /\ k <= Len(f.records) /\ DOMAIN f.records = 1..Len(f.records)
      /\ j \in f.synced..Len(f.records)
  BY FileProperties
<1>2. Len(a) = k /\ (\A i \in 1..k : a[i] = f.records[i])
      /\ [records |-> a, synced |-> k] \in FileOf(R)
  BY CutFile
<1>3. Len(b) = j /\ (\A i \in 1..j : b[i] = f.records[i])
      /\ [records |-> b, synced |-> j] \in FileOf(R)
  BY <1>1, CutFile
<1>4. DOMAIN a = 1..k /\ DOMAIN b = 1..j /\ a \in Seq(R)
  BY <1>2, <1>3 DEF FileOf
<1>5. LeftOf(f) = EntriesOf(b)
  BY DEF LeftOf
<1>6. g.records = a /\ g.synced = k
  OBVIOUS
<1> HIDE DEF a, b, j
<1>7. SubSeq(a, 1, k) = a
  BY <1>2, <1>4, SubSeqFull
<1>8. LeftOf(g) = EntriesOf(a)
  BY <1>6, <1>7 DEF LeftOf
<1>9. EntriesOf(a) \subseteq EntriesOf(f.records) /\ (Whole(f.records) => Whole(a))
  BY <1>1, <1>2, <1>4, PrefixEntries
<1>10. \A i \in 1..j : i \in 1..k
  BY <1>1
<1>11. EntriesOf(b) \subseteq EntriesOf(a)
  <2>1. \A i \in 1..j : b[i] = a[i]
    BY <1>2, <1>3, <1>10
  <2> QED
    BY <1>1, <1>4, <2>1, PrefixEntries
<1> QED
  BY <1>5, <1>6, <1>8, <1>9, <1>11

-----------------------------------------------------------------------------
(* No sequence number is given twice *)

\* The batches that are being written.
Updates == IF leader.pc \in {"log", "sync", "insert"} THEN leader.updates ELSE {}

\* What DB::Open reads, if it finds these records in the MANIFEST.
Seen(r) == Held(tables, FilesOf(r)) \union LogHolds(logs, LastEdit(r).log)

\* The entries that are in the database, or may come back.
World ==
  mem \union (UNION imm) \union Held(tables, version) \union Updates
    \union (UNION {Seen(r) : r \in Found})
    \union (IF pc = "open" THEN LogHolds(logs, logNumber) ELSE {})

InMemory == mem \union (UNION imm) \union Held(tables, version)

\* Two entries with the same number are one.
Distinct == \A e, f \in World : e.seq = f.seq => e = f

\* The MANIFEST has a last sequence number that its tables do not pass, and the
\* database one that nothing passes but what is being written.
LastKnown ==
  /\ \A r \in Found : \A e \in Held(tables, FilesOf(r)) : e.seq <= LastEdit(r).last
  /\ pc # "closed" => \A e \in InMemory : e.seq <= lastSequence
  /\ pc = "open" => /\ \A r \in Found : LastEdit(r).last <= lastSequence
                    /\ \A e \in World : e.seq <= lastSequence \/ e \in Updates
  /\ pc = "replay" => Records \in Found /\ replay.log >= LastEdit(Records).log

UpdatesFollow ==
  /\ \A e \in Updates : lastSequence < e.seq /\ e.seq <= lastSequence + Cardinality(Updates)
  /\ Cardinality(Updates) \in Nat

Sequenced == Distinct /\ LastKnown /\ UpdatesFollow

LEMMA WorldTyped ==
  ASSUME Typed
  PROVE  /\ World \subseteq Entries /\ \A e \in World : e.seq \in Nat
         /\ lastSequence \in Nat /\ \A r \in Found : LastEdit(r).last \in Nat
<1>1. \A S : Held(tables, S) \subseteq Entries
  BY DEF Held, Typed, FilesTyped, TableFiles
<1>2. \A k : LogHolds(logs, k) \subseteq Entries
  <2> SUFFICES ASSUME NEW n \in DOMAIN logs PROVE EntriesOf(logs[n].records) \subseteq Entries
    BY DEF LogHolds
  <2>1. /\ DOMAIN logs[n].records = 1..Len(logs[n].records)
        /\ \A i \in 1..Len(logs[n].records) : logs[n].records[i] \in LogRecords
    BY FileProperties DEF Typed, FilesTyped
  <2> QED
    BY <2>1 DEF EntriesOf, Readable, LogRecords
<1>3. mem \subseteq Entries /\ UNION imm \subseteq Entries /\ lastSequence \in Nat
  BY DEF Typed, MemoryTyped
<1>4. Updates \subseteq Entries
  BY DEF Updates, Typed, QueueTyped, Leaders, LogRecords
<1>5. UNION {Seen(r) : r \in Found} \subseteq Entries
  BY <1>1, <1>2 DEF Seen
<1>6. World \subseteq Entries
  BY <1>1, <1>2, <1>3, <1>4, <1>5 DEF World
<1>7. \A r \in Found : LastEdit(r).last \in Nat
  BY FoundTyped DEF Typed, Edits
<1> QED
  BY <1>3, <1>6, <1>7 DEF Entries

LEMMA NoUpdates ==
  ASSUME leader = [pc |-> "room"]
  PROVE  Updates = {} /\ Cardinality(Updates) = 0
<1>1. Updates = {}
  BY DEF Updates
<1> QED
  BY <1>1, FS_EmptySet

LEMMA SequencedInit == Init => Sequenced
<1> SUFFICES ASSUME Init PROVE Sequenced
  OBVIOUS
<1>1. Updates = {} /\ Cardinality(Updates) = 0 /\ Found = {} /\ pc = "closed"
      /\ mem = {} /\ UNION imm = {} /\ version = {}
  BY NoUpdates DEF Init, Found
<1>2. World = {}
  BY <1>1 DEF World, Held
<1> QED
  BY <1>1, <1>2 DEF Sequenced, Distinct, LastKnown, UpdatesFollow

\* Nothing comes back that was not there.
LEMMA SequencedForget ==
  ASSUME Sequenced, Forget,
         \A r \in Found' : /\ r \in Found
                           /\ Held(tables', FilesOf(r)) \subseteq Held(tables, FilesOf(r))
                           /\ LogHolds(logs', LastEdit(r).log) \subseteq LogHolds(logs, LastEdit(r).log)
  PROVE  Sequenced'
<1>1. pc' = "closed" /\ mem' = {} /\ UNION imm' = {} /\ version' = {}
      /\ leader' = [pc |-> "room"]
  BY DEF Forget
<1>2. Updates' = {} /\ Cardinality(Updates') = 0
  BY <1>1, FS_EmptySet DEF Updates
<1>3. UNION {Seen(r)' : r \in Found'} \subseteq UNION {Seen(r) : r \in Found}
  BY DEF Seen
<1>4. World' \subseteq World
  BY <1>1, <1>2, <1>3 DEF World, Held
<1> QED
  BY <1>1, <1>2, <1>4 DEF Sequenced, Distinct, LastKnown, UpdatesFollow

LEMMA SequencedOpening ==
  ASSUME Sequenced, pc' # "open", leader' = [pc |-> "room"], imm' = {}, Found' = Found,
         \A r \in Found : /\ Held(tables', FilesOf(r)) \subseteq Held(tables, FilesOf(r))
                          /\ LogHolds(logs', LastEdit(r).log) \subseteq LogHolds(logs, LastEdit(r).log),
         mem' \subseteq World, Held(tables', version') \subseteq World,
         pc' # "closed" => \A e \in mem' \union Held(tables', version') : e.seq <= lastSequence',
         pc' = "replay" => Records' \in Found /\ replay'.log >= LastEdit(Records').log
  PROVE  Sequenced'
<1>1. Updates' = {} /\ Cardinality(Updates') = 0
  BY FS_EmptySet DEF Updates
<1>2. UNION {Seen(r)' : r \in Found'} \subseteq UNION {Seen(r) : r \in Found}
  BY DEF Seen
<1>3. World' \subseteq World
  BY <1>1, <1>2 DEF World
<1>4. \A e \in InMemory' : e \in mem' \union Held(tables', version')
  BY DEF InMemory
<1>5. LastKnown'
  BY <1>4 DEF Sequenced, LastKnown
<1> QED
  BY <1>1, <1>3, <1>5 DEF Sequenced, Distinct, UpdatesFollow

\* Putting a table under a number that nothing has changes nothing that is held.
LEMMA HeldAfterPut ==
  ASSUME NEW n, NEW t, Fresh(n), tables' = Put(tables, n, t)
  PROVE  /\ Held(tables', version) = Held(tables, version)
         /\ \A r \in Found : Held(tables', FilesOf(r)) = Held(tables, FilesOf(r))
         /\ Held(tables', {n}) = t.entries
<1>1. DOMAIN tables' = DOMAIN tables \union {n} /\ tables'[n] = t
      /\ \A m \in DOMAIN tables : m # n => tables'[m] = tables[m]
  BY DEF Put
<1>2. ASSUME NEW S, n \notin S PROVE Held(tables', S) = Held(tables, S)
  <2>1. Held(tables', S) \subseteq Held(tables, S)
    BY <1>1, <1>2, HeldMoves
  <2>2. Held(tables, S) \subseteq Held(tables', S)
    BY <1>1, <1>2, HeldMoves
  <2> QED
    BY <2>1, <2>2
<1>3. Held(tables', {n}) = t.entries
  BY <1>1, HeldOne
<1> QED
  BY <1>2, <1>3 DEF Fresh

\* WriteLevel0Table moves entries from the memtable to the version.
LEMMA WroteLevel0 ==
  ASSUME Fresh(nextFile), NEW entries,
         \/ WriteLevel0Table(entries)
         \/ mem' = entries /\ UNCHANGED <<tables, version>>
  PROVE  /\ mem' \union Held(tables', version') \subseteq entries \union Held(tables, version)
         /\ entries \union Held(tables, version) \subseteq mem' \union Held(tables', version')
         /\ \A r \in Found : Held(tables', FilesOf(r)) = Held(tables, FilesOf(r))
<1>1. CASE WriteLevel0Table(entries)
  <2>1. /\ mem' = {} /\ version' = version \union {nextFile}
        /\ tables' = Put(tables, nextFile, TableOf(entries))
    BY <1>1 DEF WriteLevel0Table
  <2>2. TableOf(entries).entries = entries
    BY DEF TableOf
  <2>3. /\ Held(tables', version) = Held(tables, version)
        /\ \A r \in Found : Held(tables', FilesOf(r)) = Held(tables, FilesOf(r))
        /\ Held(tables', {nextFile}) = entries
    BY <2>1, <2>2, HeldAfterPut
  <2>4. Held(tables', version') = Held(tables, version) \union entries
    BY <2>1, <2>3, HeldUnion
  <2> QED
    BY <2>1, <2>3, <2>4
<1>2. CASE mem' = entries /\ UNCHANGED <<tables, version>>
  BY <1>2
<1> QED
  BY <1>1, <1>2

LEMMA LogHoldsAfterPut ==
  ASSUME NEW l, NEW n, NEW k
  PROVE  LogHolds(Put(l, n, NewFile), k) \subseteq LogHolds(l, k)
<1> DEFINE m == Put(l, n, NewFile)
<1>1. /\ DOMAIN m = DOMAIN l \union {n} /\ m[n] = NewFile
      /\ \A i \in DOMAIN l : i # n => m[i] = l[i]
  BY DEF Put
<1> HIDE DEF m
<1>2. \A i \in DOMAIN m : i >= k =>
         \/ i \in DOMAIN l /\ i >= k /\ EntriesOf(m[i].records) \subseteq EntriesOf(l[i].records) \union {}
         \/ EntriesOf(m[i].records) \subseteq {}
  BY <1>1, EntriesOfEmpty
<1>3. LogHolds(m, k) \subseteq LogHolds(l, k) \union {}
  BY <1>2, LogHoldsMoves
<1> QED
  BY <1>3 DEF m

LEMMA SequencedOpen ==
  ASSUME DBImplAssumption, Typed, Numbered, Sequenced, ~ deleting, Open
  PROVE  Sequenced'
<1>a. FilesTyped /\ lastSequence \in Nat /\ (\A e \in World : e.seq \in Nat)
  BY WorldTyped DEF Typed
<1>b. pc # "open" /\ leader = [pc |-> "room"] /\ imm = {}
  <2>1. pc # "open"
    BY DEF Open, NewDB, Recover, ReplayRecord, ReplayEnd, Replaying, OpenLog, OpenManifest,
       OpenFails, OpenInstall
  <2> QED
    BY <2>1 DEF Typed, Idle
<1>c. Updates = {}
  BY <1>b, NoUpdates
<1>d. mem \subseteq World /\ Held(tables, version) \subseteq World
      /\ \A r \in Found : Seen(r) \subseteq World
  BY DEF World
<1>1. CASE NewDB
  <2> DEFINE edit == [added |-> {}, deleted |-> {}, log |-> 0, next |-> 2, last |-> 0]
             s == <<{edit}>>
  <2>1. edit \in Edits /\ edit.added = {}
    BY DEF Edits
  <2>2. {edit} \in EditRecords
    BY <2>1 DEF EditRecords
  <2>3. /\ current' = 1 /\ manifests'[1] = [records |-> s, synced |-> 0] /\ pc = "closed"
        /\ UNCHANGED <<logs, tables, version, pc, mem, imm, leader>> /\ current = 0
    BY <1>1 DEF NewDB, Put, memory, queue
  <2> HIDE DEF edit
  <2>4. Recoverable([records |-> s, synced |-> 0]) = {s}
    BY <2>2, RecoverableOne, 0 \in {0, 1}
  <2>5. FilesOf(s) = {}
    BY <2>1, OneEdit
  <2> HIDE DEF s
  <2>6. Found' = {s}
    BY <2>3, <2>4 DEF Found
  <2>7. DOMAIN logs' = {}
    BY <2>3 DEF Numbered, Numbers
  <2>8. Seen(s)' = {} /\ Held(tables', FilesOf(s)) = {}
    BY <2>5, <2>7 DEF Seen, Held, LogHolds
  <2>9. World' \subseteq World
    <3>1. UNION {Seen(r)' : r \in Found'} = {}
      BY <2>6, <2>8
    <3>2. Updates' = Updates
      BY <2>3 DEF Updates
    <3> QED
      BY <2>3, <3>1, <3>2 DEF World
  <2>10. LastKnown'
    BY <2>3, <2>6, <2>8 DEF LastKnown
  <2>11. UpdatesFollow'
    BY <1>b, <2>3, FS_EmptySet DEF UpdatesFollow, Updates
  <2> QED
    BY <2>9, <2>10, <2>11 DEF Sequenced, Distinct
<1>2. CASE Recover
  <2>1. Records # << >> /\ current # 0
    BY <1>2 DEF Recover, Records, IsCorrupt
  <2>2. Records \in Found
    <3>1. Records \in Seq(EditRecords)
      BY <1>a, <2>1, FoundTyped
    <3>2. Len(Records) >= 1
      BY <2>1, <3>1, EmptySeq
    <3> QED
      BY <1>a, <2>1, <3>2, FoundTyped
  <2>3. /\ pc' = "replay" /\ version' = FilesOf(Records)
        /\ replay'.log = LastEdit(Records).log /\ lastSequence' = LastEdit(Records).last
        /\ UNCHANGED <<logs, tables, manifests, current, mem, imm, leader>> /\ pc = "closed"
    BY <1>2 DEF Recover, disk, Records, queue
  <2>4. Found' = Found /\ Records' = Records
    BY <2>1, <2>3, FoundStays
  <2>5. mem = {}
    BY <2>3 DEF Typed
  <2>6. Held(tables', version') \subseteq World
    BY <1>d, <2>2, <2>3 DEF Seen
  <2>7. \A e \in mem' \union Held(tables', version') : e.seq <= lastSequence'
    BY <2>2, <2>3, <2>5 DEF Sequenced, LastKnown
  <2>8. replay'.log >= LastEdit(Records').log
    <3>1. LastEdit(Records).log \in Nat
      BY <1>a, <2>2, FoundTyped DEF Edits
    <3> QED
      BY <2>3, <2>4, <3>1
  <2> QED
    BY <1>b, <1>d, <2>2, <2>3, <2>4, <2>5, <2>6, <2>7, <2>8, SequencedOpening
<1>3. ASSUME NEW n \in DOMAIN logs, ReplayRecord(n) \/ ReplayEnd(n) PROVE Sequenced'
  <2>1. /\ pc = "replay" /\ n >= replay.log /\ n \in Nat /\ replay.log \in Nat
        /\ UNCHANGED <<pc, logs, manifests, current, imm, leader>>
    BY <1>3, <1>a DEF ReplayRecord, ReplayEnd, Replaying, LogsFrom, queue, FilesTyped, Typed, MemoryTyped
  <2>2. Found' = Found /\ Records' = Records /\ current # 0
    BY <2>1, FoundStays DEF Numbered, Numbers
  <2>3. Fresh(nextFile)
    BY <2>1, NextFileIsFresh
  <2>4. Records \in Found /\ replay.log >= LastEdit(Records).log
        /\ LastEdit(Records).log \in Nat
    BY <1>a, <2>1, FoundTyped DEF Sequenced, LastKnown, Edits
  <2>5. \A e \in mem \union Held(tables, version) : e.seq <= lastSequence
    BY <2>1 DEF Sequenced, LastKnown, InMemory
  <2>6. \A e \in mem \union Held(tables, version) : e \in World /\ e.seq \in Nat
    BY <1>a, <1>d
  <2>7. CASE ReplayRecord(n)
    <3> DEFINE record == logs[n].records[replay.read + 1]
    <3>0. DOMAIN logs[n].records = 1..Len(logs[n].records)
          /\ (\A i \in 1..Len(logs[n].records) : logs[n].records[i] \in LogRecords)
      BY <1>a, FileProperties DEF FilesTyped
    <3>1. replay.read + 1 \in Readable(logs[n].records) /\ record \in LogRecords
      BY <2>7, <3>0 DEF ReplayRecord, Readable
    <3>2. /\ lastSequence' = LastOf(record) /\ replay'.log = replay.log
          /\ \/ WriteLevel0Table(mem \union record)
             \/ mem' = mem \union record /\ UNCHANGED <<tables, version>>
      BY <2>7 DEF ReplayRecord, Typed, MemoryTyped
    <3>3. record \subseteq EntriesOf(logs[n].records)
      BY <3>1 DEF EntriesOf
    <3> HIDE DEF record
    <3>4. record \subseteq World
      <4>1. n >= LastEdit(Records).log
        BY <2>1, <2>4
      <4>2. record \subseteq LogHolds(logs, LastEdit(Records).log)
        BY <3>3, <4>1 DEF LogHolds
      <4> QED
        BY <1>d, <2>4, <4>2 DEF Seen
    <3>5. /\ lastSequence' \in Nat /\ lastSequence <= lastSequence'
          /\ \A e \in record : e.seq <= lastSequence'
      BY <1>a, <3>1, <3>2, LastOfProperties
    <3>6. \A e \in (mem \union record) \union Held(tables, version) :
            e \in World /\ e.seq <= lastSequence'
      BY <1>a, <2>5, <2>6, <3>4, <3>5
    <3>7. /\ mem' \union Held(tables', version')
               \subseteq (mem \union record) \union Held(tables, version)
          /\ \A r \in Found : Held(tables', FilesOf(r)) \subseteq Held(tables, FilesOf(r))
      BY <2>3, <3>2, WroteLevel0
    <3>8. \A e \in mem' \union Held(tables', version') : e \in World /\ e.seq <= lastSequence'
      BY <3>6, <3>7
    <3> QED
      BY <1>b, <2>1, <2>2, <2>4, <3>2, <3>7, <3>8, SequencedOpening
  <2>8. CASE ReplayEnd(n)
    <3>1. /\ replay'.log = n + 1 /\ lastSequence' = lastSequence
          /\ WriteLevel0Table(mem) \/ UNCHANGED <<tables, version, mem>>
      BY <2>8 DEF ReplayEnd
    <3>2. /\ mem' \union Held(tables', version') \subseteq mem \union Held(tables, version)
          /\ \A r \in Found : Held(tables', FilesOf(r)) \subseteq Held(tables, FilesOf(r))
      BY <2>3, <3>1, WroteLevel0
    <3>3. \A e \in mem' \union Held(tables', version') : e \in World /\ e.seq <= lastSequence'
      BY <2>5, <2>6, <3>1, <3>2
    <3>4. replay'.log >= LastEdit(Records').log
      BY <2>1, <2>2, <2>4, <3>1
    <3> QED
      BY <1>b, <2>1, <2>2, <2>4, <3>2, <3>3, <3>4, SequencedOpening
  <2> QED
    BY <1>3, <2>7, <2>8
<1>4. CASE OpenLog
  <2>1. /\ pc = "replay" /\ pc' = "log"
        /\ logs' = Put(logs, nextFile, NewFile)
        /\ UNCHANGED <<tables, manifests, current, version, mem, imm, leader, lastSequence>>
    BY <1>4 DEF OpenLog, queue
  <2>2. Found' = Found
    BY <2>1, FoundStays
  <2>3. \A k : LogHolds(logs', k) \subseteq LogHolds(logs, k)
    BY <2>1, LogHoldsAfterPut
  <2>4. \A e \in mem \union Held(tables, version) : e.seq <= lastSequence
    BY <2>1 DEF Sequenced, LastKnown, InMemory
  <2> QED
    BY <1>b, <1>d, <2>1, <2>2, <2>3, <2>4, SequencedOpening
<1>5. CASE OpenManifest
  <2>1. /\ pc = "log" /\ pc' = "manifest" /\ manifest # current /\ current \in DOMAIN manifests
        /\ manifests' = Put(manifests, manifest, Synced([records |-> <<{WriteSnapshot}>>, synced |-> 0]))
        /\ UNCHANGED <<logs, tables, current, version, mem, imm, leader, lastSequence>>
    BY <1>5 DEF OpenManifest, memory, queue, Numbered, Numbers, Typed, MemoryTyped, FilesTyped
  <2>2. manifests'[current] = manifests[current]
    BY <2>1 DEF Put
  <2>3. Found' = Found
    BY <2>1, <2>2, FoundStays
  <2>4. \A e \in mem \union Held(tables, version) : e.seq <= lastSequence
    BY <2>1 DEF Sequenced, LastKnown, InMemory
  <2> QED
    BY <1>b, <1>d, <2>1, <2>3, <2>4, SequencedOpening
<1>6. CASE OpenFails
  <2>1. Forget /\ UNCHANGED <<logs, tables, manifests, current>>
    BY <1>6 DEF OpenFails, disk
  <2>2. Found' = Found
    BY <2>1, FoundStays
  <2> QED
    BY <2>1, <2>2, SequencedForget
<1>7. CASE OpenInstall
  <2> DEFINE s == <<{WriteSnapshot}>>
  <2>1. /\ pc = "manifest" /\ pc' = "open" /\ current' = manifest /\ logNumber' = logfile
        /\ UNCHANGED <<logs, tables, manifests, version, mem, imm, logfile, leader, lastSequence>>
    BY <1>7 DEF OpenInstall, queue
  <2>2. /\ manifests'[current'] = [records |-> s, synced |-> 1] /\ current' # 0
        /\ \A n \in DOMAIN logs : n \in Nat /\ n <= logfile
        /\ logfile \in Nat
    BY <2>1 DEF Numbered, Numbers, Typed, MemoryTyped, FilesTyped
  <2>3. /\ WriteSnapshot \in Edits /\ WriteSnapshot.added = version
        /\ WriteSnapshot.log = logfile /\ WriteSnapshot.last = lastSequence
    BY DEF WriteSnapshot, Edits, Typed, MemoryTyped
  <2>4. {WriteSnapshot} \in EditRecords
    BY <2>3 DEF EditRecords
  <2>5. Recoverable([records |-> s, synced |-> 1]) = {s}
    BY <2>4, RecoverableOne, 1 \in {0, 1}
  <2>6. FilesOf(s) = version /\ LastEdit(s).log = logfile /\ LastEdit(s).last = lastSequence
    BY <2>3, OneEdit
  <2> HIDE DEF s
  <2>7. Found' = {s}
    BY <2>2, <2>5 DEF Found
  <2>8. LogHolds(logs, logfile) = {}
    <3>1. /\ \A n \in DOMAIN logs : n >= logfile => n = logfile
          /\ pc = "manifest" => EntriesOf(logs[logfile].records) = {}
      BY <2>2, EntriesOfEmpty DEF Numbered, Numbers
    <3> QED
      BY <2>1, <3>1 DEF LogHolds
  <2>9. mem = {} /\ UNION imm' = {}
    BY <1>b, <2>1 DEF Typed
  <2>10. Updates' = {} /\ Cardinality(Updates') = 0
    BY <1>b, <2>1, FS_EmptySet DEF Updates
  <2>11. World' \subseteq Held(tables, version)
    <3>1. ASSUME NEW r \in Found' PROVE Seen(r)' = Held(tables, version)
      <4>1. r = s
        BY <2>7
      <4> QED
        BY <2>1, <2>6, <2>8, <4>1 DEF Seen
    <3>2. UNION {Seen(r)' : r \in Found'} \subseteq Held(tables, version)
      BY <3>1
    <3>3. LogHolds(logs', logNumber') = {} /\ Held(tables', version') = Held(tables, version)
          /\ mem' = {}
      BY <2>1, <2>8, <2>9
    <3> QED
      BY <2>9, <2>10, <3>2, <3>3 DEF World
  <2>12. \A e \in Held(tables, version) : e.seq <= lastSequence /\ e \in World
    BY <1>d, <2>1 DEF Sequenced, LastKnown, InMemory
  <2>13. LastKnown'
    BY <1>a, <2>1, <2>6, <2>7, <2>9, <2>11, <2>12 DEF LastKnown, InMemory
  <2> QED
    BY <2>10, <2>11, <2>12, <2>13 DEF Sequenced, Distinct, UpdatesFollow
<1> QED
  BY <1>1, <1>2, <1>3, <1>4, <1>5, <1>6, <1>7 DEF Open

\* A step of the open database after which there is nothing new.
LEMMA SequencedAfter ==
  ASSUME Typed, Sequenced, pc = "open", pc' = "open", UNCHANGED <<tables, version>>,
         Found' = Found, World' \subseteq World,
         \/ /\ Updates' = Updates /\ lastSequence' = lastSequence
            /\ InMemory' \subseteq InMemory
         \/ /\ Updates' = {} /\ lastSequence' = lastSequence + Cardinality(Updates)
            /\ InMemory' \subseteq World
  PROVE  Sequenced'
<1>1. /\ lastSequence \in Nat /\ Cardinality(Updates) \in Nat
      /\ \A r \in Found : LastEdit(r).last \in Nat /\ LastEdit(r).last <= lastSequence
      /\ \A e \in World : e.seq \in Nat
  BY WorldTyped DEF Sequenced, LastKnown, UpdatesFollow
<1>2. Distinct'
  BY DEF Sequenced, Distinct
<1>3. CASE Updates' = Updates /\ lastSequence' = lastSequence /\ InMemory' \subseteq InMemory
  BY <1>2, <1>3 DEF Sequenced, LastKnown, UpdatesFollow
<1>4. CASE Updates' = {} /\ lastSequence' = lastSequence + Cardinality(Updates)
             /\ InMemory' \subseteq World
  <2>1. Cardinality(Updates') = 0
    BY <1>4, FS_EmptySet
  <2>2. \A e \in World : e.seq <= lastSequence + Cardinality(Updates)
    BY <1>1 DEF Sequenced, LastKnown, UpdatesFollow
  <2>3. \A r \in Found : LastEdit(r).last <= lastSequence + Cardinality(Updates)
    BY <1>1
  <2>4. LastKnown'
    BY <1>4, <2>2, <2>3 DEF Sequenced, LastKnown
  <2>5. UpdatesFollow'
    BY <1>4, <2>1 DEF UpdatesFollow
  <2> QED
    BY <1>2, <2>4, <2>5 DEF Sequenced
<1> QED
  BY <1>3, <1>4

LEMMA WorldShrinks ==
  ASSUME UNCHANGED <<tables, version, pc, logNumber>>, Found' = Found,
         mem' \subseteq mem \union (UNION imm) \union Updates,
         UNION imm' \subseteq mem \union UNION imm,
         Updates' \subseteq Updates,
         \A k : LogHolds(logs', k) \subseteq LogHolds(logs, k) \union Updates
  PROVE  World' \subseteq World
<1>1. ASSUME NEW r \in Found PROVE Seen(r)' \subseteq Seen(r) \union Updates
  BY DEF Seen
<1>2. UNION {Seen(r)' : r \in Found'} \subseteq (UNION {Seen(r) : r \in Found}) \union Updates
  BY <1>1
<1>3. Held(tables', version') = Held(tables, version)
  OBVIOUS
<1>4. pc' = "open" => LogHolds(logs', logNumber') \subseteq LogHolds(logs, logNumber) \union Updates
  OBVIOUS
<1> QED
  BY <1>2, <1>3, <1>4 DEF World

\* A record is appended to the log.
LEMMA LogHoldsAfterWrite ==
  ASSUME FilesTyped, logfile \in DOMAIN logs, NEW x \in LogRecords, NEW k,
         logs' = [logs EXCEPT ![logfile] = Wrote(logs[logfile], x)]
  PROVE  LogHolds(logs', k) \subseteq LogHolds(logs, k) \union x
<1> DEFINE f == logs[logfile]
           g == Wrote(f, x)
<1>1. f \in FileOf(LogRecords)
  BY DEF FilesTyped
<1>2. EntriesOf(g.records) \subseteq EntriesOf(f.records) \union x
  BY <1>1, WroteEntries
<1>3. DOMAIN logs' = DOMAIN logs /\ logs'[logfile] = g
      /\ \A n \in DOMAIN logs : n # logfile => logs'[n] = logs[n]
  OBVIOUS
<1> HIDE DEF g
<1> DEFINE l == logs'
<1>4. \A n \in DOMAIN l : n >= k =>
         \/ n \in DOMAIN logs /\ n >= k
              /\ EntriesOf(l[n].records) \subseteq EntriesOf(logs[n].records) \union x
         \/ EntriesOf(l[n].records) \subseteq x
  BY <1>2, <1>3
<1> HIDE DEF l
<1>5. LogHolds(l, k) \subseteq LogHolds(logs, k) \union x
  BY <1>4, LogHoldsMoves
<1> QED
  BY <1>5 DEF l

LEMMA LogHoldsAfterSync ==
  ASSUME NEW k, logs' = [logs EXCEPT ![logfile].synced = Len(logs[logfile].records)]
  PROVE  LogHolds(logs', k) = LogHolds(logs, k)
<1>1. DOMAIN logs' = DOMAIN logs
  OBVIOUS
<1>2. \A n \in DOMAIN logs : logs'[n].records = logs[n].records
  OBVIOUS
<1> QED
  BY <1>1, <1>2 DEF LogHolds

LEMMA SequencedWriter ==
  ASSUME DBImplAssumption, Typed, Numbered, Sequenced, Writer
  PROVE  Sequenced'
<1>0. /\ UNCHANGED <<tables, manifests, current, pc, version, logNumber>>
      /\ pc = "open" /\ pc' = "open"
  BY WriterFrame
<1>a. Found' = Found
  BY <1>0, OpenRecords, FoundStays
<1>b. /\ FilesTyped /\ QueueTyped /\ lastSequence \in Nat /\ MaxCalls \in Nat
      /\ logfile \in DOMAIN logs /\ leader \in Leaders
  BY <1>0 DEF Typed, MemoryTyped, QueueTyped, Numbered, Numbers, DBImplAssumption
<1>c. Torn \in LogRecords
  BY 0 \in Nat DEF Torn, LogRecords, Bounded
<1>1. CASE RoomError \/ RoomWait \/ RoomNoLog \/ ForceDone
  <2>1. leader.pc \in {"room", "switched"} /\ leader'.pc \in {"room", "switched"}
        /\ UNCHANGED <<logs, mem, imm, lastSequence>>
    BY <1>1 DEF RoomError, RoomWait, RoomNoLog, ForceDone, Leading, Return, disk, memory
  <2>2. Updates = {} /\ Updates' = {}
    BY <2>1 DEF Updates
  <2>3. World' \subseteq World
    BY <1>0, <1>a, <2>1, <2>2, WorldShrinks
  <2>4. InMemory' = InMemory
    BY <1>0, <2>1 DEF InMemory
  <2> QED
    BY <1>0, <1>a, <2>1, <2>2, <2>3, <2>4, SequencedAfter
<1>2. CASE RoomSwitch
  <2>1. leader.pc \in {"room", "switched"} /\ leader'.pc = "switched" /\ imm = {} /\ imm' = {mem}
        /\ mem' = {} /\ logs' = Put(logs, nextFile, NewFile) /\ lastSequence' = lastSequence
    BY <1>2 DEF RoomSwitch, Leading
  <2>2. Updates = {} /\ Updates' = {}
    BY <2>1 DEF Updates
  <2>3. \A k : LogHolds(logs', k) \subseteq LogHolds(logs, k) \union Updates
    BY <2>1, LogHoldsAfterPut
  <2>4. UNION imm' = mem
    BY <2>1
  <2>5. World' \subseteq World
    BY <1>0, <1>a, <2>1, <2>2, <2>3, <2>4, WorldShrinks
  <2>6. InMemory' \subseteq InMemory
    BY <1>0, <2>1, <2>4 DEF InMemory
  <2> QED
    BY <1>0, <1>a, <2>1, <2>2, <2>5, <2>6, SequencedAfter
<1>3. CASE BuildGroup
  <2> DEFINE U == {[call |-> writers[i].call, seq |-> lastSequence + Cardinality(Batches(i))] :
                     i \in Batches(BuildBatchGroup)}
  <2>1. /\ writers # << >> /\ leader.pc \in {"room", "switched"}
        /\ leader' = [pc |-> "log", count |-> BuildBatchGroup, updates |-> U]
        /\ UNCHANGED <<logs, mem, imm, lastSequence>>
    BY <1>3 DEF BuildGroup, Leading, disk, memory
  <2>2. BuildBatchGroup \in 1..Len(writers)
    BY <1>b, <2>1, GroupProperties
  <2>3. /\ \A e \in U : lastSequence < e.seq /\ e.seq <= lastSequence + Cardinality(U)
        /\ \A e, f \in U : e.seq = f.seq => e = f
        /\ Cardinality(U) \in Nat /\ U \in LogRecords
    BY <1>b, <2>2, UpdatesProperties
  <2> HIDE DEF U
  <2>4. Updates = {} /\ Updates' = U
    BY <2>1 DEF Updates
  <2>5. World' \subseteq World \union U
    <3>1. UNION {Seen(r)' : r \in Found'} = UNION {Seen(r) : r \in Found}
      BY <1>0, <1>a, <2>1 DEF Seen
    <3>2. mem' = mem /\ imm' = imm /\ Held(tables', version') = Held(tables, version)
          /\ LogHolds(logs', logNumber') = LogHolds(logs, logNumber)
      BY <1>0, <2>1
    <3> QED
      BY <1>0, <2>4, <3>1, <3>2 DEF World
  <2>6. \A e \in World : e.seq <= lastSequence /\ e.seq \in Nat
    BY <1>0, <2>4, WorldTyped DEF Sequenced, LastKnown
  <2>7. \A e \in U : e.seq \in Nat
    BY <2>3 DEF LogRecords, Entries
  <2>8. ASSUME NEW e \in World', NEW f \in World', e.seq = f.seq PROVE e = f
    <3>1. CASE e \in U /\ f \in U
      BY <2>3, <2>8, <3>1
    <3>2. CASE e \in World /\ f \in World
      BY <2>8, <3>2 DEF Sequenced, Distinct
    <3>3. CASE (e \in World /\ f \in U) \/ (e \in U /\ f \in World)
      BY <1>b, <2>3, <2>6, <2>7, <2>8, <3>3
    <3> QED
      BY <2>5, <3>1, <3>2, <3>3
  <2>9. LastKnown'
    <3>1. InMemory' = InMemory
      BY <1>0, <2>1 DEF InMemory
    <3>2. \A e \in World' : e.seq <= lastSequence \/ e \in U
      BY <2>5, <2>6
    <3> QED
      BY <1>0, <1>a, <2>1, <2>4, <3>1, <3>2 DEF Sequenced, LastKnown
  <2>10. UpdatesFollow'
    BY <2>1, <2>3, <2>4 DEF UpdatesFollow
  <2> QED
    BY <2>8, <2>9, <2>10 DEF Sequenced, Distinct
<1>4. CASE AddRecord \/ SyncLog
  <2>1. /\ leader.pc \in {"log", "sync"} /\ leader'.pc \in {"sync", "insert"}
        /\ leader'.updates = leader.updates /\ leader.updates \in LogRecords
        /\ UNCHANGED <<mem, imm, lastSequence>>
    BY <1>4, <1>b DEF AddRecord, SyncLog, Leading, Leaders, memory
  <2>2. Updates = leader.updates /\ Updates' = leader.updates
    BY <2>1 DEF Updates
  <2>3. \A k : LogHolds(logs', k) \subseteq LogHolds(logs, k) \union Updates
    <3>1. CASE AddRecord
      <4>1. logs' = [logs EXCEPT ![logfile] = Wrote(logs[logfile], leader.updates)]
        BY <3>1 DEF AddRecord
      <4> QED
        BY <1>b, <2>1, <2>2, <4>1, LogHoldsAfterWrite
    <3>2. CASE SyncLog
      <4>1. logs' = [logs EXCEPT ![logfile].synced = Len(logs[logfile].records)]
        BY <3>2 DEF SyncLog
      <4> QED
        BY <4>1, LogHoldsAfterSync
    <3> QED
      BY <1>4, <3>1, <3>2
  <2>4. World' \subseteq World
    BY <1>0, <1>a, <2>1, <2>2, <2>3, WorldShrinks
  <2>5. InMemory' = InMemory
    BY <1>0, <2>1 DEF InMemory
  <2> QED
    BY <1>0, <1>a, <2>1, <2>2, <2>4, <2>5, SequencedAfter
<1>5. CASE AddRecordFails \/ SyncLogFails \/ Insert
  <2>1. /\ leader.pc \in {"log", "sync", "insert"} /\ leader' = [pc |-> "room"]
        /\ lastSequence' = lastSequence + Cardinality(leader.updates)
        /\ imm' = imm /\ mem' \subseteq mem \union leader.updates
    BY <1>5 DEF AddRecordFails, SyncLogFails, Insert, Leading, Return
  <2>2. Updates = leader.updates /\ Updates' = {}
    BY <2>1 DEF Updates
  <2>3. \A k : LogHolds(logs', k) \subseteq LogHolds(logs, k) \union Updates
    <3>1. CASE AddRecordFails
      <4>1. logs' = [logs EXCEPT ![logfile] = Wrote(logs[logfile], Torn)]
        BY <3>1 DEF AddRecordFails
      <4>2. \A k : LogHolds(logs', k) \subseteq LogHolds(logs, k) \union Torn
        BY <1>b, <1>c, <4>1, LogHoldsAfterWrite
      <4> QED
        BY <4>2 DEF Torn
    <3>2. CASE SyncLogFails \/ Insert
      <4>1. logs' = logs
        BY <3>2 DEF SyncLogFails, Insert, disk
      <4> QED
        BY <4>1
    <3> QED
      BY <1>5, <3>1, <3>2
  <2>4. World' \subseteq World
    BY <1>0, <1>a, <2>1, <2>2, <2>3, WorldShrinks
  <2>5. InMemory' \subseteq World
    BY <1>0, <2>1, <2>2 DEF InMemory, World
  <2> QED
    BY <1>0, <1>a, <2>1, <2>2, <2>4, <2>5, SequencedAfter
<1> QED
  BY <1>1, <1>2, <1>3, <1>4, <1>5 DEF Writer

LEMMA LogHoldsLess ==
  ASSUME NEW l, \A n \in DOMAIN l : n \in Nat, NEW j \in Nat, NEW k \in Nat, j <= k
  PROVE  LogHolds(l, k) \subseteq LogHolds(l, j)
<1>1. \A n \in DOMAIN l : n >= k => n >= j
  OBVIOUS
<1> QED
  BY <1>1 DEF LogHolds

\* What a flush or a compaction has written is what it was given.
LEMMA OutputsHold ==
  ASSUME Typed, InUse, Numbered
  PROVE  /\ flush.pc \in {"log", "sync"} => Held(tables, FlushedFile) = UNION imm
         /\ compact.pc \in {"log", "sync"} =>
              Held(tables, {compact.number}) = Held(tables, compact.inputs)
<1>1. ASSUME flush.pc \in {"log", "sync"} PROVE Held(tables, FlushedFile) = UNION imm
  <2>1. CASE UNION imm = {}
    BY <2>1 DEF FlushedFile, Held
  <2>2. CASE UNION imm # {}
    <3>1. tables[flush.number] = TableOf(UNION imm) /\ flush.number \in DOMAIN tables
      BY <1>1, <2>2 DEF Numbered, Outputs, InUse
    <3>2. Held(tables, {flush.number}) = UNION imm
      BY <3>1, HeldOne DEF TableOf
    <3> QED
      BY <2>2, <3>2 DEF FlushedFile
  <2> QED
    BY <2>1, <2>2
<1>2. ASSUME compact.pc \in {"log", "sync"}
      PROVE  Held(tables, {compact.number}) = Held(tables, compact.inputs)
  <2>1. tables[compact.number] = TableOf(Merged) /\ compact.number \in DOMAIN tables
    BY <1>2 DEF Numbered, Outputs, InUse
  <2>2. Held(tables, {compact.number}) = Merged
    BY <2>1, HeldOne DEF TableOf
  <2>3. compact.inputs \intersect DOMAIN tables = compact.inputs
    BY DEF Numbered, Outputs, InUse
  <2> QED
    BY <2>2, <2>3 DEF Merged, Held
<1> QED
  BY <1>1, <1>2

\* The background thread moves entries from one place to another.
LEMMA SequencedBehind ==
  ASSUME Typed, Numbered, Sequenced, pc = "open",
         UNCHANGED <<pc, mem, lastSequence, leader>>,
         \A k : LogHolds(logs', k) \subseteq LogHolds(logs, k),
         UNION imm' \subseteq UNION imm,
         Held(tables', version') \subseteq Held(tables, version) \union UNION imm,
         logNumber' \in Nat, logNumber <= logNumber',
         \A r \in Found' :
           \/ \E s \in Found : /\ LastEdit(r) = LastEdit(s)
                               /\ Held(tables', FilesOf(r)) \subseteq Held(tables, FilesOf(s))
           \/ /\ Held(tables', FilesOf(r)) \subseteq Held(tables, FilesOf(Records))
                    \union Held(tables, version) \union UNION imm
              /\ LastEdit(r).last = lastSequence
              /\ LastEdit(r).log \in Nat /\ logNumber <= LastEdit(r).log
  PROVE  Sequenced'
<1>1. Updates' = Updates
  BY DEF Updates
<1>2. /\ logNumber \in Nat /\ lastSequence \in Nat /\ Records \in Found
      /\ \A n \in DOMAIN logs : n \in Nat
      /\ \A e \in World : e.seq \in Nat
      /\ \A r \in Found : LastEdit(r).last \in Nat
  BY OpenRecords, WorldTyped DEF Typed, MemoryTyped, FilesTyped
<1>3. /\ mem \subseteq World /\ UNION imm \subseteq World /\ Held(tables, version) \subseteq World
      /\ Updates \subseteq World /\ LogHolds(logs, logNumber) \subseteq World
      /\ \A r \in Found : Held(tables, FilesOf(r)) \subseteq World
                            /\ LogHolds(logs, LastEdit(r).log) \subseteq World
  BY DEF World, Seen
<1>4. ASSUME NEW r \in Found' PROVE Seen(r)' \subseteq World
  <2>1. Seen(r)' \subseteq Held(tables', FilesOf(r)) \union LogHolds(logs, LastEdit(r).log)
    BY DEF Seen
  <2>2. CASE \E s \in Found : /\ LastEdit(r) = LastEdit(s)
                              /\ Held(tables', FilesOf(r)) \subseteq Held(tables, FilesOf(s))
    BY <1>3, <2>1, <2>2
  <2>3. CASE /\ Held(tables', FilesOf(r)) \subseteq Held(tables, FilesOf(Records))
                   \union Held(tables, version) \union UNION imm
             /\ LastEdit(r).log \in Nat /\ logNumber <= LastEdit(r).log
    <3>1. LogHolds(logs, LastEdit(r).log) \subseteq World
      BY <1>2, <1>3, <2>3, LogHoldsLess
    <3> QED
      BY <1>2, <1>3, <2>1, <2>3, <3>1
  <2> QED
    BY <2>2, <2>3
<1>5. LogHolds(logs', logNumber') \subseteq World
  BY <1>2, <1>3, LogHoldsLess
<1>6. UNION {Seen(r)' : r \in Found'} \subseteq World
  BY <1>4
<1>7. World' \subseteq World
  <2>1. mem' \subseteq World /\ UNION imm' \subseteq World /\ Held(tables', version') \subseteq World
    BY <1>3
  <2> QED
    BY <1>1, <1>3, <1>5, <1>6, <2>1 DEF World
<1>8. InMemory' \subseteq InMemory
  BY DEF InMemory
<1>9. ASSUME NEW r \in Found'
      PROVE  /\ LastEdit(r).last <= lastSequence
             /\ \A e \in Held(tables', FilesOf(r)) : e.seq <= LastEdit(r).last
  <2>1. CASE \E s \in Found : /\ LastEdit(r) = LastEdit(s)
                              /\ Held(tables', FilesOf(r)) \subseteq Held(tables, FilesOf(s))
    BY <2>1 DEF Sequenced, LastKnown
  <2>2. CASE /\ Held(tables', FilesOf(r)) \subseteq Held(tables, FilesOf(Records))
                   \union Held(tables, version) \union UNION imm
             /\ LastEdit(r).last = lastSequence
    <3>1. ASSUME NEW e \in Held(tables, FilesOf(Records)) PROVE e.seq <= lastSequence
      <4>1. e.seq <= LastEdit(Records).last /\ LastEdit(Records).last <= lastSequence
        BY <1>2, <3>1 DEF Sequenced, LastKnown
      <4>2. e.seq \in Nat /\ LastEdit(Records).last \in Nat
        BY <1>2, <1>3, <3>1
      <4> QED
        BY <1>2, <4>1, <4>2
    <3>2. \A e \in Held(tables, version) \union UNION imm : e.seq <= lastSequence
      BY DEF Sequenced, LastKnown, InMemory
    <3> QED
      BY <1>2, <2>2, <3>1, <3>2
  <2> QED
    BY <2>1, <2>2
<1>10. LastKnown'
  BY <1>1, <1>7, <1>8, <1>9 DEF Sequenced, LastKnown
<1> QED
  BY <1>1, <1>7, <1>10 DEF Sequenced, Distinct, UpdatesFollow

\* LogAndApply appends an edit.
LEMMA FoundEdit ==
  ASSUME Typed, Numbered, pc = "open", UNCHANGED <<current, tables>>,
         NEW added \in SUBSET Nat, NEW deleted \in SUBSET Nat, NEW log \in Nat,
         AppendEdit(added, deleted, log)
  PROVE  \A r \in Found' :
           \/ \E s \in Found : /\ LastEdit(r) = LastEdit(s) /\ FilesOf(r) = FilesOf(s)
           \/ /\ FilesOf(r) = (FilesOf(Records) \ deleted) \union added
              /\ LastEdit(r).last = lastSequence /\ LastEdit(r).log = log
<1> DEFINE edit == [added |-> added, deleted |-> deleted, log |-> log,
                    next |-> nextFile, last |-> lastSequence]
<1>1. current = manifest /\ current # 0 /\ Records \in Found
  BY OpenRecords
<1>2. edit.last = lastSequence /\ edit.log = log
  OBVIOUS
<1>3. /\ \A r \in Found' : r \in Found \/ r = Records'
      /\ Whole(Records) => /\ LastEdit(Records') = edit
                           /\ FilesOf(Records') = (FilesOf(Records) \ deleted) \union added
      /\ ~ Whole(Records) => /\ LastEdit(Records') = LastEdit(Records)
                             /\ FilesOf(Records') = FilesOf(Records)
  BY <1>1, FoundAfterEdit DEF Typed
<1> HIDE DEF edit
<1> QED
  BY <1>1, <1>2, <1>3

LEMMA FoundSync ==
  ASSUME Typed, Numbered, pc = "open", current' = current,
         manifests' = [manifests EXCEPT ![manifest] = Synced(manifests[manifest])]
  PROVE  /\ \A r \in Found' : r \in Found /\ r = Records
         /\ Records' = Records /\ Records' \in Found'
<1>1. current = manifest /\ current # 0 /\ Records \in Found /\ Len(Records) >= 1
  BY OpenRecords
<1>2. (\A r \in Found' : r = Records) /\ Records' = Records
  BY <1>1, FoundAfterSync DEF Typed
<1>3. Records \in Found'
  <2>1. Records \in Recoverable(Synced(manifests[current]))
    <3>1. manifests[current] \in FileOf(EditRecords)
      BY <1>1, FoundTyped DEF Typed
    <3>2. Synced(manifests[current]) \in FileOf(EditRecords)
          /\ Synced(manifests[current]).records = Records
      BY <3>1, SyncedFile DEF Records
    <3> QED
      BY <1>1, <3>2, RecoverableRecords
  <2>2. manifests'[current] = Synced(manifests[current])
    BY <1>1, FoundTyped DEF Typed
  <2> QED
    BY <1>1, <2>1, <2>2 DEF Found
<1> QED
  BY <1>1, <1>2, <1>3

LEMMA FoundFailure ==
  ASSUME Typed, Numbered, pc = "open", UNCHANGED <<current, tables>>, EditFails
  PROVE  \A r \in Found' :
           \E s \in Found : LastEdit(r) = LastEdit(s) /\ FilesOf(r) = FilesOf(s)
<1>1. current = manifest /\ current # 0 /\ Records \in Found
  BY OpenRecords
<1> QED
  BY <1>1, FoundAfterFailure DEF Typed

LEMMA SequencedBackground ==
  ASSUME Typed, InUse, Numbered, Sequenced, ~ deleting, Background
  PROVE  Sequenced'
<1>0. /\ UNCHANGED <<logs, current, pc, mem, logfile, lastSequence, manifest, leader>>
      /\ pc = "open"
  BY BackgroundFrame
<1>a. /\ logNumber \in Nat /\ logfile \in Nat /\ logNumber <= logfile /\ logNumber <= logNumber
      /\ current # 0 /\ flush.number \in Nat /\ compact.number \in Nat
      /\ compact.inputs \subseteq version /\ version \subseteq Nat
  BY <1>0, OpenRecords DEF Typed, MemoryTyped, BgTyped, Numbered, Numbers, Outputs
<1>b. /\ flush.pc \in {"log", "sync"} => Held(tables, FlushedFile) = UNION imm
      /\ compact.pc \in {"log", "sync"} =>
           Held(tables, {compact.number}) = Held(tables, compact.inputs)
  BY OutputsHold
<1>c. Held(tables, compact.inputs) \subseteq Held(tables, version)
  BY <1>a, HeldMoves
<1>d. manifests' = manifests => Found' = Found
  BY <1>0, <1>a, FoundStays
<1>1. CASE FlushStart \/ FlushBuildFails
  <2>1. UNCHANGED <<tables, manifests, version, logNumber, imm>>
    BY <1>1 DEF FlushStart, FlushBuildFails, disk
  <2>2. \A r \in Found' : \E s \in Found : /\ LastEdit(r) = LastEdit(s)
                               /\ Held(tables', FilesOf(r)) \subseteq Held(tables, FilesOf(s))
    BY <1>d, <2>1
  <2> QED
    BY <1>0, <1>a, <2>1, <2>2, SequencedBehind
<1>2. ASSUME NEW n, NEW t, tables' = Put(tables, n, t), Fresh(n),
             UNCHANGED <<manifests, version, logNumber, imm>>
      PROVE  Sequenced'
  <2>1. /\ Held(tables', version) = Held(tables, version)
        /\ \A r \in Found : Held(tables', FilesOf(r)) = Held(tables, FilesOf(r))
    BY <1>2, HeldAfterPut
  <2>2. \A r \in Found' : \E s \in Found : /\ LastEdit(r) = LastEdit(s)
                               /\ Held(tables', FilesOf(r)) \subseteq Held(tables, FilesOf(s))
    BY <1>d, <1>2, <2>1
  <2> QED
    BY <1>0, <1>a, <1>2, <2>1, <2>2, SequencedBehind
<1>3. CASE FlushBuild
  <2>1. /\ UNCHANGED <<manifests, version, logNumber, imm>> /\ Fresh(flush.number)
        /\ \/ tables' = tables
           \/ tables' = Put(tables, flush.number, TableOf(UNION imm))
    BY <1>3 DEF FlushBuild, Flushing, Numbered, Outputs
  <2>2. CASE tables' = tables
    <3>1. \A r \in Found' : \E s \in Found : /\ LastEdit(r) = LastEdit(s)
                               /\ Held(tables', FilesOf(r)) \subseteq Held(tables, FilesOf(s))
      BY <1>d, <2>1, <2>2
    <3> QED
      BY <1>0, <1>a, <2>1, <2>2, <3>1, SequencedBehind
  <2> QED
    BY <1>2, <2>1, <2>2
<1>4. CASE CompactOutput
  <2>1. /\ UNCHANGED <<manifests, version, logNumber, imm>>
        /\ tables' = Put(tables, nextFile, TableOfUnsynced({}))
    BY <1>4 DEF CompactOutput
  <2>2. Fresh(nextFile)
    BY <1>0, NextFileIsFresh
  <2> QED
    BY <1>2, <2>1, <2>2
<1>5. CASE CompactFinish
  <2>1. /\ UNCHANGED <<manifests, version, logNumber, imm>> /\ Fresh(compact.number)
        /\ compact.number \in DOMAIN tables
        /\ tables' = [tables EXCEPT ![compact.number] = TableOf(Merged)]
    BY <1>5 DEF CompactFinish, Compacting, Numbered, Outputs, InUse, memory, Merged
  <2>2. tables' = Put(tables, compact.number, TableOf(Merged))
    BY <2>1 DEF Put
  <2> QED
    BY <1>2, <2>1, <2>2
<1>6. CASE FlushLog
  <2>1. /\ UNCHANGED <<tables, version, logNumber, imm>> /\ flush.pc = "log"
        /\ AppendEdit(FlushedFile, {}, logfile)
    BY <1>6 DEF FlushLog, Flushing, memory
  <2>2. FlushedFile \in SUBSET Nat /\ {} \in SUBSET Nat
    BY <1>a DEF FlushedFile
  <2>3. \A r \in Found' :
           \/ \E s \in Found : /\ LastEdit(r) = LastEdit(s) /\ FilesOf(r) = FilesOf(s)
           \/ /\ FilesOf(r) = (FilesOf(Records) \ {}) \union FlushedFile
              /\ LastEdit(r).last = lastSequence /\ LastEdit(r).log = logfile
    BY <1>0, <1>a, <2>1, <2>2, FoundEdit
  <2>4. Held(tables, FilesOf(Records) \union FlushedFile)
          = Held(tables, FilesOf(Records)) \union UNION imm
    BY <1>b, <2>1, HeldUnion
  <2>5. \A r \in Found' :
           \/ \E s \in Found : /\ LastEdit(r) = LastEdit(s)
                               /\ Held(tables', FilesOf(r)) \subseteq Held(tables, FilesOf(s))
           \/ /\ Held(tables', FilesOf(r)) \subseteq Held(tables, FilesOf(Records))
                    \union Held(tables, version) \union UNION imm
              /\ LastEdit(r).last = lastSequence
              /\ LastEdit(r).log \in Nat /\ logNumber <= LastEdit(r).log
    <3> SUFFICES ASSUME NEW r \in Found',
                        /\ FilesOf(r) = (FilesOf(Records) \ {}) \union FlushedFile
                        /\ LastEdit(r).last = lastSequence /\ LastEdit(r).log = logfile
                 PROVE  /\ Held(tables', FilesOf(r)) \subseteq Held(tables, FilesOf(Records))
                             \union Held(tables, version) \union UNION imm
                        /\ LastEdit(r).last = lastSequence
                        /\ LastEdit(r).log \in Nat /\ logNumber <= LastEdit(r).log
      BY <2>1, <2>3
    <3>1. FilesOf(r) = FilesOf(Records) \union FlushedFile
      OBVIOUS
    <3> QED
      BY <1>a, <2>1, <2>4, <3>1
  <2> QED
    BY <1>0, <1>a, <2>1, <2>5, SequencedBehind
<1>7. CASE CompactLog
  <2>1. /\ UNCHANGED <<tables, version, logNumber, imm>> /\ compact.pc = "log"
        /\ AppendEdit({compact.number}, compact.inputs, logNumber)
    BY <1>7 DEF CompactLog, Compacting, LogOfCompaction, memory
  <2>2. {compact.number} \in SUBSET Nat /\ compact.inputs \in SUBSET Nat
    BY <1>a
  <2> DEFINE rest == FilesOf(Records) \ compact.inputs
  <2>3. \A r \in Found' :
           \/ \E s \in Found : /\ LastEdit(r) = LastEdit(s) /\ FilesOf(r) = FilesOf(s)
           \/ /\ FilesOf(r) = rest \union {compact.number}
              /\ LastEdit(r).last = lastSequence /\ LastEdit(r).log = logNumber
    BY <1>0, <1>a, <2>1, <2>2, FoundEdit
  <2>4. Held(tables, rest) \subseteq Held(tables, FilesOf(Records))
    BY HeldMoves
  <2> HIDE DEF rest
  <2>5. Held(tables, rest \union {compact.number})
          = Held(tables, rest) \union Held(tables, compact.inputs)
    BY <1>b, <2>1, HeldUnion
  <2>6. \A r \in Found' :
           \/ \E s \in Found : /\ LastEdit(r) = LastEdit(s)
                               /\ Held(tables', FilesOf(r)) \subseteq Held(tables, FilesOf(s))
           \/ /\ Held(tables', FilesOf(r)) \subseteq Held(tables, FilesOf(Records))
                    \union Held(tables, version) \union UNION imm
              /\ LastEdit(r).last = lastSequence
              /\ LastEdit(r).log \in Nat /\ logNumber <= LastEdit(r).log
    <3> SUFFICES ASSUME NEW r \in Found',
                        /\ FilesOf(r) = rest \union {compact.number}
                        /\ LastEdit(r).last = lastSequence /\ LastEdit(r).log = logNumber
                 PROVE  /\ Held(tables', FilesOf(r)) \subseteq Held(tables, FilesOf(Records))
                             \union Held(tables, version) \union UNION imm
                        /\ LastEdit(r).last = lastSequence
                        /\ LastEdit(r).log \in Nat /\ logNumber <= LastEdit(r).log
      BY <2>1, <2>3
    <3> QED
      BY <1>a, <1>c, <2>1, <2>4, <2>5
  <2> QED
    BY <1>0, <1>a, <2>1, <2>6, SequencedBehind
<1>8. CASE FlushLogFails \/ CompactFails
  <2>1. UNCHANGED <<tables, version, logNumber, imm>> /\ (EditFails \/ manifests' = manifests)
    BY <1>8 DEF FlushLogFails, CompactFails
  <2>2. \A r \in Found' : \E s \in Found : LastEdit(r) = LastEdit(s) /\ FilesOf(r) = FilesOf(s)
    BY <1>0, <1>d, <2>1, FoundFailure
  <2>3. \A r \in Found' : \E s \in Found : /\ LastEdit(r) = LastEdit(s)
                               /\ Held(tables', FilesOf(r)) \subseteq Held(tables, FilesOf(s))
    BY <2>1, <2>2
  <2> QED
    BY <1>0, <1>a, <2>1, <2>3, SequencedBehind
<1>9. CASE FlushInstall
  <2>1. /\ tables' = tables /\ flush.pc = "sync" /\ imm' = {}
        /\ version' = version \union FlushedFile /\ logNumber' = logfile
        /\ manifests' = [manifests EXCEPT ![manifest] = Synced(manifests[manifest])]
    BY <1>9 DEF FlushInstall, Flushing
  <2>2. \A r \in Found' : r \in Found
    BY <1>0, <2>1, FoundSync
  <2>3. Held(tables', version') \subseteq Held(tables, version) \union UNION imm
    BY <1>b, <2>1, HeldUnion
  <2>4. UNION imm' \subseteq UNION imm
    BY <2>1
  <2>5. \A r \in Found' : \E s \in Found : /\ LastEdit(r) = LastEdit(s)
                               /\ Held(tables', FilesOf(r)) \subseteq Held(tables, FilesOf(s))
    BY <2>1, <2>2
  <2> QED
    BY <1>0, <1>a, <2>1, <2>3, <2>4, <2>5, SequencedBehind
<1>10. CASE CompactInstall
  <2> DEFINE rest == version \ compact.inputs
  <2>1. /\ UNCHANGED <<tables, logNumber, imm>> /\ compact.pc = "sync"
        /\ version' = rest \union {compact.number}
        /\ manifests' = [manifests EXCEPT ![manifest] = Synced(manifests[manifest])]
    BY <1>10 DEF CompactInstall, Compacting
  <2>2. \A r \in Found' : r \in Found
    BY <1>0, <2>1, FoundSync
  <2>3. Held(tables, rest) \subseteq Held(tables, version)
    BY HeldMoves
  <2> HIDE DEF rest
  <2>4. Held(tables', version') \subseteq Held(tables, version) \union UNION imm
    BY <1>b, <1>c, <2>1, <2>3, HeldUnion
  <2>5. \A r \in Found' : \E s \in Found : /\ LastEdit(r) = LastEdit(s)
                               /\ Held(tables', FilesOf(r)) \subseteq Held(tables, FilesOf(s))
    BY <2>1, <2>2
  <2> QED
    BY <1>0, <1>a, <2>1, <2>4, <2>5, SequencedBehind
<1> QED
  BY <1>1, <1>3, <1>4, <1>5, <1>6, <1>7, <1>8, <1>9, <1>10 DEF Background

\* Deleting files adds nothing.
LEMMA HeldAfterDelete ==
  ASSUME NEW l, NEW t, NEW m, Delete(l, t, m)
  PROVE  /\ \A S : Held(tables', S) \subseteq Held(tables, S)
         /\ \A k : LogHolds(logs', k) \subseteq LogHolds(logs, k)
<1>1. /\ DOMAIN tables' = DOMAIN tables \ t /\ DOMAIN logs' = DOMAIN logs \ l
      /\ \A n \in DOMAIN tables' : tables'[n] = tables[n]
      /\ \A n \in DOMAIN logs' : logs'[n] = logs[n]
  BY DEF Delete, Without
<1> QED
  BY <1>1 DEF Held, LogHolds

\* Nor does a power loss.
LEMMA HeldAfterPowerLoss ==
  ASSUME FilesTyped, NEW f \in Lengths(logs), logs' = Surviving(logs, f),
         tables' = Without(tables, {n \in DOMAIN tables : ~ tables[n].synced})
  PROVE  /\ \A S : Held(tables', S) \subseteq Held(tables, S)
         /\ \A k : LogHolds(logs', k) \subseteq LogHolds(logs, k)
         /\ DOMAIN logs' = DOMAIN logs
         /\ \A n \in DOMAIN logs : /\ EntriesOf(logs'[n].records) \subseteq EntriesOf(logs[n].records)
                                   /\ LeftOf(logs[n]) \subseteq EntriesOf(logs'[n].records)
                                   /\ LeftOf(logs[n]) \subseteq LeftOf(logs'[n])
                                   /\ Whole(logs[n].records) => Whole(logs'[n].records)
<1>1. \A S : Held(tables', S) \subseteq Held(tables, S)
  BY DEF Held, Without
<1>2. DOMAIN logs' = DOMAIN logs
  BY DEF Surviving
<1>3. ASSUME NEW n \in DOMAIN logs
      PROVE  /\ EntriesOf(logs'[n].records) \subseteq EntriesOf(logs[n].records)
             /\ LeftOf(logs[n]) \subseteq EntriesOf(logs'[n].records)
             /\ LeftOf(logs[n]) \subseteq LeftOf(logs'[n])
             /\ Whole(logs[n].records) => Whole(logs'[n].records)
  <2> DEFINE k == f[n]
             h == logs[n]
             g == logs'[n]
  <2>1. h \in FileOf(LogRecords)
    BY DEF FilesTyped
  <2>2. k \in h.synced..Len(h.records)
    BY DEF Lengths
  <2>3. g.records = SubSeq(h.records, 1, k) /\ g.synced = k
    BY DEF Surviving
  <2> HIDE DEF g, h, k
  <2>4. /\ EntriesOf(g.records) \subseteq EntriesOf(h.records)
        /\ LeftOf(h) \subseteq EntriesOf(g.records)
        /\ LeftOf(h) \subseteq LeftOf(g)
        /\ Whole(h.records) => Whole(g.records)
    BY <2>1, <2>2, <2>3, CutEntries
  <2> QED
    BY <2>4 DEF g, h
<1>4. \A k : LogHolds(logs', k) \subseteq LogHolds(logs, k)
  BY <1>2, <1>3 DEF LogHolds
<1> QED
  BY <1>1, <1>2, <1>3, <1>4

LEMMA SequencedStep ==
  ASSUME DBImplAssumption, Typed, InUse, Numbered, Sound, Sequenced, [Next]_vars
  PROVE  Sequenced'
<1>1. CASE DeleteObsoleteFiles
  <2>1. /\ UNCHANGED <<current, pc, mem, imm, lastSequence, version, logNumber, leader>>
        /\ Delete(ObsoleteLogs, ObsoleteTables, ObsoleteManifests) /\ deleting
    BY <1>1 DEF DeleteObsoleteFiles, queue
  <2>2. pc = "open" /\ Found' = Found
    BY <2>1, DeletionKeeps
  <2>3. /\ \A S : Held(tables', S) \subseteq Held(tables, S)
        /\ \A k : LogHolds(logs', k) \subseteq LogHolds(logs, k)
    BY <2>1, HeldAfterDelete
  <2>4. logNumber' \in Nat /\ logNumber <= logNumber'
    BY <2>1 DEF Typed, MemoryTyped
  <2>5. Held(tables', version') \subseteq Held(tables, version) \union UNION imm
    BY <2>1, <2>3
  <2>6. \A r \in Found' : \E s \in Found : /\ LastEdit(r) = LastEdit(s)
                               /\ Held(tables', FilesOf(r)) \subseteq Held(tables, FilesOf(s))
    BY <2>2, <2>3
  <2> QED
    BY <2>1, <2>2, <2>3, <2>4, <2>5, <2>6, SequencedBehind
<1>2. CASE Kill
  <2>1. Forget /\ current' = current
    BY <1>2 DEF Kill
  <2>2. CASE UNCHANGED <<logs, tables, manifests>>
    <3>1. Found' = Found
      BY <2>1, <2>2, FoundStays
    <3> QED
      BY <2>1, <2>2, <3>1, SequencedForget
  <2>3. ASSUME deleting, NEW l, NEW t \in SUBSET ObsoleteTables,
               NEW m \in SUBSET ObsoleteManifests, Delete(l, t, m)
        PROVE  Sequenced'
    <3>1. Found' = Found
      BY <2>1, <2>3, DeletionKeeps
    <3>2. /\ \A S : Held(tables', S) \subseteq Held(tables, S)
          /\ \A k : LogHolds(logs', k) \subseteq LogHolds(logs, k)
      BY <2>3, HeldAfterDelete
    <3> QED
      BY <2>1, <3>1, <3>2, SequencedForget
  <2> QED
    BY <1>2, <2>2, <2>3 DEF Kill
<1>3. CASE PowerLoss
  <2>1. Forget /\ current' = current
    BY <1>3 DEF PowerLoss
  <2>2. PICK g \in Lengths(manifests) : manifests' = Surviving(manifests, g)
    BY <1>3 DEF PowerLoss
  <2>3. \A r \in Found' : r \in Found
    BY <2>1, <2>2, FoundAfterPowerLoss DEF Typed
  <2>4. /\ \A S : Held(tables', S) \subseteq Held(tables, S)
        /\ \A k : LogHolds(logs', k) \subseteq LogHolds(logs, k)
    BY <1>3, HeldAfterPowerLoss DEF PowerLoss, Typed
  <2> QED
    BY <2>1, <2>3, <2>4, SequencedForget
<1>4. CASE ~ deleting /\ Open
  BY <1>4, SequencedOpen
<1>5. CASE ~ deleting /\ Writer
  BY <1>5, SequencedWriter
<1>6. CASE ~ deleting /\ Background
  BY <1>6, SequencedBackground
<1>7. ASSUME \/ \E kind \in CallKinds : Enqueue(kind)
             \/ \E inputs \in SUBSET version : CompactStart(inputs)
             \/ NewIterator \/ DeleteIterator \/ UNCHANGED vars
      PROVE  Sequenced'
  <2>1. UNCHANGED <<logs, tables, manifests, current, pc, replay, mem, imm, lastSequence, version,
                    logNumber, leader>>
    BY <1>7 DEF Enqueue, CompactStart, NewIterator, DeleteIterator, vars, disk, memory, queue
  <2>2. Found' = Found /\ Records' = Records
    BY <2>1 DEF Found, Records
  <2>3. Updates' = Updates
    BY <2>1 DEF Updates
  <2>4. World' = World
    BY <2>1, <2>2, <2>3 DEF World, Seen
  <2>5. Distinct' /\ UpdatesFollow'
    BY <2>1, <2>3, <2>4 DEF Sequenced, Distinct, UpdatesFollow
  <2>6. LastKnown'
    BY <2>1, <2>2, <2>3, <2>4 DEF Sequenced, LastKnown, InMemory
  <2> QED
    BY <2>5, <2>6 DEF Sequenced
<1> QED
  BY <1>1, <1>2, <1>3, <1>4, <1>5, <1>6, <1>7 DEF Next

LEMMA AlwaysSequenced ==
  ASSUME DBImplAssumption
  PROVE  Spec => [](Typed /\ InUse /\ Numbered /\ Sound /\ Sequenced)
<1>1. Init => Typed /\ InUse /\ Numbered /\ Sound /\ Sequenced
  BY TypedInit, InUseInit, NumberedInit, SoundInit, SequencedInit
<1>2. Typed /\ InUse /\ Numbered /\ Sound /\ Sequenced /\ [Next]_vars
        => Typed' /\ InUse' /\ Numbered' /\ Sound' /\ Sequenced'
  BY TypedStep, InUseStep, NumberedStep, SoundStep, SequencedStep
<1> QED
  BY <1>1, <1>2, PTL DEF Spec

\* No two batches ever get the same sequence number, and none gets one that is
\* greater than the last: not the next group of a leader, nor what is written
\* after a failed append, a crash or a power loss, although DB::Open takes the
\* last number from the MANIFEST and from what it can read of the logs.
THEOREM NoSequenceTwice == Spec => []SequencesAreUnique
<1>1. Sequenced => SequencesAreUnique
  <2> SUFFICES ASSUME Sequenced, pc = "open"
               PROVE  /\ \A e, f \in InMemory : e.seq = f.seq => e = f
                      /\ \A e \in InMemory : e.seq <= lastSequence
    BY DEF SequencesAreUnique, InMemory, In, Held
  <2>1. InMemory \subseteq World
    BY DEF InMemory, World
  <2> QED
    BY <2>1 DEF Sequenced, Distinct, LastKnown
<1> QED
  BY <1>1, AlwaysSequenced, DBImplAssumption, PTL
=============================================================================
