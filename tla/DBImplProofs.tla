---------------------------- MODULE DBImplProofs ----------------------------
(***************************************************************************)
(* Proofs about DBImpl: files in use are never deleted, and which tables   *)
(* and numbers DB::Open finds in the MANIFEST, whenever the process is     *)
(* killed or the machine loses power.                                      *)
(***************************************************************************)
EXTENDS DBImpl, TLAPS, FiniteSetTheorems, SequenceTheorems, NaturalsInduction

-----------------------------------------------------------------------------
(* The least and the greatest of some numbers. *)

LEMMA MinOfNumbers ==
  ASSUME NEW S, S \subseteq Nat, S # {}
  PROVE  Min(S) \in S /\ \A y \in S : Min(S) <= y
<1> DEFINE R == {ss \in Nat \X Nat : ss[1] < ss[2]}
<1>1. IsWellFoundedOn(R, Nat)
  BY NatLessThanWellFounded, Zenon DEF OpToRel
<1>4. \A x, y \in Nat : y < x => <<y, x>> \in R
  OBVIOUS
<1> HIDE DEF R
<1>2. PICK x \in S : \A y \in S : <<y, x>> \notin R
  BY <1>1, WFMin
<1>3. ASSUME NEW y \in S PROVE x <= y
  <2>1. x \in Nat /\ y \in Nat
    OBVIOUS
  <2>2. ~ (y < x)
    BY <1>2, <1>4, <2>1
  <2> QED
    BY <2>1, <2>2
<1> QED
  BY <1>3 DEF Min

LEMMA MaxOfNumbers ==
  ASSUME NEW S, S \subseteq Nat, S # {}, NEW b \in Nat, \A x \in S : x <= b
  PROVE  Max(S) \in S /\ \A y \in S : y <= Max(S)
<1> DEFINE above == {u \in Nat : \A x \in S : x <= u}
<1>1. Min(above) \in above /\ \A u \in above : Min(above) <= u
  BY MinOfNumbers, b \in above
<1>2. Min(above) \in S
  <2>1. SUFFICES ASSUME Min(above) \notin S PROVE FALSE
    OBVIOUS
  <2>2. PICK x \in S : TRUE
    OBVIOUS
  <2>3. \A y \in S : y < Min(above)
    BY <1>1, <2>1
  <2>4. Min(above) - 1 \in above
    BY <1>1, <2>2, <2>3
  <2> QED
    BY <1>1, <2>4
<1>3. \E x \in S : \A y \in S : x >= y
  BY <1>1, <1>2
<1> QED
  BY <1>3 DEF Max
-----------------------------------------------------------------------------
(* What the variables hold *)

\* Sequence numbers have a bound, so that the greatest of them exists.
Bounded(entries) == \E b \in Nat : \A e \in entries : e.seq <= b

LogRecords == {record \in SUBSET Entries : Bounded(record)}

Edits == [added : SUBSET Nat, deleted : SUBSET Nat, log : Nat, next : Nat, last : Nat]

EditRecords == {Torn} \union {{edit} : edit \in Edits}

\* A file whose records are in R.
FileOf(R) == {f \in [records : Seq(R), synced : Nat] : f.synced <= Len(f.records)}

TableFiles == [entries : SUBSET Entries, synced : BOOLEAN]

FilesTyped ==
  /\ \A n \in DOMAIN logs : n \in Nat /\ logs[n] \in FileOf(LogRecords)
  /\ \A n \in DOMAIN tables : n \in Nat /\ tables[n] \in TableFiles
  /\ \A n \in DOMAIN manifests : n \in Nat /\ manifests[n] \in FileOf(EditRecords)
  /\ current \in {0} \union DOMAIN manifests

MemoryTyped ==
  /\ pc \in {"closed", "replay", "log", "manifest", "open"}
  /\ replay \in [log : Nat, read : Nat]
  /\ mem \subseteq Entries /\ imm \subseteq SUBSET Entries
  /\ \A m, n \in imm : m = n
  /\ logfile \in Nat /\ nextFile \in Nat /\ lastSequence \in Nat
  /\ logNumber \in Nat /\ manifest \in Nat
  /\ version \subseteq Nat /\ pending \subseteq Nat /\ iterator \subseteq SUBSET Nat
  /\ bgError \in BOOLEAN /\ deleting \in BOOLEAN

Callers == [call : 1..calls, kind : CallKinds, awake : BOOLEAN]

\* The leader is at the head of the queue, and its group is waiting with it.
Leaders ==
  {[pc |-> p] : p \in {"room", "switched"}}
    \union [pc : {"log", "sync", "insert"}, count : 1..Len(writers), updates : LogRecords]

QueueTyped ==
  /\ calls \in 0..MaxCalls
  /\ writers \in Seq(Callers)
  /\ leader \in Leaders
  /\ safe \subseteq acked /\ acked \subseteq 1..calls

BgTyped ==
  /\ flush \in [pc : {"none", "build", "log", "sync"}, number : Nat]
  /\ flush.pc = "none" => flush = NoFlush
  /\ compact \in [pc : {"none", "merge", "output", "log", "sync"},
                  inputs : SUBSET Nat, version : SUBSET Nat, number : Nat]
  /\ compact.pc = "none" => compact = NoCompaction
  /\ compact.inputs \subseteq compact.version

\* Without a database that is open there is nothing in memory.
Idle ==
  /\ imm = {} /\ writers = << >> /\ leader = [pc |-> "room"]
  /\ flush = NoFlush /\ compact = NoCompaction /\ iterator = {}
  /\ pending = {} /\ bgError = FALSE /\ deleting = FALSE

Typed ==
  /\ FilesTyped /\ MemoryTyped /\ QueueTyped /\ BgTyped
  /\ faults \in Nat /\ opens \in Nat
  /\ pc # "open" => Idle
  /\ pc # "open" /\ pc # "replay" => mem = {}
  /\ flush.pc # "none" => imm # {}
  /\ pc = "replay" /\ mem # {} => LogsFrom(replay.log) # {}
  /\ pc = "manifest" => manifest \in DOMAIN manifests
  /\ pc = "open" => current = manifest

\* The tables that are read, and those that are being written.
InUse ==
  /\ version \subseteq DOMAIN tables /\ compact.version \subseteq DOMAIN tables
  /\ \A v \in iterator : v \subseteq DOMAIN tables
  /\ nextFile > 0
  /\ deleting => flush = NoFlush
  /\ flush.pc # "none" => flush.number < nextFile /\ flush.number # compact.number
  /\ flush.pc \in {"log", "sync"} /\ UNION imm # {} => flush.number \in DOMAIN tables
  /\ compact.pc \in {"output", "log", "sync"} =>
       compact.number < nextFile /\ compact.number \in pending \intersect DOMAIN tables
  /\ compact.pc \in {"none", "merge"} => compact.number = 0

-----------------------------------------------------------------------------
(* Lemmas about files *)

LEMMA FileProperties ==
  ASSUME NEW R, NEW f \in FileOf(R)
  PROVE  /\ f.records \in Seq(R) /\ f.synced \in Nat /\ Len(f.records) \in Nat
         /\ f.synced <= Len(f.records)
         /\ DOMAIN f.records = 1..Len(f.records)
         /\ \A i \in 1..Len(f.records) : f.records[i] \in R
         /\ f = [records |-> f.records, synced |-> f.synced]
BY DEF FileOf

LEMMA WroteFile ==
  ASSUME NEW R, NEW f \in FileOf(R), NEW r \in R
  PROVE  /\ Wrote(f, r) \in FileOf(R)
         /\ Wrote(f, r).synced = f.synced
         /\ Len(Wrote(f, r).records) = Len(f.records) + 1
         /\ \A i \in 1..Len(f.records) : Wrote(f, r).records[i] = f.records[i]
         /\ Wrote(f, r).records[Len(f.records) + 1] = r
<1>1. f.records \in Seq(R) /\ f.synced \in Nat /\ f.synced <= Len(f.records) /\ Len(f.records) \in Nat
  BY FileProperties
<1>2. /\ Append(f.records, r) \in Seq(R)
      /\ Len(Append(f.records, r)) = Len(f.records) + 1
      /\ \A i \in 1..Len(f.records) : Append(f.records, r)[i] = f.records[i]
      /\ Append(f.records, r)[Len(f.records) + 1] = r
  BY <1>1, AppendProperties
<1>3. Wrote(f, r) = [records |-> Append(f.records, r), synced |-> f.synced]
  BY FileProperties DEF Wrote
<1> QED
  BY <1>1, <1>2, <1>3 DEF FileOf

LEMMA SyncedFile ==
  ASSUME NEW R, NEW f \in FileOf(R)
  PROVE  /\ Synced(f) \in FileOf(R)
         /\ Synced(f).records = f.records
         /\ Synced(f).synced = Len(f.records)
<1>1. Synced(f) = [records |-> f.records, synced |-> Len(f.records)]
  BY FileProperties DEF Synced
<1> QED
  BY <1>1, FileProperties DEF FileOf

LEMMA CutFile ==
  ASSUME NEW R, NEW f \in FileOf(R), NEW k \in f.synced..Len(f.records)
  PROVE  /\ [records |-> SubSeq(f.records, 1, k), synced |-> k] \in FileOf(R)
         /\ Len(SubSeq(f.records, 1, k)) = k
         /\ \A i \in 1..k : SubSeq(f.records, 1, k)[i] = f.records[i]
<1>1. /\ f.records \in Seq(R) /\ Len(f.records) \in Nat /\ f.synced \in Nat
      /\ k \in Nat /\ k <= Len(f.records)
      /\ \A i \in 1..k : f.records[i] \in R
  BY FileProperties
<1>2. /\ SubSeq(f.records, 1, k) \in Seq(R)
      /\ Len(SubSeq(f.records, 1, k)) = k
      /\ \A i \in 1..k : SubSeq(f.records, 1, k)[i] = f.records[i]
  BY <1>1, SubSeqProperties
<1> QED
  BY <1>1, <1>2 DEF FileOf

LEMMA NewFileTyped == \A R : NewFile \in FileOf(R)
<1> SUFFICES ASSUME NEW R PROVE NewFile \in FileOf(R)
  OBVIOUS
<1> QED
  BY EmptySeq DEF FileOf, NewFile

-----------------------------------------------------------------------------
(* Lemmas about the queue *)

LEMMA WakeHeadKeeps ==
  ASSUME NEW K, NEW C, NEW q \in Seq([call : C, kind : K, awake : BOOLEAN])
  PROVE  /\ WakeHead(q) \in Seq([call : C, kind : K, awake : BOOLEAN])
         /\ Len(WakeHead(q)) = Len(q)
         /\ \A i \in 1..Len(q) : /\ WakeHead(q)[i].call = q[i].call
                                 /\ WakeHead(q)[i].kind = q[i].kind
<1> DEFINE S == [call : C, kind : K, awake : BOOLEAN]
<1>1. CASE q = << >>
  BY <1>1 DEF WakeHead
<1>2. CASE q # << >>
  <2>1. 1 \in 1..Len(q) /\ q[1] \in S
    <3>1. Len(q) \in Nat \ {0}
      BY <1>2, EmptySeq
    <3>2. 1 \in 1..Len(q)
      BY <3>1
    <3> QED
      BY <3>2, ElementOfSeq
  <2>2. [q[1] EXCEPT !.awake = TRUE] \in S
    BY <2>1
  <2>3. WakeHead(q) = [q EXCEPT ![1] = [q[1] EXCEPT !.awake = TRUE]]
    BY <1>2 DEF WakeHead
  <2>4. \A i \in 1..Len(q) : q[i] \in S
    BY ElementOfSeq
  <2> QED
    BY <2>1, <2>2, <2>3, <2>4, ExceptSeq
<1> QED
  BY <1>1, <1>2

\* The group leaves the queue; the others move up.
LEMMA ReturnMoves ==
  ASSUME QueueTyped, NEW n \in 1..Len(writers), NEW ok \in BOOLEAN, Return(n, ok)
  PROVE  /\ writers' \in Seq(Callers) /\ calls' = calls
         /\ leader' = [pc |-> "room"]
         /\ safe' \subseteq acked' /\ acked' \subseteq 1..calls
         /\ Len(writers') = Len(writers) - n
<1> DEFINE rest == SubSeq(writers, n + 1, Len(writers))
<1>1. /\ writers \in Seq(Callers) /\ Len(writers) \in Nat
      /\ \A i \in 1..Len(writers) : writers[i] \in Callers
  BY LenProperties, ElementOfSeq DEF QueueTyped
<1>2. rest \in Seq(Callers) /\ Len(rest) = Len(writers) - n
  BY <1>1, SubSeqProperties
<1>3. writers' = WakeHead(rest) /\ leader' = [pc |-> "room"] /\ calls' = calls
  BY DEF Return
<1>4. WakeHead(rest) \in Seq(Callers) /\ Len(WakeHead(rest)) = Len(rest)
  BY <1>2, WakeHeadKeeps DEF Callers
<1>5. acked' \subseteq 1..calls
  <2>1. \A i \in 1..n : writers[i].call \in 1..calls
    BY <1>1 DEF Callers
  <2> QED
    BY <2>1 DEF Return, Batches, QueueTyped
<1>6. safe' \subseteq acked'
  BY DEF Return, QueueTyped
<1> QED
  BY <1>2, <1>3, <1>4, <1>5, <1>6

\* The group that BuildBatchGroup picks: it has no sync in it unless the leader
\* asks for one.
LEMMA GroupProperties ==
  ASSUME QueueTyped, writers # << >>
  PROVE  /\ BuildBatchGroup \in 1..Len(writers)
         /\ \A i \in 2..BuildBatchGroup :
              writers[i].kind = "sync" => writers[1].kind = "sync"
<1> DEFINE barred == {i \in 2..Len(writers) : /\ writers[i].kind = "sync"
                                              /\ writers[1].kind # "sync"}
           S == {i - 1 : i \in barred} \union {Len(writers)}
<1>1. Len(writers) \in Nat \ {0}
  BY EmptySeq DEF QueueTyped
<1>2. S \subseteq 1..Len(writers) /\ S # {} /\ S \subseteq Nat
  BY <1>1
<1>3. Min(S) \in S /\ \A y \in S : Min(S) <= y
  <2> HIDE DEF S
  <2> QED
    BY <1>2, MinOfNumbers
<1>4. BuildBatchGroup = Min(S)
  BY DEF BuildBatchGroup
<1>5. ASSUME NEW i \in 2..Min(S), writers[i].kind = "sync", writers[1].kind # "sync"
      PROVE  FALSE
  <2>1. i \in 2..Len(writers)
    BY <1>1, <1>2, <1>3
  <2>2. i - 1 \in S
    BY <2>1, <1>5
  <2> HIDE DEF S
  <2>3. Min(S) <= i - 1
    BY <1>3, <2>2
  <2>4. Min(S) \in Nat
    BY <1>2, <1>3
  <2> QED
    BY <2>3, <2>4
<1> HIDE DEF S
<1> QED
  BY <1>2, <1>3, <1>4, <1>5

\* The entries of a group have numbers of their own, one after the other from
\* the last sequence number on.
LEMMA UpdatesProperties ==
  ASSUME QueueTyped, lastSequence \in Nat, MaxCalls \in Nat, NEW n \in 1..Len(writers),
         NEW U,
         U = {[call |-> writers[i].call, seq |-> lastSequence + Cardinality(Batches(i))] :
                i \in Batches(n)}
  PROVE  /\ U \in LogRecords
         /\ \A e \in U : lastSequence < e.seq /\ e.seq <= lastSequence + Cardinality(U)
         /\ \A e, f \in U : e.seq = f.seq => e = f
         /\ Cardinality(U) \in Nat
<1> DEFINE c(i) == Cardinality(Batches(i))
           e(i) == [call |-> writers[i].call, seq |-> lastSequence + c(i)]
           B == Batches(n)
<1>1. /\ writers \in Seq(Callers) /\ Len(writers) \in Nat
      /\ \A i \in 1..Len(writers) : writers[i] \in Callers
  BY LenProperties, ElementOfSeq DEF QueueTyped
<1>2. \A i \in 1..n : /\ IsFiniteSet(Batches(i)) /\ c(i) \in Nat
                      /\ Batches(i) \subseteq Batches(n)
                      /\ c(i) <= c(n)
  <2> SUFFICES ASSUME NEW i \in 1..n
               PROVE  /\ IsFiniteSet(Batches(i)) /\ c(i) \in Nat
                      /\ Batches(i) \subseteq Batches(n)
                      /\ c(i) <= c(n)
    OBVIOUS
  <2>1. n \in Int /\ i \in Int /\ IsFiniteSet(1..n) /\ IsFiniteSet(1..i)
    BY <1>1, FS_Interval
  <2>2. Batches(i) \subseteq 1..i /\ Batches(n) \subseteq 1..n
    BY DEF Batches
  <2>3. IsFiniteSet(Batches(i)) /\ IsFiniteSet(Batches(n))
    BY <2>1, <2>2, FS_Subset
  <2>4. Batches(i) \subseteq Batches(n)
    BY <1>1 DEF Batches
  <2> QED
    BY <2>3, <2>4, FS_Subset, FS_CardinalityType
<1>3. \A i, j \in B : i < j => c(i) < c(j)
  <2> SUFFICES ASSUME NEW i \in B, NEW j \in B, i < j PROVE c(i) < c(j)
    OBVIOUS
  <2>1. i \in 1..n /\ j \in 1..n
    BY DEF Batches
  <2>2. Batches(i) \subseteq Batches(j) /\ j \in Batches(j) /\ j \notin Batches(i)
    BY <1>1 DEF Batches
  <2>3. c(i) <= c(j) /\ c(i) # c(j) /\ c(i) \in Nat /\ c(j) \in Nat
    BY <1>2, <2>1, <2>2, FS_Subset
  <2> QED
    BY <2>3
<1>4. \A i \in B : i \in 1..n /\ c(i) \in 1..c(n)
  <2> SUFFICES ASSUME NEW i \in B PROVE i \in 1..n /\ c(i) \in 1..c(n)
    OBVIOUS
  <2>1. i \in 1..n /\ i \in Batches(i)
    BY <1>1 DEF Batches
  <2>2. c(i) # 0
    BY <1>2, <2>1, FS_EmptySet
  <2> QED
    BY <1>2, <1>1, <2>1, <2>2
<1>5. \A i, j \in B : e(i).seq = e(j).seq => i = j
  <2> SUFFICES ASSUME NEW i \in B, NEW j \in B, e(i).seq = e(j).seq PROVE i = j
    OBVIOUS
  <2>1. c(i) = c(j) /\ i \in Nat /\ j \in Nat
    BY <1>4, <1>2, <1>1
  <2> HIDE DEF c, B
  <2> QED
    BY <2>1, <1>3, <1>4
<1>6. U = {e(i) : i \in B}
  OBVIOUS
<1>7. \A i \in B : e(i) \in Entries
  <2> SUFFICES ASSUME NEW i \in B PROVE e(i) \in Entries
    OBVIOUS
  <2>1. writers[i].call \in 1..MaxCalls
    BY <1>1, <1>4 DEF Callers, QueueTyped
  <2>2. lastSequence + c(i) \in Nat
    BY <1>2, <1>4
  <2> QED
    BY <2>1, <2>2 DEF Entries
<1>8. Cardinality(U) = c(n)
  <2> DEFINE f == [i \in B |-> e(i)]
  <2>1. f \in Bijection(B, U)
    <3>1. f \in [B -> U]
      BY <1>6
    <3>2. \A i, j \in B : f[i] = f[j] => i = j
      BY <1>5
    <3>3. \A u \in U : \E i \in B : f[i] = u
      BY <1>6
    <3> QED
      BY <3>1, <3>2, <3>3 DEF Bijection, Injection, Surjection, IsInjective
  <2>2. IsFiniteSet(B)
    BY <1>2, <1>1
  <2> QED
    BY <2>1, <2>2, FS_Bijection DEF ExistsBijection
<1>9. c(n) \in Nat
  BY <1>2
<1> HIDE DEF c, B
<1>10. \A u \in U : lastSequence < u.seq /\ u.seq <= lastSequence + Cardinality(U)
  BY <1>4, <1>6, <1>8, <1>9
<1>11. \A u, w \in U : u.seq = w.seq => u = w
  BY <1>5, <1>6
<1>12. U \in LogRecords
  <2>1. U \subseteq Entries
    BY <1>6, <1>7
  <2>2. Bounded(U)
    BY <1>8, <1>9, <1>10, lastSequence + c(n) \in Nat DEF Bounded
  <2> QED
    BY <2>1, <2>2 DEF LogRecords
<1> QED
  BY <1>8, <1>9, <1>10, <1>11, <1>12
-----------------------------------------------------------------------------
(* Typed is inductive *)

LEMMA PutTyped ==
  ASSUME NEW S, NEW f, \A n \in DOMAIN f : n \in Nat /\ f[n] \in S,
         NEW m \in Nat, NEW x \in S
  PROVE  \A n \in DOMAIN Put(f, m, x) : n \in Nat /\ Put(f, m, x)[n] \in S
BY DEF Put

LEMMA WithoutTyped ==
  ASSUME NEW S, NEW f, \A n \in DOMAIN f : n \in Nat /\ f[n] \in S, NEW T
  PROVE  \A n \in DOMAIN Without(f, T) : n \in Nat /\ Without(f, T)[n] \in S
BY DEF Without

LEMMA ExceptTyped ==
  ASSUME NEW S, NEW f, \A n \in DOMAIN f : n \in Nat /\ f[n] \in S,
         NEW m, NEW x, m \in DOMAIN f => x \in S
  PROVE  \A n \in DOMAIN [f EXCEPT ![m] = x] : n \in Nat /\ [f EXCEPT ![m] = x][n] \in S
OBVIOUS

LEMMA SurvivingTyped ==
  ASSUME NEW R, NEW files, \A n \in DOMAIN files : n \in Nat /\ files[n] \in FileOf(R),
         NEW f \in Lengths(files)
  PROVE  \A n \in DOMAIN Surviving(files, f) :
           n \in Nat /\ Surviving(files, f)[n] \in FileOf(R)
<1> SUFFICES ASSUME NEW n \in DOMAIN files
             PROVE  n \in Nat /\ Surviving(files, f)[n] \in FileOf(R)
  BY DEF Surviving
<1>1. f[n] \in files[n].synced..Len(files[n].records)
  BY DEF Lengths
<1> QED
  BY <1>1, CutFile DEF Surviving

\* What is left when the process is gone is typed, whatever the files are.
LEMMA ForgetTyped ==
  ASSUME Typed, Forget, FilesTyped', calls' = calls, safe' = safe,
         acked' \in {acked, safe}, faults' \in Nat, opens' \in Nat
  PROVE  Typed'
<1>1. MemoryTyped'
  BY DEF Forget, MemoryTyped
<1>2. QueueTyped'
  BY EmptySeq DEF Forget, QueueTyped, Leaders, Typed, Callers
<1>3. BgTyped'
  BY DEF Forget, BgTyped, NoFlush, NoCompaction
<1> QED
  BY <1>1, <1>2, <1>3 DEF Typed, Idle, Forget, NoFlush

LEMMA TypedInit == DBImplAssumption /\ Init => Typed
<1> SUFFICES ASSUME DBImplAssumption, Init PROVE Typed
  OBVIOUS
<1>1. FilesTyped
  BY DEF Init, FilesTyped
<1>2. MemoryTyped
  BY DEF Init, MemoryTyped
<1>3. QueueTyped
  BY EmptySeq DEF Init, QueueTyped, Leaders, Callers, DBImplAssumption
<1>4. BgTyped
  BY DEF Init, BgTyped, NoFlush, NoCompaction
<1> QED
  BY <1>1, <1>2, <1>3, <1>4 DEF Typed, Idle, Init, NoFlush

-----------------------------------------------------------------------------
(* What a MANIFEST says *)

LEMMA EditOf == \A e : Edit({e}) = e
BY DEF Edit

LEMMA ReadableRecords ==
  ASSUME NEW f \in FileOf(EditRecords), NEW i \in Readable(f.records)
  PROVE  /\ i \in 1..Len(f.records) /\ i \in Nat
         /\ f.records[i] = {Edit(f.records[i])}
         /\ Edit(f.records[i]) \in Edits
<1>1. i \in 1..Len(f.records) /\ f.records[i] \in EditRecords /\ Len(f.records) \in Nat
  BY FileProperties DEF Readable
<1>2. i \in 1..i
  BY <1>1
<1>3. f.records[i] # Torn
  BY <1>2 DEF Readable
<1>4. PICK e \in Edits : f.records[i] = {e}
  BY <1>1, <1>3 DEF EditRecords
<1>5. Edit(f.records[i]) = e
  BY <1>4, EditOf
<1> QED
  BY <1>1, <1>4, <1>5

LEMMA LastReadable ==
  ASSUME NEW f \in FileOf(EditRecords), Readable(f.records) # {}
  PROVE  /\ Max(Readable(f.records)) \in Readable(f.records)
         /\ \A i \in Readable(f.records) : i <= Max(Readable(f.records))
<1>1. /\ Readable(f.records) \subseteq Nat /\ Len(f.records) \in Nat
      /\ \A i \in Readable(f.records) : i <= Len(f.records)
  BY ReadableRecords, FileProperties
<1> QED
  BY <1>1, MaxOfNumbers

LEMMA LastEditTyped ==
  ASSUME NEW f \in FileOf(EditRecords)
  PROVE  LastEdit(f.records) \in Edits
<1>1. CASE Readable(f.records) = {}
  BY <1>1 DEF LastEdit, NoEdit, Edits
<1>2. CASE Readable(f.records) # {}
  BY <1>2, LastReadable, ReadableRecords DEF LastEdit
<1> QED
  BY <1>1, <1>2

LEMMA FilesOfTyped ==
  ASSUME NEW f \in FileOf(EditRecords)
  PROVE  FilesOf(f.records) \subseteq Nat
<1> SUFFICES ASSUME NEW n \in FilesOf(f.records) PROVE n \in Nat
  OBVIOUS
<1>1. PICK i \in Readable(f.records) : n \in Edit(f.records[i]).added
  BY DEF FilesOf
<1> QED
  BY <1>1, ReadableRecords DEF Edits

-----------------------------------------------------------------------------
(* What a log says *)

\* The greatest sequence number seen so far.
LEMMA LastOfProperties ==
  ASSUME NEW record \in LogRecords, lastSequence \in Nat
  PROVE  /\ LastOf(record) \in Nat /\ lastSequence <= LastOf(record)
         /\ \A e \in record : e.seq <= LastOf(record)
<1> DEFINE S == Seqs(record) \union {lastSequence}
<1>1. PICK b \in Nat : \A e \in record : e.seq <= b
  BY DEF LogRecords, Bounded
<1>2. \A e \in record : e.seq \in Nat
  BY DEF LogRecords, Entries
<1>3. S \subseteq Nat /\ S # {} /\ lastSequence \in S
  BY <1>2 DEF Seqs
<1>4. \A e \in record : e.seq \in S
  BY DEF Seqs
<1>5. PICK c \in Nat : b <= c /\ lastSequence <= c
  BY <1>1, b + lastSequence \in Nat
<1>6. \A x \in S : x <= c
  BY <1>1, <1>2, <1>5 DEF Seqs
<1>7. LastOf(record) = Max(S)
  BY DEF LastOf, Maximum
<1> HIDE DEF S
<1>8. Max(S) \in S /\ \A y \in S : y <= Max(S)
  BY <1>3, <1>6, MaxOfNumbers
<1> QED
  BY <1>3, <1>4, <1>7, <1>8

LEMMA MaximumOfTwo ==
  ASSUME NEW a \in Nat, NEW b \in Nat
  PROVE  Maximum({a}, b) = IF a >= b THEN a ELSE b
<1> DEFINE S == {a} \union {b}
<1>1. S \subseteq Nat /\ S # {} /\ \A x \in S : x <= a + b /\ a + b \in Nat
  OBVIOUS
<1>2. Max(S) \in S /\ \A y \in S : y <= Max(S)
  <2> HIDE DEF S
  <2> QED
    BY <1>1, MaxOfNumbers
<1> QED
  BY <1>2 DEF Maximum

LEMMA ReadableLog ==
  ASSUME NEW f \in FileOf(LogRecords), NEW i \in Readable(f.records)
  PROVE  i \in 1..Len(f.records) /\ f.records[i] \in LogRecords
BY FileProperties DEF Readable

\* The steps of DB::Open.
LEMMA TypedOpen ==
  ASSUME DBImplAssumption, Typed, ~ deleting, Open
  PROVE  Typed'
<1> USE DEF Typed
<1>1. CASE NewDB
  <2> DEFINE edit == [added |-> {}, deleted |-> {}, log |-> 0, next |-> 2, last |-> 0]
             f == [records |-> <<{edit}>>, synced |-> 0]
  <2>1. f \in FileOf(EditRecords)
    <3>1. edit \in Edits
      BY DEF Edits
    <3>2. {edit} \in EditRecords
      BY <3>1 DEF EditRecords
    <3> HIDE DEF edit
    <3>3. <<{edit}>> \in Seq(EditRecords) /\ Len(<<{edit}>>) = 1
      BY <3>2
    <3> QED
      BY <3>3 DEF FileOf
  <2>2. manifests' = Put(manifests, 1, f) /\ current' = 1
    BY <1>1 DEF NewDB
  <2>3. FilesTyped'
    BY <1>1, <2>1, <2>2, PutTyped DEF NewDB, FilesTyped, Put
  <2>4. MemoryTyped' /\ QueueTyped' /\ BgTyped'
    BY <1>1 DEF NewDB, memory, queue, bg, callers, MemoryTyped, QueueTyped, BgTyped,
                Callers, Leaders
  <2> QED
    BY <1>1, <2>3, <2>4 DEF NewDB, memory, queue, bg, callers, bounds, Idle
<1>2. CASE Recover
  <2> DEFINE records == manifests[current].records
  <2>1. LastEdit(records) \in Edits
    BY <1>2, LastEditTyped DEF Recover, FilesTyped
  <2>2. FilesOf(records) \subseteq Nat
    BY <1>2, FilesOfTyped DEF Recover, FilesTyped
  <2>3. FilesTyped'
    BY <1>2 DEF Recover, FilesTyped, disk
  <2>4. MemoryTyped'
    <3>1. /\ UNCHANGED <<imm, logfile, pending, bgError, deleting, iterator, mem>>
          /\ pc' = "replay" /\ version' \subseteq Nat
      BY <1>2, <2>2 DEF Recover
    <3>2. /\ replay' \in [log : Nat, read : Nat] /\ lastSequence' \in Nat
          /\ nextFile' \in Nat /\ logNumber' \in Nat /\ manifest' \in Nat
      BY <1>2, <2>1 DEF Recover, Edits
    <3> QED
      BY <3>1, <3>2 DEF MemoryTyped
  <2>5. QueueTyped' /\ BgTyped'
    BY <1>2 DEF Recover, queue, bg, callers, QueueTyped, BgTyped, Callers, Leaders
  <2>6. opens' \in Nat /\ faults' \in Nat
    BY <1>2 DEF Recover
  <2> QED
    BY <1>2, <2>3, <2>4, <2>5, <2>6 DEF Recover, queue, bg, Idle
<1>3. CASE \E n \in DOMAIN logs : ReplayRecord(n)
  <2>1. PICK n \in DOMAIN logs : ReplayRecord(n)
    BY <1>3
  <2> DEFINE record == logs[n].records[replay.read + 1]
  <2>2. record \in LogRecords /\ record \subseteq Entries
    BY <2>1, ReadableLog DEF ReplayRecord, FilesTyped, LogRecords
  <2>3. FilesTyped'
    <3>1. CASE tables' = tables
      BY <2>1, <3>1 DEF ReplayRecord, FilesTyped
    <3>2. CASE tables' = Put(tables, nextFile, TableOf(mem \union record))
      <4>1. TableOf(mem \union record) \in TableFiles
        BY <2>2 DEF TableOf, TableFiles, MemoryTyped
      <4> QED
        BY <2>1, <3>2, <4>1, PutTyped DEF ReplayRecord, FilesTyped, MemoryTyped
    <3> QED
      BY <2>1, <3>1, <3>2 DEF ReplayRecord, WriteLevel0Table
  <2>4. MemoryTyped'
    <3>1. LastOf(record) \in Nat
      BY <2>2, LastOfProperties DEF MemoryTyped
    <3> QED
      BY <2>1, <2>2, <3>1 DEF ReplayRecord, WriteLevel0Table, MemoryTyped
  <2>5. QueueTyped' /\ BgTyped'
    BY <2>1 DEF ReplayRecord, queue, bg, callers, QueueTyped, BgTyped, Callers, Leaders
  <2> QED
    BY <2>1, <2>3, <2>4, <2>5
       DEF ReplayRecord, Replaying, LogsFrom, bounds, queue, bg, Idle, MemoryTyped
<1>4. CASE \E n \in DOMAIN logs : ReplayEnd(n)
  <2>1. PICK n \in DOMAIN logs : ReplayEnd(n)
    BY <1>4
  <2>2. n \in Nat
    BY DEF FilesTyped
  <2>3. FilesTyped'
    <3>1. CASE tables' = tables
      BY <2>1, <3>1 DEF ReplayEnd, FilesTyped
    <3>2. CASE tables' = Put(tables, nextFile, TableOf(mem))
      <4>1. TableOf(mem) \in TableFiles
        BY DEF TableOf, TableFiles, MemoryTyped
      <4> QED
        BY <2>1, <3>2, <4>1, PutTyped DEF ReplayEnd, FilesTyped, MemoryTyped
    <3> QED
      BY <2>1, <3>1, <3>2 DEF ReplayEnd, WriteLevel0Table
  <2>4. MemoryTyped'
    <3>1. Maximum({nextFile}, n + 1) \in Nat /\ Maximum({nextFile + 1}, n + 1) \in Nat
      <4>1. nextFile \in Nat /\ nextFile + 1 \in Nat /\ n + 1 \in Nat
        BY <2>2 DEF MemoryTyped
      <4>2. Maximum({nextFile}, n + 1) \in Nat
        BY <4>1, MaximumOfTwo
      <4>3. Maximum({nextFile + 1}, n + 1) \in Nat
        BY <4>1, MaximumOfTwo
      <4> QED
        BY <4>2, <4>3
    <3>2. replay' \in [log : Nat, read : Nat]
      BY <2>1, <2>2 DEF ReplayEnd
    <3>3. nextFile' \in Nat /\ version' \subseteq Nat /\ mem' \subseteq Entries
      BY <2>1, <3>1 DEF ReplayEnd, WriteLevel0Table, MemoryTyped
    <3> QED
      BY <2>1, <3>2, <3>3 DEF ReplayEnd, MemoryTyped
  <2>5. QueueTyped' /\ BgTyped'
    BY <2>1 DEF ReplayEnd, queue, bg, callers, QueueTyped, BgTyped, Callers, Leaders
  <2> QED
    BY <2>1, <2>3, <2>4, <2>5
       DEF ReplayEnd, Replaying, WriteLevel0Table, bounds, queue, bg, Idle
<1>5. CASE OpenLog
  <2>1. FilesTyped'
    BY <1>5, PutTyped, NewFileTyped DEF OpenLog, FilesTyped, MemoryTyped
  <2>2. MemoryTyped'
    BY <1>5 DEF OpenLog, MemoryTyped, NextNumber
  <2>3. QueueTyped' /\ BgTyped'
    BY <1>5 DEF OpenLog, queue, bg, callers, QueueTyped, BgTyped, Callers, Leaders
  <2> QED
    BY <1>5, <2>1, <2>2, <2>3 DEF OpenLog, bounds, queue, bg, Idle
<1>6. CASE OpenManifest
  <2> DEFINE f == [records |-> <<{WriteSnapshot}>>, synced |-> 0]
  <2>1. f \in FileOf(EditRecords)
    <3>1. WriteSnapshot \in Edits
      BY DEF Edits, WriteSnapshot, MemoryTyped
    <3>2. <<{WriteSnapshot}>> \in Seq(EditRecords) /\ Len(<<{WriteSnapshot}>>) = 1
      BY <3>1 DEF EditRecords
    <3> QED
      BY <3>2 DEF FileOf
  <2>2. FilesTyped'
    <3>1. Synced(f) \in FileOf(EditRecords)
      BY <2>1, SyncedFile
    <3> QED
      BY <1>6, <3>1, PutTyped DEF OpenManifest, FilesTyped, MemoryTyped, Put
  <2>3. MemoryTyped' /\ QueueTyped' /\ BgTyped'
    BY <1>6 DEF OpenManifest, memory, queue, bg, callers, MemoryTyped, QueueTyped,
                BgTyped, Callers, Leaders
  <2> QED
    BY <1>6, <2>2, <2>3 DEF OpenManifest, memory, bounds, queue, bg, Idle, Put
<1>7. CASE OpenFails
  <2>1. FilesTyped' /\ faults' \in Nat
    BY <1>7 DEF OpenFails, Fault, disk, FilesTyped
  <2> QED
    BY <1>7, <2>1, ForgetTyped DEF OpenFails, callers
<1>8. CASE OpenInstall
  <2>1. FilesTyped'
    BY <1>8 DEF OpenInstall, FilesTyped
  <2>2. MemoryTyped' /\ QueueTyped' /\ BgTyped'
    BY <1>8 DEF OpenInstall, queue, bg, callers, MemoryTyped, QueueTyped,
                BgTyped, Callers, Leaders
  <2> QED
    BY <1>8, <2>1, <2>2 DEF OpenInstall, bounds, queue, bg, Idle
<1> QED
  BY <1>1, <1>2, <1>3, <1>4, <1>5, <1>6, <1>7, <1>8 DEF Open

\* The call at the head of the queue.
LEMMA HeadOfQueue ==
  ASSUME QueueTyped, writers # << >>
  PROVE  /\ Len(writers) \in Nat \ {0} /\ 1 \in 1..Len(writers) /\ DOMAIN writers = 1..Len(writers)
         /\ writers[1] \in Callers
         /\ \A i \in 1..Len(writers) : writers[i] \in Callers
<1>1. Len(writers) \in Nat \ {0} /\ 1 \in 1..Len(writers) /\ writers \in Seq(Callers)
  BY EmptySeq DEF QueueTyped
<1> QED
  BY <1>1, ElementOfSeq, LenProperties

\* There are writers only while the database is open, and what the leader has
\* is typed.
LEMMA LeaderTyped ==
  ASSUME Typed
  PROVE  /\ leader.pc \in {"room", "switched", "log", "sync", "insert"}
         /\ leader.pc \in {"log", "sync", "insert"} =>
              /\ leader.count \in 1..Len(writers) /\ leader.updates \in LogRecords
              /\ leader = [pc |-> leader.pc, count |-> leader.count,
                           updates |-> leader.updates]
BY DEF Typed, QueueTyped, Leaders

\* A step after which a group has returned.
LEMMA TypedReturn ==
  ASSUME Typed, NEW n \in 1..Len(writers), NEW ok \in BOOLEAN, Return(n, ok),
         pc = "open", pc' = pc, FilesTyped', MemoryTyped', bg' = bg,
         faults' \in Nat, opens' \in Nat, imm' = imm, current' = current, manifest' = manifest
  PROVE  Typed'
<1>1. QueueTyped'
  <2>1. /\ writers' \in Seq(Callers) /\ calls' = calls
        /\ leader' = [pc |-> "room"]
        /\ safe' \subseteq acked' /\ acked' \subseteq 1..calls
    BY ReturnMoves DEF Typed
  <2> QED
    BY <2>1 DEF Typed, QueueTyped, Leaders, Callers
<1> QED
  BY <1>1 DEF Typed, bg, BgTyped

\* There are finitely many entries with numbers up to a bound.
LEMMA RecordsAreFinite ==
  ASSUME MaxCalls \in Nat, NEW record \in LogRecords
  PROVE  IsFiniteSet(record) /\ Cardinality(record) \in Nat
<1>1. PICK b \in Nat : \A e \in record : e.seq <= b
  BY DEF LogRecords, Bounded
<1> DEFINE P == (1..MaxCalls) \X (0..b)
           f == [p \in P |-> [call |-> p[1], seq |-> p[2]]]
<1>2. IsFiniteSet(P)
  BY FS_Interval, FS_Product, MaxCalls \in Int, b \in Int, 0 \in Int, 1 \in Int
<1>3. IsFiniteSet({f[p] : p \in P})
  <2>1. f \in Surjection(P, {f[p] : p \in P})
    BY DEF Surjection
  <2> HIDE DEF f, P
  <2> QED
    BY <1>2, <2>1, FS_Surjection
<1>4. ASSUME NEW e \in record PROVE e \in {f[p] : p \in P}
  <2>1. e \in [call : 1..MaxCalls, seq : Nat] /\ e.seq <= b
    BY <1>1 DEF LogRecords, Entries
  <2>2. <<e.call, e.seq>> \in P
    BY <2>1
  <2>3. f[<<e.call, e.seq>>] = e
    BY <2>1, <2>2
  <2> HIDE DEF f, P
  <2> QED
    BY <2>2, <2>3
<1> HIDE DEF f
<1> QED
  BY <1>3, <1>4, FS_Subset, FS_CardinalityType

\* The steps of Write.
LEMMA TypedWriter ==
  ASSUME DBImplAssumption, Typed, ~ deleting, Writer
  PROVE  Typed'
<1> USE DEF Typed
<1>0. writers # << >>
  BY DEF Writer, RoomError, RoomWait, RoomSwitch, RoomNoLog, ForceDone, BuildGroup,
         AddRecord, AddRecordFails, SyncLog, SyncLogFails, Insert, Leading
<1>a. pc = "open"
  BY <1>0 DEF Idle
<1>b. /\ Len(writers) \in Nat \ {0} /\ 1 \in 1..Len(writers) /\ DOMAIN writers = 1..Len(writers)
      /\ writers[1] \in Callers
  BY <1>0, HeadOfQueue
<1>1. CASE RoomError \/ ForceDone
  <2>1. PICK ok \in BOOLEAN : Return(1, ok)
    BY <1>1 DEF RoomError, ForceDone
  <2>2. UNCHANGED <<disk, pc, memory, bg, iterator, bounds>>
    BY <1>1 DEF RoomError, ForceDone
  <2>3. FilesTyped' /\ MemoryTyped'
    BY <2>2 DEF disk, memory, FilesTyped, MemoryTyped
  <2> QED
    BY <1>a, <1>b, <2>1, <2>2, <2>3, TypedReturn DEF disk, memory, bounds
<1>2. CASE RoomWait
  <2>1. [writers[1] EXCEPT !.awake = FALSE] \in Callers
    BY <1>b DEF Callers
  <2>2. writers' \in Seq(Callers) /\ Len(writers') = Len(writers)
    BY <1>2, <1>b, <2>1, ExceptSeq DEF RoomWait, QueueTyped
  <2>3. FilesTyped' /\ MemoryTyped' /\ BgTyped'
    BY <1>2 DEF RoomWait, disk, memory, bg, FilesTyped, MemoryTyped, BgTyped
  <2>4. QueueTyped'
    BY <1>2, <2>2 DEF RoomWait, callers, QueueTyped, Callers, Leaders
  <2> QED
    BY <1>a, <1>2, <2>3, <2>4 DEF RoomWait, disk, memory, bg, bounds
<1>3. CASE RoomSwitch
  <2>1. FilesTyped'
    BY <1>3, PutTyped, NewFileTyped DEF RoomSwitch, FilesTyped, MemoryTyped
  <2>2. MemoryTyped'
    BY <1>3 DEF RoomSwitch, MemoryTyped, NextNumber
  <2>3. QueueTyped' /\ BgTyped'
    BY <1>3 DEF RoomSwitch, bg, callers, QueueTyped, BgTyped, Callers, Leaders
  <2> QED
    BY <1>a, <1>3, <2>1, <2>2, <2>3 DEF RoomSwitch, bg, bounds
<1>4. CASE RoomNoLog
  <2>1. FilesTyped' /\ MemoryTyped'
    BY <1>4 DEF RoomNoLog, disk, memory, FilesTyped, MemoryTyped
  <2>2. Fault("newlog") /\ Return(1, FALSE) /\ opens' = opens
    BY <1>4 DEF RoomNoLog
  <2>3. faults' \in Nat /\ opens' \in Nat
    BY <2>2 DEF Fault
  <2> QED
    BY <1>4, <1>a, <1>b, <2>1, <2>2, <2>3, TypedReturn DEF RoomNoLog, disk, memory
<1>5. CASE BuildGroup
  <2> DEFINE n == BuildBatchGroup
             updates == {[call |-> writers[i].call,
                          seq  |-> lastSequence + Cardinality(Batches(i))] :
                           i \in Batches(n)}
  <2>1. n \in 1..Len(writers)
    BY <1>0, GroupProperties
  <2>2. updates \in LogRecords
    BY <2>1, UpdatesProperties DEF DBImplAssumption, MemoryTyped
  <2>3. leader' = [pc |-> "log", count |-> n, updates |-> updates]
    BY <1>5 DEF BuildGroup
  <2> HIDE DEF updates
  <2>4. QueueTyped'
    <3>1. leader' \in Leaders
      <4> HIDE DEF n
      <4> QED
        BY <2>1, <2>2, <2>3 DEF Leaders
    <3> QED
      BY <1>5, <3>1 DEF BuildGroup, callers, QueueTyped, Callers, Leaders
  <2>5. FilesTyped' /\ MemoryTyped' /\ BgTyped'
    BY <1>5 DEF BuildGroup, disk, memory, bg, FilesTyped, MemoryTyped, BgTyped
  <2> QED
    BY <1>a, <1>5, <2>4, <2>5 DEF BuildGroup, disk, memory, bg, bounds
<1>6. CASE AddRecord
  <2>1. leader.pc = "log" /\ leader.updates \in LogRecords /\ leader.count \in 1..Len(writers)
    BY <1>6, LeaderTyped DEF AddRecord, Leading
  <2>2. FilesTyped'
    <3>1. logfile \in DOMAIN logs => Wrote(logs[logfile], leader.updates) \in FileOf(LogRecords)
      BY <2>1, WroteFile DEF FilesTyped
    <3> QED
      BY <1>6, <3>1, ExceptTyped DEF AddRecord, FilesTyped
  <2>3. leader' \in Leaders
    <3>1. \/ leader' = [pc |-> "sync", count |-> leader.count, updates |-> leader.updates]
          \/ leader' = [pc |-> "insert", count |-> leader.count, updates |-> leader.updates]
      BY <1>6, <2>1, LeaderTyped DEF AddRecord
    <3> QED
      BY <2>1, <3>1 DEF Leaders
  <2>4. QueueTyped' /\ MemoryTyped' /\ BgTyped'
    BY <1>6, <2>3 DEF AddRecord, memory, callers, bg, MemoryTyped, BgTyped, QueueTyped,
                    Callers, Leaders
  <2> QED
    BY <1>a, <1>6, <2>2, <2>4 DEF AddRecord, memory, bg, bounds
<1>7. CASE AddRecordFails
  <2>1. leader.pc = "log" /\ leader.updates \in LogRecords /\ leader.count \in 1..Len(writers)
    BY <1>7, LeaderTyped DEF AddRecordFails, Leading
  <2>2. Torn \in LogRecords
    BY DEF Torn, LogRecords, Bounded
  <2>3. FilesTyped'
    <3>1. logfile \in DOMAIN logs => Wrote(logs[logfile], Torn) \in FileOf(LogRecords)
      BY <2>2, WroteFile DEF FilesTyped
    <3> QED
      BY <1>7, <3>1, ExceptTyped DEF AddRecordFails, FilesTyped
  <2>4. Cardinality(leader.updates) \in Nat
    BY <2>1, RecordsAreFinite DEF DBImplAssumption
  <2>5. MemoryTyped'
    BY <1>7, <2>4 DEF AddRecordFails, MemoryTyped
  <2>6. Fault("append") /\ Return(leader.count, FALSE) /\ opens' = opens
    BY <1>7 DEF AddRecordFails
  <2>7. faults' \in Nat /\ opens' \in Nat
    BY <2>6 DEF Fault
  <2> QED
    BY <1>7, <1>a, <2>1, <2>3, <2>5, <2>6, <2>7, TypedReturn DEF AddRecordFails
<1>8. CASE SyncLog
  <2>1. leader.pc = "sync" /\ leader.updates \in LogRecords /\ leader.count \in 1..Len(writers)
    BY <1>8, LeaderTyped DEF SyncLog, Leading
  <2>2. FilesTyped'
    <3>1. logs' = [logs EXCEPT ![logfile] = Synced(logs[logfile])]
      BY <1>8 DEF SyncLog, Synced
    <3>2. logfile \in DOMAIN logs => Synced(logs[logfile]) \in FileOf(LogRecords)
      BY SyncedFile DEF FilesTyped
    <3> QED
      BY <1>8, <3>1, <3>2, ExceptTyped DEF SyncLog, FilesTyped
  <2>3. leader' \in Leaders
    <3>1. leader' = [pc |-> "insert", count |-> leader.count, updates |-> leader.updates]
      BY <1>8, <2>1, LeaderTyped DEF SyncLog
    <3> QED
      BY <2>1, <3>1 DEF Leaders
  <2>4. QueueTyped' /\ MemoryTyped' /\ BgTyped'
    <3>1. UNCHANGED <<pc, memory, writers, bg, iterator, callers>>
      BY <1>8 DEF SyncLog
    <3>2. QueueTyped'
      BY <2>3, <3>1 DEF callers, QueueTyped, Callers, Leaders
    <3>3. MemoryTyped'
      BY <3>1 DEF memory, MemoryTyped
    <3>4. BgTyped'
      BY <3>1 DEF bg, BgTyped
    <3> QED
      BY <3>2, <3>3, <3>4
  <2> QED
    BY <1>a, <1>8, <2>2, <2>4 DEF SyncLog, memory, bg, bounds
<1>9. CASE SyncLogFails
  <2>1. leader.pc = "sync" /\ leader.updates \in LogRecords /\ leader.count \in 1..Len(writers)
    BY <1>9, LeaderTyped DEF SyncLogFails, Leading
  <2>2. Cardinality(leader.updates) \in Nat
    BY <2>1, RecordsAreFinite DEF DBImplAssumption
  <2>3. FilesTyped' /\ MemoryTyped'
    BY <1>9, <2>2 DEF SyncLogFails, disk, FilesTyped, MemoryTyped
  <2>4. Fault("sync") /\ Return(leader.count, FALSE) /\ opens' = opens
    BY <1>9 DEF SyncLogFails
  <2>5. faults' \in Nat /\ opens' \in Nat
    BY <2>4 DEF Fault
  <2> QED
    BY <1>9, <1>a, <2>1, <2>3, <2>4, <2>5, TypedReturn DEF SyncLogFails, disk
<1>10. CASE Insert
  <2>1. leader.pc = "insert" /\ leader.updates \in LogRecords /\ leader.count \in 1..Len(writers)
    BY <1>10, LeaderTyped DEF Insert, Leading
  <2>2. Cardinality(leader.updates) \in Nat
    BY <2>1, RecordsAreFinite DEF DBImplAssumption
  <2>3. FilesTyped'
    BY <1>10 DEF Insert, disk, FilesTyped
  <2>4. MemoryTyped'
    <3>1. /\ UNCHANGED <<pc, replay, imm, logfile, nextFile, version, logNumber, manifest,
                          pending, bgError, deleting, iterator>>
          /\ mem' = mem \union leader.updates
          /\ lastSequence' = lastSequence + Cardinality(leader.updates)
      BY <1>10 DEF Insert
    <3>2. mem' \subseteq Entries /\ lastSequence' \in Nat
      BY <2>1, <2>2, <3>1 DEF MemoryTyped, LogRecords
    <3> QED
      BY <3>1, <3>2 DEF MemoryTyped
  <2> QED
    BY <1>10, <1>a, <2>1, <2>3, <2>4, TypedReturn DEF Insert, disk, bounds
<1> QED
  BY <1>1, <1>2, <1>3, <1>4, <1>5, <1>6, <1>7, <1>8, <1>9, <1>10 DEF Writer

\* Nobody joins or leaves the queue when bg_cv_ is signalled.
LEMMA WakeAllTyped ==
  ASSUME QueueTyped, writers' = WakeAll(writers), leader' = leader, callers' = callers
  PROVE  QueueTyped'
<1>1. WakeHead(writers) \in Seq(Callers) /\ Len(WakeHead(writers)) = Len(writers)
  BY WakeHeadKeeps DEF QueueTyped, Callers
<1>2. Callers' = Callers /\ Leaders' = Leaders
  BY <1>1 DEF Callers, Leaders, callers, WakeAll
<1> QED
  BY <1>1, <1>2 DEF QueueTyped, WakeAll, callers

\* An edit that LogAndApply writes is typed.
LEMMA AppendEditTyped ==
  ASSUME FilesTyped, MemoryTyped, NEW added \in SUBSET Nat, NEW deleted \in SUBSET Nat,
         NEW log \in Nat, AppendEdit(added, deleted, log)
  PROVE  \A n \in DOMAIN manifests' : n \in Nat /\ manifests'[n] \in FileOf(EditRecords)
<1> DEFINE edit == [added |-> added, deleted |-> deleted, log |-> log,
                    next |-> nextFile, last |-> lastSequence]
<1>1. edit \in Edits
  BY DEF Edits, MemoryTyped
<1>2. {edit} \in EditRecords
  BY <1>1 DEF EditRecords
<1>3. manifests' = [manifests EXCEPT ![manifest] = Wrote(manifests[manifest], {edit})]
  BY DEF AppendEdit
<1> HIDE DEF edit
<1>4. manifest \in DOMAIN manifests => Wrote(manifests[manifest], {edit}) \in FileOf(EditRecords)
  BY <1>2, WroteFile DEF FilesTyped
<1> QED
  BY <1>3, <1>4, ExceptTyped DEF FilesTyped

LEMMA EditFailsTyped ==
  ASSUME FilesTyped, faults \in Nat, EditFails
  PROVE  /\ \A n \in DOMAIN manifests' : n \in Nat /\ manifests'[n] \in FileOf(EditRecords)
         /\ DOMAIN manifests' = DOMAIN manifests
         /\ faults' \in Nat
<1>1. faults' \in Nat
  BY DEF EditFails, Fault
<1>2. manifest \in DOMAIN manifests => Wrote(manifests[manifest], Torn) \in FileOf(EditRecords)
  BY WroteFile DEF FilesTyped, EditRecords
<1>3. CASE manifests' = manifests
  BY <1>1, <1>3 DEF FilesTyped
<1>4. CASE manifests' = [manifests EXCEPT ![manifest] = Wrote(manifests[manifest], Torn)]
  BY <1>1, <1>2, <1>4, ExceptTyped DEF FilesTyped
<1> QED
  BY <1>3, <1>4 DEF EditFails

LEMMA SyncedManifestTyped ==
  ASSUME FilesTyped, manifests' = [manifests EXCEPT ![manifest] = Synced(manifests[manifest])]
  PROVE  /\ \A n \in DOMAIN manifests' : n \in Nat /\ manifests'[n] \in FileOf(EditRecords)
         /\ DOMAIN manifests' = DOMAIN manifests
<1>1. manifest \in DOMAIN manifests => Synced(manifests[manifest]) \in FileOf(EditRecords)
  BY SyncedFile DEF FilesTyped
<1> QED
  BY <1>1, ExceptTyped DEF FilesTyped

\* The steps of the background thread.
LEMMA TypedBackground ==
  ASSUME DBImplAssumption, Typed, InUse, ~ deleting, Background
  PROVE  Typed'
<1> USE DEF Typed
<1>0. imm # {} \/ compact # NoCompaction
  BY DEF Background, FlushStart, FlushBuild, FlushBuildFails, FlushLog, FlushLogFails,
         FlushInstall, CompactOutput, CompactFinish, CompactFails, CompactLog,
         CompactInstall, Flushing, Compacting, NoCompaction
<1>a. pc = "open"
  BY <1>0 DEF Idle
<1>1. CASE FlushStart
  <2>1. FilesTyped'
    BY <1>1 DEF FlushStart, disk, FilesTyped
  <2>3. MemoryTyped'
    <3>1. nextFile' \in Nat /\ pending' \subseteq Nat
      BY <1>1 DEF FlushStart, MemoryTyped, NextNumber
    <3> QED
      BY <1>1, <3>1 DEF FlushStart, MemoryTyped
  <2>2. QueueTyped' /\ BgTyped'
    BY <1>1 DEF FlushStart, queue, callers, QueueTyped, BgTyped, MemoryTyped, Callers, Leaders
  <2> QED
    BY <1>a, <1>1, <2>1, <2>2, <2>3 DEF FlushStart, disk, bounds
<1>2. CASE FlushBuild
  <2>1. FilesTyped'
    <3>1. CASE UNION imm = {}
      BY <1>2, <3>1 DEF FlushBuild, FilesTyped
    <3>2. CASE UNION imm # {}
      <4>1. TableOf(UNION imm) \in TableFiles
        BY DEF MemoryTyped, TableOf, TableFiles
      <4> QED
        BY <1>2, <3>2, <4>1, PutTyped DEF FlushBuild, FilesTyped, BgTyped
    <3> QED
      BY <3>1, <3>2
  <2>2. MemoryTyped' /\ QueueTyped' /\ BgTyped'
    BY <1>2 DEF FlushBuild, Flushing, queue, callers, MemoryTyped, QueueTyped, BgTyped,
                Callers, Leaders
  <2> QED
    BY <1>a, <1>2, <2>1, <2>2 DEF FlushBuild, Flushing, bounds
<1>3. CASE FlushBuildFails
  <2>1. FilesTyped' /\ MemoryTyped'
    BY <1>3 DEF FlushBuildFails, BackgroundError, disk, FilesTyped, MemoryTyped
  <2>2. QueueTyped'
    BY <1>3, WakeAllTyped DEF FlushBuildFails, BackgroundError
  <2>3. BgTyped'
    BY <1>3 DEF FlushBuildFails, BgTyped, NoFlush
  <2>4. faults' \in Nat
    BY <1>3 DEF FlushBuildFails, Fault
  <2> QED
    BY <1>a, <1>3, <2>1, <2>2, <2>3, <2>4 DEF FlushBuildFails, NoFlush, disk
<1>4. CASE FlushLog
  <2>1. FilesTyped'
    <3>1. FlushedFile \in SUBSET Nat /\ logfile \in Nat /\ {} \in SUBSET Nat
      BY DEF FlushedFile, BgTyped, MemoryTyped
    <3>2. \A n \in DOMAIN manifests' : n \in Nat /\ manifests'[n] \in FileOf(EditRecords)
      BY <1>4, <3>1, AppendEditTyped DEF FlushLog
    <3>3. DOMAIN manifests' = DOMAIN manifests
      BY <1>4 DEF FlushLog, AppendEdit
    <3> QED
      BY <1>4, <3>2, <3>3 DEF FlushLog, FilesTyped
  <2>2. MemoryTyped' /\ QueueTyped'
    BY <1>4 DEF FlushLog, memory, queue, callers, MemoryTyped, QueueTyped, Callers, Leaders
  <2>3. BgTyped'
    BY <1>4 DEF FlushLog, Flushing, BgTyped
  <2> QED
    BY <1>a, <1>4, <2>1, <2>2, <2>3 DEF FlushLog, Flushing, memory, bounds
<1>5. CASE FlushLogFails
  <2>1. FilesTyped' /\ faults' \in Nat
    <3>1. EditFails
      BY <1>5 DEF FlushLogFails
    <3> QED
      BY <1>5, <3>1, EditFailsTyped DEF FlushLogFails, FilesTyped
  <2>2. MemoryTyped'
    BY <1>5 DEF FlushLogFails, BackgroundError, MemoryTyped
  <2>3. QueueTyped'
    BY <1>5, WakeAllTyped DEF FlushLogFails, BackgroundError
  <2>4. BgTyped'
    BY <1>5 DEF FlushLogFails, BgTyped, NoFlush
  <2> QED
    BY <1>a, <1>5, <2>1, <2>2, <2>3, <2>4 DEF FlushLogFails, NoFlush
<1>6. CASE FlushInstall
  <2>1. FilesTyped'
    BY <1>6, SyncedManifestTyped DEF FlushInstall, FilesTyped
  <2>2. MemoryTyped'
    BY <1>6 DEF FlushInstall, MemoryTyped, FlushedFile, BgTyped
  <2>3. QueueTyped'
    BY <1>6, WakeAllTyped DEF FlushInstall
  <2>4. BgTyped'
    BY <1>6 DEF FlushInstall, BgTyped, NoFlush
  <2> QED
    BY <1>a, <1>6, <2>1, <2>2, <2>3, <2>4 DEF FlushInstall, NoFlush, bounds
<1>7. CASE CompactOutput
  <2>1. FilesTyped'
    <3>1. TableOfUnsynced({}) \in TableFiles
      BY DEF TableOfUnsynced, TableFiles
    <3> QED
      BY <1>7, <3>1, PutTyped DEF CompactOutput, FilesTyped, MemoryTyped
  <2>2. MemoryTyped'
    <3>1. nextFile' \in Nat /\ pending' \subseteq Nat
      BY <1>7 DEF CompactOutput, MemoryTyped, NextNumber
    <3> QED
      BY <1>7, <3>1 DEF CompactOutput, MemoryTyped
  <2>4. QueueTyped'
    BY <1>7 DEF CompactOutput, queue, callers, QueueTyped, Callers, Leaders
  <2>3. BgTyped'
    BY <1>7 DEF CompactOutput, Compacting, BgTyped, MemoryTyped
  <2> QED
    BY <1>a, <1>7, <2>1, <2>2, <2>3, <2>4 DEF CompactOutput, bounds
<1>8. CASE CompactFinish
  <2> DEFINE merged == UNION {tables[t].entries : t \in compact.inputs}
  <2>1. FilesTyped'
    <3>1. TableOf(merged) \in TableFiles
      <4>1. \A t \in compact.inputs : t \in DOMAIN tables
        BY DEF InUse, BgTyped
      <4>2. merged \subseteq Entries
        BY <4>1 DEF FilesTyped, TableFiles
      <4> QED
        BY <4>2 DEF TableOf, TableFiles
    <3>2. tables' = tables \/ tables' = [tables EXCEPT ![compact.number] = TableOf(merged)]
      BY <1>8 DEF CompactFinish
    <3>3. \A n \in DOMAIN tables' : n \in Nat /\ tables'[n] \in TableFiles
      BY <3>1, <3>2, ExceptTyped DEF FilesTyped
    <3> QED
      BY <1>8, <3>3 DEF CompactFinish, FilesTyped
  <2>2. MemoryTyped' /\ QueueTyped'
    BY <1>8 DEF CompactFinish, memory, queue, callers, MemoryTyped, QueueTyped, Callers, Leaders
  <2>3. BgTyped'
    BY <1>8 DEF CompactFinish, Compacting, BgTyped
  <2> QED
    BY <1>a, <1>8, <2>1, <2>2, <2>3 DEF CompactFinish, memory, bounds
<1>9. CASE CompactFails
  <2>1. FilesTyped' /\ faults' \in Nat
    <3>1. CASE Fault("table") /\ manifests' = manifests
      BY <1>9, <3>1 DEF CompactFails, Fault, FilesTyped
    <3>2. CASE EditFails
      BY <1>9, <3>2, EditFailsTyped DEF CompactFails, FilesTyped
    <3> QED
      BY <1>9, <3>1, <3>2 DEF CompactFails
  <2>2. MemoryTyped'
    BY <1>9 DEF CompactFails, BackgroundError, MemoryTyped
  <2>3. QueueTyped'
    BY <1>9, WakeAllTyped DEF CompactFails, BackgroundError
  <2>4. BgTyped'
    BY <1>9 DEF CompactFails, BgTyped, NoCompaction
  <2> QED
    BY <1>a, <1>9, <2>1, <2>2, <2>3, <2>4 DEF CompactFails
<1>10. CASE CompactLog
  <2>1. FilesTyped'
    <3>1. {compact.number} \in SUBSET Nat /\ compact.inputs \in SUBSET Nat /\ logNumber \in Nat
      BY DEF BgTyped, MemoryTyped
    <3>2. \A n \in DOMAIN manifests' : n \in Nat /\ manifests'[n] \in FileOf(EditRecords)
      BY <1>10, <3>1, AppendEditTyped DEF CompactLog, LogOfCompaction
    <3>3. DOMAIN manifests' = DOMAIN manifests
      BY <1>10 DEF CompactLog, AppendEdit
    <3> QED
      BY <1>10, <3>2, <3>3 DEF CompactLog, FilesTyped
  <2>2. MemoryTyped' /\ QueueTyped'
    BY <1>10 DEF CompactLog, memory, queue, callers, MemoryTyped, QueueTyped, Callers, Leaders
  <2>3. BgTyped'
    BY <1>10 DEF CompactLog, Compacting, BgTyped
  <2> QED
    BY <1>a, <1>10, <2>1, <2>2, <2>3 DEF CompactLog, memory, bounds
<1>11. CASE CompactInstall
  <2>1. FilesTyped'
    BY <1>11, SyncedManifestTyped DEF CompactInstall, FilesTyped
  <2>2. MemoryTyped'
    BY <1>11 DEF CompactInstall, MemoryTyped, BgTyped
  <2>3. QueueTyped'
    BY <1>11, WakeAllTyped DEF CompactInstall
  <2>4. BgTyped'
    BY <1>11 DEF CompactInstall, BgTyped, NoCompaction
  <2> QED
    BY <1>a, <1>11, <2>1, <2>2, <2>3, <2>4 DEF CompactInstall, bounds
<1> QED
  BY <1>1, <1>2, <1>3, <1>4, <1>5, <1>6, <1>7, <1>8, <1>9, <1>10, <1>11 DEF Background

\* DeleteObsoleteFiles, and the ends of a process.
LEMMA DeleteTyped ==
  ASSUME FilesTyped, NEW l, NEW t, NEW m, Delete(l, t, m), current \notin m, current' = current
  PROVE  FilesTyped'
<1>1. \A n \in DOMAIN logs' : n \in Nat /\ logs'[n] \in FileOf(LogRecords)
  BY WithoutTyped DEF Delete, FilesTyped
<1>2. \A n \in DOMAIN tables' : n \in Nat /\ tables'[n] \in TableFiles
  BY WithoutTyped DEF Delete, FilesTyped
<1>3. \A n \in DOMAIN manifests' : n \in Nat /\ manifests'[n] \in FileOf(EditRecords)
  BY WithoutTyped DEF Delete, FilesTyped
<1> QED
  BY <1>1, <1>2, <1>3 DEF FilesTyped, Delete, Without

LEMMA TypedStep ==
  ASSUME DBImplAssumption, Typed, InUse, [Next]_vars
  PROVE  Typed'
<1> USE DEF Typed
<1>0. deleting => pc = "open" /\ current \notin ObsoleteManifests
  BY DEF Idle, ObsoleteManifests, FilesTyped, MemoryTyped
<1>1. CASE DeleteObsoleteFiles
  <2>1. FilesTyped'
    BY <1>0, <1>1, DeleteTyped DEF DeleteObsoleteFiles
  <2>2. MemoryTyped'
    BY <1>1 DEF DeleteObsoleteFiles, MemoryTyped
  <2>3. QueueTyped' /\ BgTyped'
    BY <1>1 DEF DeleteObsoleteFiles, QueueTyped, BgTyped, queue, bg, callers, Callers, Leaders
  <2> QED
    BY <1>0, <1>1, <2>1, <2>2, <2>3 DEF DeleteObsoleteFiles, bg, bounds
<1>2. CASE Kill
  <2>1. FilesTyped'
    <3>1. CASE UNCHANGED <<logs, tables, manifests>>
      BY <1>2, <3>1 DEF Kill, FilesTyped
    <3>2. CASE deleting /\ \E l \in SUBSET ObsoleteLogs, t \in SUBSET ObsoleteTables,
                             m \in SUBSET ObsoleteManifests : Delete(l, t, m)
      BY <1>0, <1>2, <3>2, DeleteTyped DEF Kill
    <3> QED
      BY <1>2, <3>1, <3>2 DEF Kill
  <2> QED
    BY <1>2, <2>1, ForgetTyped DEF Kill, callers, bounds
<1>3. CASE PowerLoss
  <2>1. FilesTyped'
    <3>1. PICK f \in Lengths(logs) : logs' = Surviving(logs, f)
      BY <1>3 DEF PowerLoss
    <3>2. PICK g \in Lengths(manifests) : manifests' = Surviving(manifests, g)
      BY <1>3 DEF PowerLoss
    <3>3. \A n \in DOMAIN logs' : n \in Nat /\ logs'[n] \in FileOf(LogRecords)
      BY <3>1, SurvivingTyped DEF FilesTyped
    <3>4. \A n \in DOMAIN manifests' : n \in Nat /\ manifests'[n] \in FileOf(EditRecords)
      BY <3>2, SurvivingTyped DEF FilesTyped
    <3>5. \A n \in DOMAIN tables' : n \in Nat /\ tables'[n] \in TableFiles
      BY <1>3, WithoutTyped DEF PowerLoss, FilesTyped
    <3>6. current' \in {0} \union DOMAIN manifests'
      BY <1>3, <3>2 DEF PowerLoss, FilesTyped, Surviving
    <3> QED
      BY <3>3, <3>4, <3>5, <3>6 DEF FilesTyped
  <2> QED
    BY <1>3, <2>1, ForgetTyped DEF PowerLoss, bounds
<1>4. CASE ~ deleting /\ Open
  BY <1>4, TypedOpen
<1>5. CASE ~ deleting /\ \E kind \in CallKinds : Enqueue(kind)
  <2>1. PICK kind \in CallKinds : Enqueue(kind)
    BY <1>5
  <2> DEFINE call == [call |-> calls + 1, kind |-> kind, awake |-> writers = << >>]
  <2>2. writers \in Seq(Callers') /\ call \in Callers'
    <3>1. \A i \in 1..Len(writers) : writers[i] \in Callers'
      BY <2>1, HeadOfQueue, EmptySeq DEF Enqueue, Callers, QueueTyped
    <3>2. writers \in Seq(Callers')
      BY <3>1, IsASeq DEF QueueTyped
    <3>3. calls + 1 \in 1..calls'
      BY <2>1 DEF Enqueue, QueueTyped
    <3> QED
      BY <2>1, <3>2, <3>3 DEF Enqueue, Callers
  <2>3. writers' \in Seq(Callers') /\ Len(writers') = Len(writers) + 1
    BY <2>1, <2>2, AppendProperties DEF Enqueue
  <2>4. leader' \in Leaders'
    BY <2>1, <2>3 DEF Enqueue, Leaders, QueueTyped
  <2>5. QueueTyped'
    BY <2>1, <2>3, <2>4 DEF Enqueue, QueueTyped, DBImplAssumption
  <2>6. FilesTyped' /\ MemoryTyped' /\ BgTyped'
    BY <2>1 DEF Enqueue, disk, memory, bg, FilesTyped, MemoryTyped, BgTyped
  <2> QED
    BY <2>1, <2>5, <2>6 DEF Enqueue, disk, memory, bg, bounds
<1>6. CASE ~ deleting /\ Writer
  BY <1>6, TypedWriter
<1>7. CASE ~ deleting /\ Background
  BY <1>7, TypedBackground
<1>8. CASE \E inputs \in SUBSET version : CompactStart(inputs)
  <2>1. PICK inputs \in SUBSET version : CompactStart(inputs)
    BY <1>8
  <2>2. BgTyped'
    BY <2>1 DEF CompactStart, BgTyped, MemoryTyped
  <2>3. FilesTyped' /\ MemoryTyped' /\ QueueTyped'
    BY <2>1 DEF CompactStart, disk, memory, queue, callers, FilesTyped, MemoryTyped,
                QueueTyped, Callers, Leaders
  <2> QED
    BY <2>1, <2>2, <2>3 DEF CompactStart, disk, memory, bounds
<1>9. CASE NewIterator \/ DeleteIterator
  <2>1. MemoryTyped'
    <3>1. UNCHANGED <<pc, memory>> /\ iterator' \in {{version}, {}}
      BY <1>9 DEF NewIterator, DeleteIterator
    <3> QED
      BY <3>1 DEF memory, MemoryTyped
  <2>2. FilesTyped' /\ QueueTyped' /\ BgTyped'
    BY <1>9 DEF NewIterator, DeleteIterator, disk, queue, bg, callers, FilesTyped, QueueTyped,
                BgTyped, Callers, Leaders
  <2> QED
    BY <1>9, <2>1, <2>2 DEF NewIterator, DeleteIterator, disk, memory, queue, bg, bounds, Idle
<1>10. CASE UNCHANGED vars
  <2>1. UNCHANGED <<disk, pc, memory, queue, bg, iterator, callers, bounds>>
    BY <1>10 DEF vars
  <2>2. FilesTyped'
    BY <2>1 DEF disk, FilesTyped
  <2>3. MemoryTyped'
    BY <2>1 DEF memory, MemoryTyped
  <2>4. QueueTyped' /\ BgTyped'
    BY <2>1 DEF queue, bg, callers, QueueTyped, BgTyped, Callers, Leaders
  <2>5. pc' # "open" => Idle'
    BY <2>1 DEF memory, queue, bg, Idle
  <2> QED
    BY <2>1, <2>2, <2>3, <2>4, <2>5 DEF disk, memory, bg, bounds, LogsFrom
<1> QED
  BY <1>1, <1>2, <1>3, <1>4, <1>5, <1>6, <1>7, <1>8, <1>9, <1>10 DEF Next

-----------------------------------------------------------------------------
(* Nothing that is in use is deleted *)

LEMMA InUseInit == Init => InUse
BY DEF Init, InUse, NoFlush, NoCompaction

LEMMA InUseForget == Forget => InUse'
BY DEF Forget, InUse, NoFlush, NoCompaction

LEMMA InUseStep ==
  ASSUME DBImplAssumption, Typed, InUse, [Next]_vars
  PROVE  InUse'
<1> USE DEF InUse
<1>0. nextFile \in Nat /\ flush.number \in Nat /\ compact.number \in Nat
  BY DEF Typed, MemoryTyped, BgTyped
<1>1. CASE DeleteObsoleteFiles
  <2>1. /\ UNCHANGED <<version, compact, flush, iterator, nextFile, imm, pending>>
        /\ ~ deleting'
        /\ DOMAIN tables' = DOMAIN tables \ ObsoleteTables
    BY <1>1 DEF DeleteObsoleteFiles, Delete, Without, bg
  <2>2. flush = NoFlush
    BY <1>1 DEF DeleteObsoleteFiles
  <2>3. DOMAIN tables' = DOMAIN tables \intersect Used
    BY <2>1 DEF ObsoleteTables
  <2> QED
    <3> HIDE DEF InUse
    <3>0. \A v \in iterator : v \subseteq UNION iterator
      OBVIOUS
    <3>1. /\ version \subseteq Used /\ compact.version \subseteq Used
          /\ \A v \in iterator : v \subseteq Used
      BY <3>0 DEF Used
    <3>2. pending \subseteq Used
      BY DEF Used
    <3>3. \A v \in iterator : v \subseteq DOMAIN tables'
      BY <2>3, <3>1 DEF InUse
    <3>4. version \subseteq DOMAIN tables' /\ compact.version \subseteq DOMAIN tables'
      BY <2>3, <3>1 DEF InUse
    <3>5. compact.number \in pending \intersect DOMAIN tables => compact.number \in DOMAIN tables'
      BY <2>3, <3>2
    <3> QED
      BY <2>1, <2>2, <3>3, <3>4, <3>5 DEF InUse, NoFlush
<1>2. CASE Kill \/ PowerLoss \/ OpenFails
  BY <1>2, InUseForget DEF Kill, PowerLoss, OpenFails
<1>3. ASSUME ~ deleting, Open, ~ OpenFails PROVE InUse'
  <2>0. (flush = NoFlush /\ compact = NoCompaction /\ iterator = {}) \/ pc = "open"
    BY DEF Typed, Idle
  <2>1. flush = NoFlush /\ compact = NoCompaction /\ iterator = {}
    BY <1>3, <2>0 DEF Open, NewDB, Recover, ReplayRecord, ReplayEnd, Replaying, OpenLog, OpenManifest,
       OpenInstall
  <2>2. flush' = NoFlush /\ compact' = NoCompaction /\ iterator' = {}
    BY <1>3, <2>1 DEF Open, NewDB, Recover, ReplayRecord, ReplayEnd, OpenLog, OpenManifest,
       OpenInstall, bg
  <2>3. version' \subseteq DOMAIN tables'
    <3>1. CASE version' = version /\ tables' = tables
      BY <3>1
    <3>2. CASE Recover
      BY <3>2 DEF Recover, disk
    <3>3. CASE \E entries : WriteLevel0Table(entries)
      BY <3>3 DEF WriteLevel0Table, Put
    <3> QED
      BY <1>3, <3>1, <3>2, <3>3 DEF Open, NewDB, ReplayRecord, ReplayEnd, OpenLog, OpenManifest,
         OpenInstall, memory
  <2>4. nextFile' > 0
    <3>1. CASE nextFile' = nextFile \/ nextFile' = nextFile + 1
      BY <1>0, <3>1
    <3>2. CASE Recover
      BY <3>2, LastEditTyped DEF Recover, Typed, FilesTyped, Edits
    <3>3. ASSUME NEW n \in DOMAIN logs, ReplayEnd(n) PROVE nextFile' > 0
      <4>1. n \in Nat
        BY DEF Typed, FilesTyped
      <4> QED
        BY <1>0, <3>3, <4>1, MaximumOfTwo DEF ReplayEnd
    <3> QED
      BY <1>3, <3>1, <3>2, <3>3 DEF Open, NewDB, ReplayRecord, OpenLog, OpenManifest,
         OpenInstall, memory, NextNumber
  <2> QED
    BY <2>2, <2>3, <2>4 DEF NoFlush, NoCompaction
<1>4. ASSUME NEW kind \in CallKinds, Enqueue(kind) PROVE InUse'
  BY <1>4 DEF Enqueue, disk, memory, bg
<1>5. CASE Writer
  <2>1. UNCHANGED <<tables, version, iterator, deleting, pending, bg>>
    BY <1>5 DEF Writer, RoomError, RoomWait, RoomSwitch, RoomNoLog, ForceDone, BuildGroup,
       AddRecord, AddRecordFails, SyncLog, SyncLogFails, Insert, disk, memory
  <2>2. \/ nextFile' = nextFile /\ imm' = imm
        \/ nextFile' = nextFile + 1 /\ imm = {}
    BY <1>5 DEF Writer, RoomError, RoomWait, RoomSwitch, RoomNoLog, ForceDone, BuildGroup,
       AddRecord, AddRecordFails, SyncLog, SyncLogFails, Insert, memory, NextNumber
  <2>3. imm = {} => flush.pc = "none"
    BY DEF Typed
  <2> QED
    BY <1>0, <2>1, <2>2, <2>3 DEF bg
<1>6. ASSUME ~ deleting, Background PROVE InUse'
  <2>1. CASE FlushStart
    BY <1>0, <1>6, <2>1 DEF FlushStart, disk, NextNumber, NoFlush
  <2>2. CASE FlushBuild
    BY <1>0, <1>6, <2>2 DEF FlushBuild, Flushing, Put
  <2>3. CASE FlushBuildFails
    BY <1>0, <1>6, <2>3 DEF FlushBuildFails, Flushing, disk, NoFlush
  <2>4. CASE FlushLog \/ FlushLogFails
    <3>1. UNCHANGED <<version, compact, iterator, nextFile, imm, pending, deleting, tables>>
      BY <2>4 DEF FlushLog, FlushLogFails, memory
    <3>2. flush' = NoFlush \/ (flush'.pc = "sync" /\ flush'.number = flush.number)
      <4>1. flush' = NoFlush \/ flush' = [flush EXCEPT !.pc = "sync"]
        BY <2>4 DEF FlushLog, FlushLogFails
      <4>2. flush \in [pc : {"none", "build", "log", "sync"}, number : Nat]
        BY DEF Typed, BgTyped
      <4> HIDE DEF InUse
      <4> QED
        BY <4>1, <4>2
    <3>3. flush.pc \in {"log", "sync"}
      BY <2>4 DEF FlushLog, FlushLogFails, Flushing
    <3> QED
      BY <1>6, <3>1, <3>2, <3>3 DEF NoFlush
  <2>5. CASE FlushInstall
    BY <1>0, <1>6, <2>5 DEF FlushInstall, Flushing, FlushedFile, NoFlush
  <2>6. CASE CompactOutput
    BY <1>0, <1>6, <2>6 DEF CompactOutput, Compacting, NextNumber, Put, NoFlush
  <2>7. CASE CompactFinish
    <3>1. DOMAIN tables' = DOMAIN tables /\ UNCHANGED <<version, iterator, nextFile, deleting, pending, flush, imm>>
      BY <2>7 DEF CompactFinish, memory
    <3>2. compact'.pc = "log" /\ compact'.number = compact.number /\ compact'.version = compact.version
          /\ compact.pc = "output"
      BY <2>7 DEF CompactFinish, Compacting, Typed, BgTyped
    <3> QED
      BY <3>1, <3>2
  <2>8. CASE CompactFails
    BY <1>0, <1>6, <2>8 DEF CompactFails, Compacting, NoFlush, NoCompaction
  <2>9. CASE CompactLog
    BY <1>0, <1>6, <2>9 DEF CompactLog, Compacting, memory, Typed, BgTyped
  <2>10. CASE CompactInstall
    BY <1>0, <1>6, <2>10 DEF CompactInstall, Compacting, NoFlush, NoCompaction, Typed, BgTyped
  <2> QED
    BY <1>6, <2>1, <2>2, <2>3, <2>4, <2>5, <2>6, <2>7, <2>8, <2>9, <2>10 DEF Background
<1>7. ASSUME NEW inputs \in SUBSET version, CompactStart(inputs) PROVE InUse'
  BY <1>0, <1>7 DEF CompactStart, disk, memory, NoFlush
<1>8. CASE NewIterator \/ DeleteIterator
  BY <1>8 DEF NewIterator, DeleteIterator, disk, memory, bg
<1>9. CASE UNCHANGED vars
  BY <1>9 DEF vars, disk, memory, bg
<1> QED
  BY <1>1, <1>2, <1>3, <1>4, <1>5, <1>6, <1>7, <1>8, <1>9 DEF Next

LEMMA AlwaysTyped ==
  ASSUME DBImplAssumption
  PROVE  Spec => [](Typed /\ InUse)
<1>1. Init => Typed /\ InUse
  BY TypedInit, InUseInit
<1>2. Typed /\ InUse /\ [Next]_vars => Typed' /\ InUse'
  BY TypedStep, InUseStep
<1> QED
  BY <1>1, <1>2, PTL DEF Spec

\* DeleteObsoleteFiles, whenever it runs and wherever it is interrupted, leaves
\* the tables that the current version, an iterator, a Get or a compaction
\* still reads, and the output that a compaction is writing.
THEOREM FilesInUseAlwaysExist == Spec => []FilesInUseExist
<1>1. Typed /\ InUse => FilesInUseExist
  BY DEF Typed, BgTyped, InUse, FilesInUseExist
<1> QED
  BY <1>1, AlwaysTyped, DBImplAssumption, PTL

-----------------------------------------------------------------------------
(* Records of a MANIFEST *)

LEMMA SeqOfEdits ==
  ASSUME NEW r \in Seq(EditRecords)
  PROVE  /\ [records |-> r, synced |-> 0] \in FileOf(EditRecords)
         /\ [records |-> r, synced |-> 0].records = r
         /\ Len(r) \in Nat /\ DOMAIN r = 1..Len(r)
         /\ \A i \in 1..Len(r) : r[i] \in EditRecords
<1>1. Len(r) \in Nat /\ DOMAIN r = 1..Len(r)
  BY LenProperties
<1>2. \A i \in 1..Len(r) : r[i] \in EditRecords
  BY ElementOfSeq
<1> QED
  BY <1>1, <1>2 DEF FileOf

LEMMA ReadableEdits ==
  ASSUME NEW r \in Seq(EditRecords)
  PROVE  /\ \A i \in Readable(r) : /\ i \in 1..Len(r) /\ r[i] = {Edit(r[i])}
                                   /\ Edit(r[i]) \in Edits
         /\ LastEdit(r) \in Edits /\ FilesOf(r) \subseteq Nat
         /\ Readable(r) # {} => /\ Max(Readable(r)) \in Readable(r)
                                /\ \A i \in Readable(r) : i <= Max(Readable(r))
<1> DEFINE f == [records |-> r, synced |-> 0]
<1>1. f \in FileOf(EditRecords) /\ f.records = r
  BY SeqOfEdits
<1> HIDE DEF f
<1> QED
  BY <1>1, ReadableRecords, LastEditTyped, FilesOfTyped, LastReadable

\* What is read depends on the readable records alone.
LEMMA SameReadable ==
  ASSUME NEW r, NEW s, Readable(s) = Readable(r), \A i \in Readable(r) : s[i] = r[i],
         Readable(r) # {} => Max(Readable(r)) \in Readable(r)
  PROVE  FilesOf(s) = FilesOf(r) /\ LastEdit(s) = LastEdit(r)
<1>1. FilesOf(s) \subseteq FilesOf(r)
  BY DEF FilesOf
<1>2. FilesOf(r) \subseteq FilesOf(s)
  BY DEF FilesOf
<1>3. LastEdit(s) = LastEdit(r)
  BY DEF LastEdit
<1> QED
  BY <1>1, <1>2, <1>3

\* No record is torn.
Whole(records) == \A i \in DOMAIN records : records[i] # Torn

LEMMA ReadableOfWhole ==
  ASSUME NEW r \in Seq(EditRecords), Whole(r)
  PROVE  Readable(r) = 1..Len(r)
<1>1. DOMAIN r = 1..Len(r) /\ Len(r) \in Nat
  BY LenProperties
<1>2. \A i \in 1..Len(r) : \A j \in 1..i : j \in DOMAIN r
  BY <1>1
<1> QED
  BY <1>1, <1>2 DEF Readable, Whole

\* LogAndApply appends an edit.
LEMMA AppendedEdit ==
  ASSUME NEW r \in Seq(EditRecords), NEW e \in Edits
  PROVE  LET s == Append(r, {e}) IN
         /\ s \in Seq(EditRecords) /\ Len(s) = Len(r) + 1
         /\ Whole(r) => /\ Whole(s) /\ LastEdit(s) = e
                        /\ FilesOf(s) = (FilesOf(r) \ e.deleted) \union e.added
         /\ ~ Whole(r) => /\ ~ Whole(s) /\ LastEdit(s) = LastEdit(r)
                          /\ FilesOf(s) = FilesOf(r)
<1> DEFINE s == Append(r, {e})
           n == Len(r)
<1>1. {e} \in EditRecords /\ {e} # Torn
  BY DEF EditRecords, Torn
<1>2. /\ s \in Seq(EditRecords) /\ n \in Nat /\ Len(s) = n + 1
      /\ \A i \in 1..n : s[i] = r[i]
      /\ s[n + 1] = {e}
      /\ DOMAIN s = 1..(n + 1) /\ DOMAIN r = 1..n
  BY <1>1, AppendProperties, LenProperties
<1> HIDE DEF s
<1>3. Edit(s[n + 1]) = e
  BY <1>2, EditOf
<1>4. CASE Whole(r)
  <2>1. Whole(s)
    BY <1>1, <1>2, <1>4 DEF Whole
  <2>2. Readable(s) = 1..(n + 1) /\ Readable(r) = 1..n
    BY <1>2, <1>4, <2>1, ReadableOfWhole
  <2>3. LastEdit(s) = e
    <3>1. n + 1 \in Readable(s)
      BY <1>2, <2>2
    <3>2. Max(Readable(s)) \in Readable(s) /\ n + 1 <= Max(Readable(s))
      BY <1>2, <3>1, ReadableEdits
    <3>3. Max(Readable(s)) = n + 1
      BY <1>2, <2>2, <3>2
    <3> QED
      BY <1>3, <3>1, <3>3 DEF LastEdit
  <2>4. FilesOf(s) \subseteq (FilesOf(r) \ e.deleted) \union e.added
    <3> SUFFICES ASSUME NEW f \in FilesOf(s), f \notin e.added
                 PROVE  f \in FilesOf(r) /\ f \notin e.deleted
      OBVIOUS
    <3>1. PICK i \in 1..(n + 1) : /\ f \in Edit(s[i]).added
                                  /\ \A j \in 1..(n + 1) : j > i => f \notin Edit(s[j]).deleted
      BY <2>2 DEF FilesOf
    <3>2. i \in 1..n
      <4>1. i # n + 1
        BY <1>3, <3>1
      <4> QED
        BY <1>2, <4>1
    <3>3. f \notin Edit(s[n + 1]).deleted
      <4>1. n + 1 \in 1..(n + 1) /\ n + 1 > i
        BY <1>2, <3>2
      <4> QED
        BY <3>1, <4>1
    <3>4. f \in Edit(r[i]).added /\ \A j \in 1..n : j > i => f \notin Edit(r[j]).deleted
      <4>1. \A j \in 1..n : j \in 1..(n + 1)
        BY <1>2
      <4> QED
        BY <1>2, <3>1, <3>2, <4>1
    <3> QED
      BY <1>3, <2>2, <3>2, <3>3, <3>4 DEF FilesOf
  <2>5. FilesOf(r) \ e.deleted \subseteq FilesOf(s)
    <3> SUFFICES ASSUME NEW f \in FilesOf(r), f \notin e.deleted PROVE f \in FilesOf(s)
      OBVIOUS
    <3>1. PICK i \in 1..n : /\ f \in Edit(r[i]).added
                            /\ \A j \in 1..n : j > i => f \notin Edit(r[j]).deleted
      BY <2>2 DEF FilesOf
    <3>2. i \in 1..(n + 1) /\ f \in Edit(s[i]).added
      BY <1>2, <3>1
    <3>3. ASSUME NEW j \in 1..(n + 1), j > i PROVE f \notin Edit(s[j]).deleted
      <4>1. j = n + 1 \/ j \in 1..n
        BY <1>2
      <4>2. CASE j = n + 1
        BY <1>3, <4>2
      <4>3. CASE j \in 1..n
        BY <1>2, <3>1, <3>3, <4>3
      <4> QED
        BY <4>1, <4>2, <4>3
    <3> QED
      BY <2>2, <3>2, <3>3 DEF FilesOf
  <2>6. e.added \subseteq FilesOf(s)
    <3> SUFFICES ASSUME NEW f \in e.added PROVE f \in FilesOf(s)
      OBVIOUS
    <3>1. n + 1 \in Readable(s) /\ \A j \in Readable(s) : ~ (j > n + 1)
      BY <1>2, <2>2
    <3> QED
      BY <1>3, <3>1 DEF FilesOf
  <2> QED
    BY <1>2, <1>4, <2>1, <2>3, <2>4, <2>5, <2>6 DEF s
<1>5. CASE ~ Whole(r)
  <2>1. PICK t \in 1..n : r[t] = Torn
    BY <1>2, <1>5 DEF Whole
  <2>2. ~ Whole(s)
    BY <1>2, <2>1 DEF Whole
  <2>3. Readable(s) = Readable(r)
    <3>1. \A i \in Readable(s) : i \in 1..n
      BY <1>2, <2>1 DEF Readable
    <3>2. \A i \in 1..n : \A j \in 1..i : j \in 1..n
      BY <1>2
    <3> QED
      BY <1>2, <3>1, <3>2 DEF Readable
  <2>4. \A i \in Readable(r) : s[i] = r[i]
    BY <1>2 DEF Readable
  <2>5. Readable(r) # {} => Max(Readable(r)) \in Readable(r)
    BY ReadableEdits
  <2> QED
    BY <1>2, <1>5, <2>2, <2>3, <2>4, <2>5, SameReadable DEF s
<1> QED
  BY <1>4, <1>5 DEF s

\* AddRecord fails.
LEMMA AppendedTorn ==
  ASSUME NEW r \in Seq(EditRecords)
  PROVE  LET s == Append(r, Torn) IN
         /\ s \in Seq(EditRecords) /\ Len(s) = Len(r) + 1
         /\ LastEdit(s) = LastEdit(r) /\ FilesOf(s) = FilesOf(r)
<1> DEFINE s == Append(r, Torn)
           n == Len(r)
<1>1. /\ s \in Seq(EditRecords) /\ n \in Nat /\ Len(s) = n + 1
      /\ \A i \in 1..n : s[i] = r[i]
      /\ s[n + 1] = Torn
      /\ DOMAIN s = 1..(n + 1) /\ DOMAIN r = 1..n
  BY AppendProperties, LenProperties DEF EditRecords
<1> HIDE DEF s
<1>2. Readable(s) = Readable(r)
  <2>1. \A i \in Readable(s) : i \in 1..n
    BY <1>1 DEF Readable
  <2>2. \A i \in 1..n : \A j \in 1..i : j \in 1..n
    BY <1>1
  <2> QED
    BY <1>1, <2>1, <2>2 DEF Readable
<1>3. \A i \in Readable(r) : s[i] = r[i]
  BY <1>1 DEF Readable
<1>4. Readable(r) # {} => Max(Readable(r)) \in Readable(r)
  BY ReadableEdits
<1> QED
  BY <1>1, <1>2, <1>3, <1>4, SameReadable DEF s

\* A MANIFEST with one record.
LEMMA OneEdit ==
  ASSUME NEW e \in Edits
  PROVE  LET s == <<{e}>> IN
         /\ s \in Seq(EditRecords) /\ Len(s) = 1 /\ Whole(s)
         /\ LastEdit(s) = e /\ FilesOf(s) = e.added
<1> DEFINE s == <<{e}>>
<1>1. {e} \in EditRecords /\ {e} # Torn
  BY DEF EditRecords, Torn
<1>2. s \in Seq(EditRecords) /\ Len(s) = 1 /\ s[1] = {e} /\ DOMAIN s = 1..1
  BY <1>1
<1> HIDE DEF s
<1>3. Whole(s) /\ Edit(s[1]) = e
  <2>1. Whole(s)
    BY <1>1, <1>2 DEF Whole
  <2>2. Edit(s[1]) = e
    BY <1>2, EditOf
  <2> QED
    BY <2>1, <2>2
<1>4. Readable(s) = 1..1
  BY <1>2, <1>3, ReadableOfWhole
<1>5. Max(Readable(s)) = 1
  <2>1. 1 \in Readable(s)
    BY <1>4
  <2>2. Max(Readable(s)) \in Readable(s)
    BY <1>2, <2>1, ReadableEdits
  <2> QED
    BY <1>4, <2>2
<1>6. LastEdit(s) = e
  BY <1>3, <1>4, <1>5 DEF LastEdit
<1>7. FilesOf(s) = e.added
  <2>1. 1 \in Readable(s) /\ \A i \in Readable(s) : i = 1
    BY <1>4
  <2>2. \A f \in FilesOf(s) : f \in e.added
    BY <1>3, <2>1 DEF FilesOf
  <2>3. \A f \in e.added : f \in FilesOf(s)
    BY <1>3, <2>1 DEF FilesOf
  <2> QED
    BY <2>2, <2>3
<1> QED
  BY <1>2, <1>3, <1>6, <1>7 DEF s

-----------------------------------------------------------------------------
(* What a crash leaves of a MANIFEST *)

\* The records that DB::Open may find in a MANIFEST, if there are any.
Recoverable(f) ==
  {SubSeq(f.records, 1, k) : k \in {j \in f.synced..Len(f.records) : j >= 1}}

LEMMA RecoverableRecords ==
  ASSUME NEW f \in FileOf(EditRecords)
  PROVE  /\ \A r \in Recoverable(f) : /\ r \in Seq(EditRecords) /\ Len(r) >= 1
                                      /\ r[1] = f.records[1] /\ Len(f.records) >= 1
         /\ Len(f.records) >= 1 => f.records \in Recoverable(f)
<1>1. /\ f.records \in Seq(EditRecords) /\ Len(f.records) \in Nat /\ f.synced \in Nat
      /\ f.synced <= Len(f.records)
  BY FileProperties
<1>2. ASSUME NEW r \in Recoverable(f)
      PROVE  /\ r \in Seq(EditRecords) /\ Len(r) >= 1
             /\ r[1] = f.records[1] /\ Len(f.records) >= 1
  <2>1. PICK k \in f.synced..Len(f.records) : k >= 1 /\ r = SubSeq(f.records, 1, k)
    BY DEF Recoverable
  <2>2. [records |-> r, synced |-> k] \in FileOf(EditRecords)
    BY <2>1, CutFile
  <2>3. r \in Seq(EditRecords)
    BY <2>2 DEF FileOf
  <2>4. Len(r) = k /\ \A i \in 1..k : r[i] = f.records[i]
    BY <2>1, CutFile
  <2>5. 1 \in 1..k
    BY <1>1, <2>1
  <2> QED
    BY <1>1, <2>1, <2>3, <2>4, <2>5
<1>3. ASSUME Len(f.records) >= 1 PROVE f.records \in Recoverable(f)
  <2>1. SubSeq(f.records, 1, Len(f.records)) = f.records
    BY <1>1, SubSeqFull
  <2>2. Len(f.records) \in f.synced..Len(f.records)
    BY <1>1
  <2> QED
    BY <1>3, <2>1, <2>2 DEF Recoverable
<1> QED
  BY <1>2, <1>3

LEMMA RecoverableWrote ==
  ASSUME NEW f \in FileOf(EditRecords), NEW x \in EditRecords
  PROVE  /\ Recoverable(Wrote(f, x)) \subseteq Recoverable(f) \union {Append(f.records, x)}
         /\ Wrote(f, x).records = Append(f.records, x)
<1>1. /\ f.records \in Seq(EditRecords) /\ Len(f.records) \in Nat /\ f.synced \in Nat
      /\ f.synced <= Len(f.records)
  BY FileProperties
<1> DEFINE g == Wrote(f, x)
           n == Len(f.records)
<1>2. /\ g \in FileOf(EditRecords) /\ g.synced = f.synced /\ Len(g.records) = n + 1
      /\ \A i \in 1..n : g.records[i] = f.records[i]
  BY WroteFile
<1>3. g.records = Append(f.records, x)
  BY FileProperties DEF Wrote
<1>4. g.records \in Seq(EditRecords)
  BY <1>2, FileProperties
<1> HIDE DEF g
<1>5. ASSUME NEW r \in Recoverable(g) PROVE r \in Recoverable(f) \/ r = g.records
  <2>1. PICK k \in f.synced..(n + 1) : k >= 1 /\ r = SubSeq(g.records, 1, k)
    BY <1>2 DEF Recoverable
  <2>2. CASE k = n + 1
    <3>1. SubSeq(g.records, 1, n + 1) = g.records
      BY <1>2, <1>4, SubSeqFull
    <3> QED
      BY <2>1, <2>2, <3>1
  <2>3. CASE k # n + 1
    <3>1. k \in f.synced..n /\ k \in g.synced..Len(g.records)
      BY <1>1, <1>2, <2>1, <2>3
    <3>2. Len(r) = k /\ \A i \in 1..k : r[i] = g.records[i]
      BY <1>2, <2>1, <3>1, CutFile
    <3>3. /\ Len(SubSeq(f.records, 1, k)) = k
          /\ \A i \in 1..k : SubSeq(f.records, 1, k)[i] = f.records[i]
      BY <3>1, CutFile
    <3>4. /\ r \in Seq(EditRecords)
          /\ SubSeq(f.records, 1, k) \in Seq(EditRecords)
      <4>1. [records |-> r, synced |-> k] \in FileOf(EditRecords)
        BY <1>2, <2>1, <3>1, CutFile
      <4>2. [records |-> SubSeq(f.records, 1, k), synced |-> k] \in FileOf(EditRecords)
        BY <3>1, CutFile
      <4> QED
        BY <4>1, <4>2 DEF FileOf
    <3>5. \A i \in 1..k : i \in 1..n
      BY <1>1, <3>1
    <3>6. r = SubSeq(f.records, 1, k)
      <4>1. \A i \in 1..k : r[i] = SubSeq(f.records, 1, k)[i]
        BY <1>2, <3>2, <3>3, <3>5
      <4> QED
        BY <3>2, <3>3, <3>4, <4>1, SeqEqual
    <3> QED
      BY <2>1, <3>1, <3>6 DEF Recoverable
  <2> QED
    BY <2>2, <2>3
<1> QED
  BY <1>3, <1>5 DEF g

LEMMA RecoverableSynced ==
  ASSUME NEW f \in FileOf(EditRecords), Len(f.records) >= 1
  PROVE  /\ \A r \in Recoverable(Synced(f)) : r = f.records
         /\ f.records \in Recoverable(f)
<1>1. /\ Synced(f).records = f.records /\ Synced(f).synced = Len(f.records)
      /\ f.records \in Seq(EditRecords) /\ Len(f.records) \in Nat
  BY SyncedFile, FileProperties
<1>2. SubSeq(f.records, 1, Len(f.records)) = f.records
  BY <1>1, SubSeqFull
<1>3. ASSUME NEW r \in Recoverable(Synced(f)) PROVE r = f.records
  <2>1. PICK k \in Len(f.records)..Len(f.records) : r = SubSeq(f.records, 1, k)
    BY <1>1 DEF Recoverable
  <2>2. k = Len(f.records)
    BY <1>1, <2>1
  <2> QED
    BY <1>2, <2>1, <2>2
<1> QED
  BY <1>3, RecoverableRecords

LEMMA RecoverableCut ==
  ASSUME NEW f \in FileOf(EditRecords), NEW k \in f.synced..Len(f.records)
  PROVE  LET g == [records |-> SubSeq(f.records, 1, k), synced |-> k] IN
         \A r \in Recoverable(g) : r \in Recoverable(f) /\ r = g.records
<1> DEFINE s == SubSeq(f.records, 1, k)
           g == [records |-> s, synced |-> k]
<1>1. g \in FileOf(EditRecords) /\ Len(s) = k /\ k \in Nat
  BY CutFile, FileProperties
<1>2. s \in Seq(EditRecords)
  BY <1>1 DEF FileOf
<1>3. SubSeq(s, 1, k) = s
  <2> HIDE DEF s
  <2> QED
    BY <1>1, <1>2, SubSeqFull
<1>4. ASSUME NEW r \in Recoverable(g) PROVE r \in Recoverable(f) /\ r = s
  <2>1. PICK j \in k..k : j >= 1 /\ r = SubSeq(s, 1, j)
    BY <1>1 DEF Recoverable
  <2>2. j = k /\ k >= 1
    BY <1>1, <2>1
  <2>3. r = s
    BY <1>3, <2>1, <2>2
  <2> QED
    BY <2>2, <2>3 DEF Recoverable
<1> QED
  BY <1>4

LEMMA RecoverableOne ==
  ASSUME NEW x \in EditRecords, NEW k \in {0, 1}
  PROVE  LET f == [records |-> <<x>>, synced |-> k] IN
         f \in FileOf(EditRecords) /\ Recoverable(f) = {<<x>>}
<1> DEFINE f == [records |-> <<x>>, synced |-> k]
<1>1. <<x>> \in Seq(EditRecords) /\ Len(<<x>>) = 1
  OBVIOUS
<1>2. f \in FileOf(EditRecords)
  BY <1>1 DEF FileOf
<1>3. SubSeq(<<x>>, 1, 1) = <<x>>
  BY <1>1, SubSeqFull
<1>4. {j \in k..1 : j >= 1} = {1}
  OBVIOUS
<1>5. Recoverable(f) = {<<x>>}
  <2>1. f.records = <<x>> /\ f.synced = k
    OBVIOUS
  <2> HIDE DEF f
  <2>2. Recoverable(f) = {SubSeq(<<x>>, 1, j) : j \in {i \in k..1 : i >= 1}}
    BY <1>1, <2>1 DEF Recoverable
  <2>3. {SubSeq(<<x>>, 1, j) : j \in {1}} = {SubSeq(<<x>>, 1, 1)}
    OBVIOUS
  <2> QED
    BY <1>3, <1>4, <2>2, <2>3
<1> QED
  BY <1>2, <1>5

-----------------------------------------------------------------------------
(* What DB::Open may find *)

Records == manifests[current].records

\* The records that VersionSet::Recover may find, whenever the process ends.
Found == IF current = 0 THEN {} ELSE Recoverable(manifests[current])

\* File numbers only count up, and the MANIFEST knows of all those in use.
ManifestSound ==
  \A r \in Found :
    /\ current < LastEdit(r).next /\ LastEdit(r).log < LastEdit(r).next
    /\ \A n \in FilesOf(r) : n < LastEdit(r).next
    /\ LastEdit(r).next <= LastEdit(Records).next
    /\ pc # "closed" => LastEdit(r).next <= nextFile

Numbers ==
  /\ pc # "closed" => /\ current # 0 /\ manifest < nextFile
                      /\ \A n \in version : n < nextFile
  /\ pc \in {"replay", "log", "manifest"} => manifest > current
  /\ pc = "replay" => replay.log <= nextFile
  /\ pc \in {"log", "manifest", "open"} =>
       /\ logfile < nextFile /\ logfile \in DOMAIN logs
       /\ \A n \in DOMAIN logs : n <= logfile
  /\ pc \in {"log", "manifest"} => logs[logfile].records = << >>
  /\ pc = "manifest" =>
       manifests[manifest] = [records |-> <<{WriteSnapshot}>>, synced |-> 1]
  /\ pc = "open" => /\ current > 1 /\ logNumber <= logfile
                    /\ imm = {} => logNumber = logfile
  /\ current = 0 => DOMAIN logs = {}
  /\ current > 1 => manifests[current].synced >= 1

\* A table that is being built is not in any version, nor in the MANIFEST.
Fresh(n) == n \notin version /\ \A r \in Found : n \notin FilesOf(r)

Merged == UNION {tables[t].entries : t \in compact.inputs}

Outputs ==
  /\ flush.pc = "build" => Fresh(flush.number)
  /\ flush.pc \in {"log", "sync"} /\ UNION imm # {} =>
       tables[flush.number] = TableOf(UNION imm)
  /\ compact.inputs \subseteq version
  /\ compact.pc = "output" => Fresh(compact.number)
  /\ compact.pc \in {"log", "sync"} => tables[compact.number] = TableOf(Merged)

Numbered == ManifestSound /\ Numbers /\ Outputs

LEMMA FoundTyped ==
  ASSUME FilesTyped
  PROVE  /\ \A r \in Found : /\ r \in Seq(EditRecords) /\ Len(r) >= 1
                             /\ LastEdit(r) \in Edits /\ FilesOf(r) \subseteq Nat
                             /\ Records \in Found
         /\ current # 0 => /\ current \in DOMAIN manifests
                           /\ manifests[current] \in FileOf(EditRecords)
                           /\ Records \in Seq(EditRecords)
                           /\ Len(Records) \in Nat
                           /\ Len(Records) >= 1 => Records \in Found
<1>1. CASE current = 0
  BY <1>1 DEF Found
<1>2. CASE current # 0
  <2>1. current \in DOMAIN manifests /\ manifests[current] \in FileOf(EditRecords)
    BY <1>2 DEF FilesTyped
  <2>2. Records \in Seq(EditRecords) /\ Len(Records) \in Nat
    BY <2>1, FileProperties DEF Records
  <2>3. Len(Records) >= 1 => Records \in Found
    BY <1>2, <2>1, RecoverableRecords DEF Records, Found
  <2>4. \A r \in Found : r \in Seq(EditRecords) /\ Len(r) >= 1 /\ Records \in Found
    BY <1>2, <2>1, RecoverableRecords DEF Records, Found
  <2> QED
    BY <1>2, <2>1, <2>2, <2>3, <2>4, ReadableEdits
<1> QED
  BY <1>1, <1>2

LEMMA FoundStays ==
  ASSUME current' = current, current # 0 => manifests'[current] = manifests[current]
  PROVE  Found' = Found /\ (current # 0 => Records' = Records)
BY DEF Found, Records

\* LogAndApply appends an edit to the MANIFEST that CURRENT names.
LEMMA FoundAfterEdit ==
  ASSUME FilesTyped, MemoryTyped, current = manifest, current # 0, current' = current,
         NEW added \in SUBSET Nat, NEW deleted \in SUBSET Nat,
         NEW log \in Nat, AppendEdit(added, deleted, log)
  PROVE  LET edit == [added |-> added, deleted |-> deleted, log |-> log,
                      next |-> nextFile, last |-> lastSequence] IN
         /\ \A r \in Found' : r \in Found \/ r = Records'
         /\ Whole(Records) => /\ Whole(Records') /\ LastEdit(Records') = edit
                              /\ FilesOf(Records') = (FilesOf(Records) \ deleted) \union added
         /\ ~ Whole(Records) => /\ ~ Whole(Records') /\ LastEdit(Records') = LastEdit(Records)
                                /\ FilesOf(Records') = FilesOf(Records)
         /\ manifests'[current].synced = manifests[current].synced
<1> DEFINE edit == [added |-> added, deleted |-> deleted, log |-> log,
                    next |-> nextFile, last |-> lastSequence]
           f == manifests[current]
<1>1. edit \in Edits /\ edit.added = added /\ edit.deleted = deleted
  BY DEF Edits, MemoryTyped
<1>2. manifests' = [manifests EXCEPT ![current] = Wrote(f, {edit})]
  BY DEF AppendEdit
<1> HIDE DEF edit
<1>3. {edit} \in EditRecords
  BY <1>1 DEF EditRecords
<1>4. f \in FileOf(EditRecords) /\ current \in DOMAIN manifests /\ Records \in Seq(EditRecords)
  BY FoundTyped
<1>5. manifests'[current] = Wrote(f, {edit})
  BY <1>2, <1>4
<1>6. Records' = Append(Records, {edit})
  BY <1>3, <1>4, <1>5, RecoverableWrote DEF Records
<1>7. Recoverable(Wrote(f, {edit})) \subseteq Recoverable(f) \union {Append(f.records, {edit})}
  BY <1>3, <1>4, RecoverableWrote
<1>8. \A r \in Found' : r \in Found \/ r = Records'
  BY <1>5, <1>6, <1>7 DEF Found, Records
<1>9. Wrote(f, {edit}).synced = f.synced
  BY <1>3, <1>4, WroteFile
<1> QED
  BY <1>1, <1>4, <1>5, <1>6, <1>8, <1>9, AppendedEdit DEF edit

\* AddRecord fails, or Sync does.
LEMMA FoundAfterFailure ==
  ASSUME FilesTyped, current = manifest, current # 0, current' = current, EditFails
  PROVE  /\ \A r \in Found' : r \in Found \/ r = Records'
         /\ LastEdit(Records') = LastEdit(Records) /\ FilesOf(Records') = FilesOf(Records)
         /\ "edit" \notin Faults => Records' = Records
         /\ manifests'[current].synced = manifests[current].synced
         /\ \A n \in DOMAIN manifests : n # current => manifests'[n] = manifests[n]
<1> DEFINE f == manifests[current]
<1>1. f \in FileOf(EditRecords) /\ current \in DOMAIN manifests /\ Records \in Seq(EditRecords)
  BY FoundTyped
<1>2. CASE manifests' = manifests
  BY <1>2 DEF Found, Records
<1>3. CASE Fault("edit") /\ manifests' = [manifests EXCEPT ![current] = Wrote(f, Torn)]
  <2>1. manifests'[current] = Wrote(f, Torn) /\ Torn \in EditRecords
    BY <1>1, <1>3 DEF EditRecords
  <2>2. Records' = Append(Records, Torn)
    BY <1>1, <2>1, RecoverableWrote DEF Records
  <2>3. Recoverable(Wrote(f, Torn)) \subseteq Recoverable(f) \union {Append(f.records, Torn)}
    BY <1>1, <2>1, RecoverableWrote
  <2>4. \A r \in Found' : r \in Found \/ r = Records'
    BY <2>1, <2>2, <2>3 DEF Found, Records
  <2>5. LastEdit(Records') = LastEdit(Records) /\ FilesOf(Records') = FilesOf(Records)
    BY <1>1, <2>2, AppendedTorn
  <2>6. Wrote(f, Torn).synced = f.synced
    BY <1>1, <2>1, WroteFile
  <2>7. "edit" \in Faults
    BY <1>3 DEF Fault
  <2>8. \A n \in DOMAIN manifests : n # current => manifests'[n] = manifests[n]
    BY <1>3
  <2> QED
    BY <2>1, <2>4, <2>5, <2>6, <2>7, <2>8
<1> QED
  BY <1>2, <1>3 DEF EditFails

\* The MANIFEST is synced.
LEMMA FoundAfterSync ==
  ASSUME FilesTyped, current = manifest, current # 0, current' = current,
         Len(Records) >= 1,
         manifests' = [manifests EXCEPT ![manifest] = Synced(manifests[manifest])]
  PROVE  /\ \A r \in Found' : r = Records
         /\ Records' = Records /\ Records \in Found
         /\ manifests'[current].synced = Len(Records)
<1> DEFINE f == manifests[current]
<1>1. f \in FileOf(EditRecords) /\ current \in DOMAIN manifests
  BY FoundTyped
<1>2. manifests'[current] = Synced(f)
  BY <1>1
<1>3. Synced(f).records = f.records /\ Synced(f).synced = Len(f.records)
  BY <1>1, SyncedFile
<1>4. \A r \in Recoverable(Synced(f)) : r = f.records
  BY <1>1, RecoverableSynced DEF Records
<1> QED
  BY <1>2, <1>3, <1>4, FoundTyped DEF Found, Records

\* The machine loses power.
LEMMA FoundAfterPowerLoss ==
  ASSUME FilesTyped, current' = current,
         NEW g \in Lengths(manifests), manifests' = Surviving(manifests, g)
  PROVE  /\ \A r \in Found' : r \in Found /\ r = Records'
         /\ current # 0 => manifests'[current].synced >= manifests[current].synced
<1>1. CASE current = 0
  BY <1>1 DEF Found
<1>2. CASE current # 0
  <2> DEFINE f == manifests[current]
             k == g[current]
  <2>1. f \in FileOf(EditRecords) /\ current \in DOMAIN manifests
    BY <1>2, FoundTyped
  <2>2. k \in f.synced..Len(f.records)
    BY <2>1 DEF Lengths
  <2>3. manifests'[current] = [records |-> SubSeq(f.records, 1, k), synced |-> k]
    BY <2>1 DEF Surviving
  <2>4. \A r \in Recoverable([records |-> SubSeq(f.records, 1, k), synced |-> k]) :
          r \in Recoverable(f) /\ r = SubSeq(f.records, 1, k)
    BY <2>1, <2>2, RecoverableCut
  <2>5. k >= f.synced
    BY <2>1, <2>2, FileProperties
  <2>0. manifests'[current].records = SubSeq(f.records, 1, k)
    <3> DEFINE cut == SubSeq(f.records, 1, k)
    <3>1. manifests'[current] = [records |-> cut, synced |-> k]
      BY <2>3
    <3> HIDE DEF cut
    <3>2. manifests'[current].records = cut
      BY <3>1
    <3> QED
      BY <3>2 DEF cut
  <2> HIDE DEF f, k
  <2>6. Found' = Recoverable([records |-> SubSeq(f.records, 1, k), synced |-> k])
    BY <1>2, <2>3 DEF Found
  <2>7. Found = Recoverable(f) /\ Records' = SubSeq(f.records, 1, k)
    <3>1. Found = Recoverable(f)
      BY <1>2 DEF Found, f
    <3>2. Records' = SubSeq(f.records, 1, k)
      BY <2>0 DEF Records
    <3> QED
      BY <3>1, <3>2
  <2>8. \A r \in Found' : r \in Found /\ r = Records'
    BY <2>4, <2>6, <2>7
  <2>9. manifests'[current].synced = k
    BY <2>3
  <2> QED
    BY <2>5, <2>8, <2>9 DEF f
<1> QED
  BY <1>1, <1>2

-----------------------------------------------------------------------------
(* Numbered is inductive *)

LEMMA NumberedInit == Init => Numbered
BY DEF Init, Numbered, ManifestSound, Numbers, Outputs, Found, NoFlush, NoCompaction

\* A number that NewFileNumber has not given is in no version.
LEMMA NextFileIsFresh ==
  ASSUME Typed, Numbered, pc # "closed"
  PROVE  Fresh(nextFile)
<1>1. nextFile \in Nat /\ version \subseteq Nat
  BY DEF Typed, MemoryTyped
<1>2. nextFile \notin version
  BY <1>1 DEF Numbered, Numbers
<1>3. ASSUME NEW r \in Found, nextFile \in FilesOf(r) PROVE FALSE
  <2>1. nextFile < LastEdit(r).next /\ LastEdit(r).next <= nextFile
    BY <1>3 DEF Numbered, ManifestSound
  <2>2. LastEdit(r).next \in Nat
    BY FoundTyped DEF Typed, Edits
  <2> QED
    BY <1>1, <2>1, <2>2
<1> QED
  BY <1>2, <1>3 DEF Fresh

\* Whatever the end of a process leaves, DB::Open finds numbers that are sound.
LEMMA NumberedForget ==
  ASSUME Typed, Numbered, Forget, current' = current,
         \A r \in Found' : r \in Found /\ LastEdit(r).next <= LastEdit(Records').next,
         current = 0 => DOMAIN logs' = {},
         current > 1 => manifests'[current].synced >= 1
  PROVE  Numbered'
<1>1. pc' = "closed"
  BY DEF Forget
<1>2. ManifestSound'
  BY <1>1 DEF Numbered, ManifestSound
<1>3. Numbers'
  BY <1>1 DEF Numbers
<1>4. Outputs'
  BY DEF Forget, Outputs, NoFlush, NoCompaction
<1> QED
  BY <1>2, <1>3, <1>4 DEF Numbered

LEMMA IdleOutputs ==
  ASSUME Idle'
  PROVE  Outputs'
BY DEF Idle, Outputs, NoFlush, NoCompaction

LEMMA NumberedOpen ==
  ASSUME DBImplAssumption, Typed, Typed', Numbered, ~ deleting, Open
  PROVE  Numbered'
<1>0. nextFile \in Nat /\ current \in Nat /\ manifest \in Nat /\ version \subseteq Nat
  BY DEF Typed, MemoryTyped, FilesTyped
<1>a. FilesTyped /\ FilesTyped'
  BY DEF Typed
<1>b. \A r \in Found : LastEdit(r).next \in Nat /\ LastEdit(r).log \in Nat
  BY <1>a, FoundTyped DEF Edits
<1>1. CASE NewDB
  <2> DEFINE edit == [added |-> {}, deleted |-> {}, log |-> 0, next |-> 2, last |-> 0]
  <2>1. edit \in Edits
    BY DEF Edits
  <2>2. {edit} \in EditRecords
    BY <2>1 DEF EditRecords
  <2>3. current' = 1 /\ manifests'[1] = [records |-> <<{edit}>>, synced |-> 0]
    BY <1>1 DEF NewDB, Put
  <2>4. edit.added = {} /\ edit.log = 0 /\ edit.next = 2
    OBVIOUS
  <2> HIDE DEF edit
  <2>5. Found' = {<<{edit}>>} /\ Records' = <<{edit}>>
    <3>1. Recoverable([records |-> <<{edit}>>, synced |-> 0]) = {<<{edit}>>}
      BY <2>2, RecoverableOne, 0 \in {0, 1}
    <3> QED
      BY <2>3, <3>1 DEF Found, Records
  <2>6. LastEdit(<<{edit}>>) = edit /\ FilesOf(<<{edit}>>) = {}
    BY <2>1, <2>4, OneEdit
  <2>7. pc' = "closed" /\ pc = "closed"
    BY <1>1 DEF NewDB
  <2>8. ManifestSound'
    BY <2>3, <2>4, <2>5, <2>6, <2>7 DEF ManifestSound
  <2>9. Numbers'
    BY <2>3, <2>7 DEF Numbers
  <2> QED
    BY <2>7, <2>8, <2>9, IdleOutputs DEF Numbered, Typed
<1>2. CASE Recover
  <2> DEFINE e == LastEdit(Records)
  <2>1. Len(Records) >= 1
    <3>1. Records # << >> /\ current # 0
      BY <1>2 DEF Recover, Records, IsCorrupt
    <3>2. Records \in Seq(EditRecords)
      BY <1>a, <3>1, FoundTyped
    <3> QED
      BY <3>1, <3>2, EmptySeq
  <2>2. Records \in Found
    BY <1>2, <1>a, <2>1, FoundTyped DEF Recover
  <2>3. /\ pc' = "replay" /\ version' = FilesOf(Records) /\ replay' = [log |-> e.log, read |-> 0]
        /\ manifest' = e.next /\ nextFile' = e.next + 1 /\ current' = current /\ logs' = logs
        /\ manifests' = manifests
    BY <1>2 DEF Recover, disk, Records
  <2>4. Found' = Found /\ Records' = Records
    BY <1>2, <2>3, FoundStays DEF Recover
  <2>5. e.next \in Nat /\ e.log \in Nat /\ e.log < e.next /\ current < e.next
        /\ \A n \in FilesOf(Records) : n < e.next
    BY <1>b, <2>2 DEF Numbered, ManifestSound
  <2>6. FilesOf(Records) \subseteq Nat
    BY <1>a, <2>2, FoundTyped
  <2> HIDE DEF e
  <2>7. ManifestSound'
    <3>1. \A r \in Found : LastEdit(r).next <= e.next
      BY DEF Numbered, ManifestSound, e
    <3> QED
      BY <1>b, <2>3, <2>4, <2>5, <3>1 DEF Numbered, ManifestSound
  <2>8. Numbers'
    <3>1. \A n \in version' : n < nextFile'
      BY <2>3, <2>5, <2>6
    <3>2. manifest' > current' /\ manifest' < nextFile' /\ replay'.log <= nextFile'
      BY <1>0, <2>3, <2>5
    <3>3. current' # 0
      BY <1>2, <2>3 DEF Recover
    <3> QED
      BY <2>3, <3>1, <3>2, <3>3 DEF Numbered, Numbers
  <2> QED
    BY <2>3, <2>7, <2>8, IdleOutputs DEF Numbered, Typed
<1>3. ASSUME NEW n \in DOMAIN logs, ReplayRecord(n) \/ ReplayEnd(n) PROVE Numbered'
  <2>1. pc = "replay" /\ pc' = pc /\ UNCHANGED <<logs, manifests, current, manifest, logNumber>>
    BY <1>3 DEF ReplayRecord, ReplayEnd, Replaying
  <2>2. Found' = Found /\ (current # 0 => Records' = Records)
    BY <2>1, FoundStays
  <2>3. n \in Nat
    BY DEF Typed, FilesTyped
  <2>4. /\ nextFile' \in Nat /\ nextFile <= nextFile'
        /\ version' \subseteq version \union {nextFile}
        /\ nextFile \in version' => nextFile < nextFile'
        /\ replay'.log <= nextFile'
    <3>1. \A m \in version : m < nextFile
      BY <2>1 DEF Numbered, Numbers
    <3>2. nextFile \notin version
      BY <1>0, <3>1
    <3>3. CASE ReplayRecord(n)
      <4>1. replay'.log = replay.log
        BY <3>3 DEF ReplayRecord, Typed, MemoryTyped
      <4>2. replay.log <= nextFile /\ replay.log \in Nat
        BY <2>1 DEF Numbered, Numbers, Typed, MemoryTyped
      <4> QED
        BY <1>0, <3>2, <3>3, <4>1, <4>2 DEF ReplayRecord, WriteLevel0Table
    <3>4. CASE ReplayEnd(n)
      <4>1. replay'.log = n + 1
        BY <3>4 DEF ReplayEnd
      <4>2. CASE mem # {}
        <5>1. nextFile' = Maximum({nextFile + 1}, n + 1) /\ version' = version \union {nextFile}
          BY <3>4, <4>2 DEF ReplayEnd, WriteLevel0Table
        <5>2. nextFile + 1 \in Nat /\ n + 1 \in Nat
          BY <1>0, <2>3
        <5>3. nextFile' \in Nat /\ nextFile + 1 <= nextFile' /\ n + 1 <= nextFile'
          BY <5>1, <5>2, MaximumOfTwo
        <5> QED
          BY <1>0, <4>1, <5>1, <5>3
      <4>3. CASE mem = {}
        <5>1. nextFile' = Maximum({nextFile}, n + 1) /\ version' = version
          BY <3>4, <4>3 DEF ReplayEnd
        <5>2. nextFile' \in Nat /\ nextFile <= nextFile' /\ n + 1 <= nextFile'
          BY <1>0, <2>3, <5>1, MaximumOfTwo
        <5> QED
          BY <3>2, <4>1, <5>1, <5>2
      <4> QED
        BY <4>2, <4>3
    <3> QED
      BY <1>3, <3>3, <3>4
  <2>5. ManifestSound'
    <3>1. current # 0
      BY <2>1 DEF Numbered, Numbers
    <3>2. \A r \in Found : LastEdit(r).next <= nextFile'
      BY <1>0, <1>b, <2>1, <2>4 DEF Numbered, ManifestSound
    <3> QED
      BY <2>1, <2>2, <3>1, <3>2 DEF Numbered, ManifestSound
  <2>6. Numbers'
    <3>1. \A m \in version' : m < nextFile'
      BY <1>0, <2>1, <2>4 DEF Numbered, Numbers
    <3>2. manifest < nextFile' /\ manifest > current /\ current # 0
      BY <1>0, <2>1, <2>4 DEF Numbered, Numbers
    <3> QED
      BY <2>1, <2>4, <3>1, <3>2 DEF Numbered, Numbers
  <2> QED
    BY <2>1, <2>5, <2>6, IdleOutputs DEF Numbered, Typed
<1>4. CASE OpenLog
  <2>1. /\ pc = "replay" /\ pc' = "log" /\ logfile' = nextFile /\ nextFile' = nextFile + 1
        /\ logs' = Put(logs, nextFile, NewFile)
        /\ UNCHANGED <<manifests, current, manifest, version>>
    BY <1>4 DEF OpenLog, NextNumber
  <2>2. Found' = Found /\ (current # 0 => Records' = Records)
    BY <2>1, FoundStays
  <2>3. ManifestSound'
    <3>1. current # 0
      BY <2>1 DEF Numbered, Numbers
    <3>2. \A r \in Found : LastEdit(r).next <= nextFile'
      BY <1>0, <1>b, <2>1 DEF Numbered, ManifestSound
    <3> QED
      BY <2>1, <2>2, <3>1, <3>2 DEF Numbered, ManifestSound
  <2>4. Numbers'
    <3>1. \A n \in DOMAIN logs : n <= nextFile
      <4>1. \A n \in DOMAIN logs : n \in Nat /\ ~ (n >= replay.log)
        BY <1>4 DEF OpenLog, LogsFrom, Typed, FilesTyped
      <4>2. replay.log \in Nat /\ replay.log <= nextFile
        BY <2>1 DEF Numbered, Numbers, Typed, MemoryTyped
      <4> QED
        BY <1>0, <4>1, <4>2
    <3>2. /\ DOMAIN logs' = DOMAIN logs \union {nextFile}
          /\ logs'[nextFile] = NewFile
      BY <2>1 DEF Put
    <3>3. logs'[logfile'].records = << >>
      BY <2>1, <3>2 DEF NewFile
    <3>4. \A n \in DOMAIN logs' : n <= logfile'
      BY <1>0, <2>1, <3>1, <3>2
    <3>5. logfile' < nextFile' /\ manifest' < nextFile' /\ \A n \in version' : n < nextFile'
      BY <1>0, <2>1 DEF Numbered, Numbers
    <3> QED
      BY <2>1, <3>2, <3>3, <3>4, <3>5 DEF Numbered, Numbers
  <2> QED
    BY <2>1, <2>3, <2>4, IdleOutputs DEF Numbered, Typed
<1>5. CASE OpenManifest
  <2> DEFINE f == [records |-> <<{WriteSnapshot}>>, synced |-> 0]
  <2>1. /\ pc = "log" /\ pc' = "manifest"
        /\ manifests' = Put(manifests, manifest, Synced(f))
        /\ UNCHANGED <<logs, current, memory>>
    BY <1>5 DEF OpenManifest
  <2>2. Synced(f) = [records |-> <<{WriteSnapshot}>>, synced |-> 1]
    BY DEF Synced
  <2>3. manifest # current /\ current # 0
    BY <1>0, <2>1 DEF Numbered, Numbers
  <2>4. manifests'[current] = manifests[current] /\ manifests'[manifest] = Synced(f)
    BY <2>1, <2>3, <1>a DEF Put, FilesTyped
  <2>5. Found' = Found /\ Records' = Records
    BY <2>1, <2>3, <2>4, FoundStays
  <2>6. WriteSnapshot' = WriteSnapshot
    BY <2>1 DEF WriteSnapshot, memory
  <2>7. ManifestSound'
    BY <2>1, <2>5 DEF Numbered, ManifestSound, memory
  <2>8. manifests'[manifest'] = [records |-> <<{WriteSnapshot'}>>, synced |-> 1]
    BY <2>1, <2>2, <2>4, <2>6 DEF memory
  <2> HIDE DEF f
  <2>9. Numbers'
    BY <2>1, <2>3, <2>4, <2>8 DEF Numbered, Numbers, memory
  <2> QED
    BY <2>1, <2>7, <2>9, IdleOutputs DEF Numbered, Typed
<1>6. CASE OpenFails
  <2>1. UNCHANGED <<logs, manifests, current>>
    BY <1>6 DEF OpenFails, disk
  <2>2. Found' = Found /\ (current # 0 => Records' = Records)
    BY <2>1, FoundStays
  <2>3. \A r \in Found : LastEdit(r).next <= LastEdit(Records).next /\ current # 0
    BY DEF Numbered, ManifestSound, Found
  <2>4. \A r \in Found' : r \in Found /\ LastEdit(r).next <= LastEdit(Records').next
    BY <2>2, <2>3
  <2> QED
    BY <1>6, <2>1, <2>4, NumberedForget DEF OpenFails, Numbered, Numbers
<1>7. CASE OpenInstall
  <2>1. /\ pc = "manifest" /\ pc' = "open" /\ current' = manifest /\ logNumber' = logfile
        /\ UNCHANGED <<logs, manifests, nextFile, version, manifest, logfile, imm>>
    BY <1>7 DEF OpenInstall
  <2>2. manifests'[current'] = [records |-> <<{WriteSnapshot}>>, synced |-> 1]
    BY <2>1 DEF Numbered, Numbers
  <2>3. WriteSnapshot \in Edits
    BY DEF WriteSnapshot, Edits, Typed, MemoryTyped
  <2>4. {WriteSnapshot} \in EditRecords
    BY <2>3 DEF EditRecords
  <2>5. manifest > current /\ current # 0 /\ manifest < nextFile /\ logfile < nextFile
        /\ \A n \in version : n < nextFile
    BY <2>1 DEF Numbered, Numbers
  <2>6. Found' = {<<{WriteSnapshot}>>} /\ Records' = <<{WriteSnapshot}>>
    <3>1. Recoverable([records |-> <<{WriteSnapshot}>>, synced |-> 1]) = {<<{WriteSnapshot}>>}
      BY <2>4, RecoverableOne, 1 \in {0, 1}
    <3>2. current' # 0
      BY <1>0, <2>1, <2>5
    <3>3. Found' = Recoverable(manifests'[current']) /\ Records' = manifests'[current'].records
      BY <3>2 DEF Found, Records
    <3> DEFINE s == <<{WriteSnapshot}>>
    <3>4. manifests'[current'] = [records |-> s, synced |-> 1] /\ Recoverable([records |-> s, synced |-> 1]) = {s}
      BY <2>2, <3>1
    <3> HIDE DEF s
    <3>5. Found' = {s} /\ Records' = s
      BY <3>3, <3>4
    <3> QED
      BY <3>5 DEF s
  <2>7. /\ LastEdit(<<{WriteSnapshot}>>) = WriteSnapshot
        /\ FilesOf(<<{WriteSnapshot}>>) = WriteSnapshot.added
    BY <2>3, OneEdit
  <2>8. WriteSnapshot.added = version /\ WriteSnapshot.log = logfile /\ WriteSnapshot.next = nextFile
    BY DEF WriteSnapshot
  <2>9. ManifestSound'
    <3> DEFINE s == <<{WriteSnapshot}>>
    <3>1. Found' = {s} /\ Records' = s
      BY <2>6
    <3>2. LastEdit(s).next = nextFile /\ LastEdit(s).log = logfile /\ FilesOf(s) = version
      BY <2>7, <2>8
    <3> HIDE DEF s
    <3>3. /\ manifest < nextFile /\ logfile < nextFile /\ nextFile <= nextFile
          /\ \A n \in version : n < nextFile
      BY <1>0, <2>5
    <3>4. ASSUME NEW r \in Found'
          PROVE  /\ current' < LastEdit(r).next /\ LastEdit(r).log < LastEdit(r).next
                 /\ \A n \in FilesOf(r) : n < LastEdit(r).next
                 /\ LastEdit(r).next <= LastEdit(Records').next
                 /\ LastEdit(r).next <= nextFile'
      BY <2>1, <3>1, <3>2, <3>3
    <3> QED
      BY <3>4 DEF ManifestSound
  <2>10. Numbers'
    <3>1. current' > 1 /\ logNumber' <= logfile'
      BY <1>0, <2>1, <2>5 DEF Typed, MemoryTyped
    <3>2. manifests'[current'].synced = 1
      BY <2>2
    <3> QED
      BY <2>1, <2>5, <3>1, <3>2 DEF Numbered, Numbers
  <2>11. Outputs'
    <3>1. flush = NoFlush /\ compact = NoCompaction
      BY <2>1 DEF Typed, Idle
    <3> QED
      BY <1>7, <3>1 DEF OpenInstall, bg, Outputs, NoFlush, NoCompaction
  <2> QED
    BY <2>9, <2>10, <2>11 DEF Numbered
<1> QED
  BY <1>1, <1>2, <1>3, <1>4, <1>5, <1>6, <1>7 DEF Open

\* What the steps of Write leave alone.
LEMMA WriterFrame ==
  ASSUME Typed, Writer
  PROVE  /\ UNCHANGED <<tables, manifests, temps, current, pc, replay, version, logNumber,
                        manifest, pending, deleting, bg, iterator>>
         /\ pc = "open"
         /\ \/ DOMAIN logs' = DOMAIN logs /\ UNCHANGED <<nextFile, logfile, imm>>
            \/ RoomSwitch
<1>1. UNCHANGED <<tables, manifests, temps, current, pc, replay, version, logNumber,
                  manifest, pending, deleting, bg, iterator>>
  BY DEF Writer, RoomError, RoomWait, RoomSwitch, RoomNoLog, ForceDone, BuildGroup,
         AddRecord, AddRecordFails, SyncLog, SyncLogFails, Insert, disk, memory, bg
<1>2. writers # << >>
  BY DEF Writer, RoomError, RoomWait, RoomSwitch, RoomNoLog, ForceDone, BuildGroup,
         AddRecord, AddRecordFails, SyncLog, SyncLogFails, Insert, Leading
<1>3. pc = "open"
  BY <1>2 DEF Typed, Idle
<1>4. (DOMAIN logs' = DOMAIN logs /\ UNCHANGED <<nextFile, logfile, imm>>) \/ RoomSwitch
  BY DEF Writer, RoomError, RoomWait, RoomNoLog, ForceDone, BuildGroup,
         AddRecord, AddRecordFails, SyncLog, SyncLogFails, Insert, disk, memory
<1> QED
  BY <1>1, <1>3, <1>4

LEMMA NumberedWriter ==
  ASSUME Typed, Numbered, Writer
  PROVE  Numbered'
<1>1. /\ UNCHANGED <<tables, manifests, current, pc, version, logNumber, manifest, flush, compact>>
      /\ pc = "open"
  BY WriterFrame DEF bg
<1>2. Found' = Found /\ (current # 0 => Records' = Records)
  BY <1>1, FoundStays
<1>3. nextFile \in Nat /\ nextFile' \in Nat /\ nextFile <= nextFile'
      /\ version \subseteq Nat /\ manifest \in Nat /\ logfile \in Nat /\ logNumber \in Nat
  BY WriterFrame DEF RoomSwitch, NextNumber, Typed, MemoryTyped
<1>4. \A r \in Found : LastEdit(r).next \in Nat
  BY FoundTyped DEF Typed, Edits
<1>5. ManifestSound'
  <2>1. current # 0
    BY <1>1 DEF Numbered, Numbers
  <2>2. \A r \in Found : LastEdit(r).next <= nextFile'
    BY <1>1, <1>3, <1>4 DEF Numbered, ManifestSound
  <2> QED
    BY <1>1, <1>2, <2>1, <2>2 DEF Numbered, ManifestSound
<1>6. Numbers'
  <2>1. manifest' < nextFile' /\ \A n \in version' : n < nextFile'
    BY <1>1, <1>3 DEF Numbered, Numbers
  <2>2. CASE DOMAIN logs' = DOMAIN logs /\ UNCHANGED <<nextFile, logfile, imm>>
    BY <1>1, <2>1, <2>2 DEF Numbered, Numbers
  <2>3. CASE RoomSwitch
    <3>1. /\ logs' = Put(logs, nextFile, NewFile) /\ logfile' = nextFile
          /\ nextFile' = nextFile + 1 /\ imm' # {}
      BY <2>3 DEF RoomSwitch, NextNumber
    <3>2. DOMAIN logs' = DOMAIN logs \union {nextFile}
      BY <3>1 DEF Put
    <3>3. \A n \in DOMAIN logs : n \in Nat /\ n <= logfile
      BY <1>1 DEF Numbered, Numbers, Typed, FilesTyped
    <3>4. logfile < nextFile /\ logNumber <= logfile
      BY <1>1 DEF Numbered, Numbers
    <3>5. \A n \in DOMAIN logs' : n <= logfile'
      BY <1>3, <3>1, <3>2, <3>3, <3>4
    <3>6. logNumber' <= logfile' /\ logfile' < nextFile' /\ logfile' \in DOMAIN logs'
      BY <1>1, <1>3, <3>1, <3>2, <3>4
    <3> QED
      BY <1>1, <2>1, <3>1, <3>5, <3>6 DEF Numbered, Numbers
  <2> QED
    BY <2>2, <2>3, WriterFrame
<1>7. Outputs'
  <2>1. flush.pc \in {"log", "sync"} => imm' = imm
    BY WriterFrame DEF RoomSwitch, Typed
  <2>2. Merged' = Merged /\ \A n : Fresh(n) => Fresh(n)'
    BY <1>1, <1>2 DEF Merged, Fresh
  <2> QED
    BY <1>1, <2>1, <2>2 DEF Numbered, Outputs
<1> QED
  BY <1>5, <1>6, <1>7 DEF Numbered

\* While the database is open, its MANIFEST is not empty.
LEMMA OpenRecords ==
  ASSUME Typed, Numbered, pc = "open"
  PROVE  /\ current = manifest /\ current # 0 /\ current \in Nat
         /\ Records \in Found /\ Records \in Seq(EditRecords) /\ Len(Records) >= 1
<1>1. current = manifest /\ current # 0 /\ current \in Nat
  BY DEF Typed, MemoryTyped, Numbered, Numbers
<1>2. manifests[current].synced >= 1
  BY DEF Numbered, Numbers
<1>3. manifests[current] \in FileOf(EditRecords) /\ Records \in Seq(EditRecords)
      /\ Len(Records) \in Nat
  BY <1>1, FoundTyped DEF Typed
<1>4. Len(Records) >= 1
  BY <1>2, <1>3, FileProperties DEF Records
<1> QED
  BY <1>1, <1>3, <1>4, FoundTyped DEF Typed

LEMMA SoundAfterEdit ==
  ASSUME Typed, Numbered, pc = "open", pc' = pc, current' = current, nextFile' = nextFile,
         NEW added \in SUBSET Nat, NEW deleted \in SUBSET Nat, NEW log \in Nat,
         AppendEdit(added, deleted, log), \A n \in added : n < nextFile, log < nextFile
  PROVE  /\ ManifestSound'
         /\ \A n \in Nat : (n \notin added /\ \A r \in Found : n \notin FilesOf(r))
                             => \A r \in Found' : n \notin FilesOf(r)
         /\ manifests'[current].synced = manifests[current].synced
<1>1. current = manifest /\ current # 0 /\ Records \in Found /\ manifest < nextFile
  BY OpenRecords DEF Numbered, Numbers
<1>2. nextFile \in Nat /\ current \in Nat
  BY OpenRecords DEF Typed, MemoryTyped
<1>3. \A r \in Found : LastEdit(r).next \in Nat
  BY FoundTyped DEF Typed, Edits
<1>4. \A r \in Found : LastEdit(r).next <= nextFile
  BY DEF Numbered, ManifestSound
<1> DEFINE edit == [added |-> added, deleted |-> deleted, log |-> log,
                    next |-> nextFile, last |-> lastSequence]
<1>5. edit.next = nextFile /\ edit.log = log
  OBVIOUS
<1>6. /\ \A r \in Found' : r \in Found \/ r = Records'
      /\ Whole(Records) => /\ LastEdit(Records') = edit
                           /\ FilesOf(Records') = (FilesOf(Records) \ deleted) \union added
      /\ ~ Whole(Records) => /\ LastEdit(Records') = LastEdit(Records)
                             /\ FilesOf(Records') = FilesOf(Records)
      /\ manifests'[current].synced = manifests[current].synced
  BY <1>1, FoundAfterEdit DEF Typed
<1> HIDE DEF edit
<1>7. \A n \in FilesOf(Records) : n \in Nat /\ n < LastEdit(Records).next
  BY <1>1, FoundTyped DEF Typed, Numbered, ManifestSound
<1>8. /\ current < LastEdit(Records').next /\ LastEdit(Records').log < LastEdit(Records').next
      /\ \A n \in FilesOf(Records') : n < LastEdit(Records').next
      /\ LastEdit(Records').next <= nextFile
      /\ \A r \in Found : LastEdit(r).next <= LastEdit(Records').next
  <2>1. CASE Whole(Records)
    <3>1. LastEdit(Records').next = nextFile /\ LastEdit(Records').log = log
      BY <1>5, <1>6, <2>1
    <3>2. \A n \in FilesOf(Records') : n < nextFile
      <4>1. \A n \in FilesOf(Records) : n < nextFile
        BY <1>1, <1>2, <1>3, <1>4, <1>7
      <4> QED
        BY <1>6, <2>1, <4>1
    <3> QED
      BY <1>1, <1>2, <1>4, <3>1, <3>2
  <2>2. CASE ~ Whole(Records)
    BY <1>1, <1>4, <1>6, <2>2 DEF Numbered, ManifestSound
  <2> QED
    BY <2>1, <2>2
<1>9. ManifestSound'
  <2>1. ASSUME NEW r \in Found'
        PROVE  /\ current' < LastEdit(r).next /\ LastEdit(r).log < LastEdit(r).next
               /\ \A n \in FilesOf(r) : n < LastEdit(r).next
               /\ LastEdit(r).next <= LastEdit(Records').next
               /\ LastEdit(r).next <= nextFile'
    <3>1. CASE r \in Found
      BY <1>4, <1>8, <3>1 DEF Numbered, ManifestSound
    <3>2. CASE r = Records'
      <4>1. LastEdit(Records').next \in Nat
        BY <1>1, <1>2, <1>3, <1>5, <1>6
      <4> QED
        BY <1>8, <3>2, <4>1
    <3> QED
      BY <1>6, <3>1, <3>2
  <2> QED
    BY <2>1 DEF ManifestSound
<1> QED
  BY <1>1, <1>6, <1>9

LEMMA SoundAfterFailure ==
  ASSUME Typed, Numbered, pc = "open", pc' = pc, current' = current, nextFile' = nextFile,
         EditFails
  PROVE  /\ ManifestSound'
         /\ \A n : (\A r \in Found : n \notin FilesOf(r)) => \A r \in Found' : n \notin FilesOf(r)
         /\ manifests'[current].synced = manifests[current].synced
<1>1. current = manifest /\ current # 0 /\ Records \in Found
  BY OpenRecords
<1>2. /\ \A r \in Found' : r \in Found \/ r = Records'
      /\ LastEdit(Records') = LastEdit(Records) /\ FilesOf(Records') = FilesOf(Records)
      /\ manifests'[current].synced = manifests[current].synced
  BY <1>1, FoundAfterFailure DEF Typed
<1>3. LastEdit(Records).next \in Nat
  BY <1>1, FoundTyped DEF Typed, Edits
<1>4. ManifestSound'
  <2>1. ASSUME NEW r \in Found'
        PROVE  /\ current' < LastEdit(r).next /\ LastEdit(r).log < LastEdit(r).next
               /\ \A n \in FilesOf(r) : n < LastEdit(r).next
               /\ LastEdit(r).next <= LastEdit(Records').next
               /\ LastEdit(r).next <= nextFile'
    <3>1. CASE r \in Found
      BY <1>2, <3>1 DEF Numbered, ManifestSound
    <3>2. CASE r = Records'
      BY <1>1, <1>2, <1>3, <3>2 DEF Numbered, ManifestSound
    <3> QED
      BY <1>2, <3>1, <3>2
  <2> QED
    BY <2>1 DEF ManifestSound
<1> QED
  BY <1>1, <1>2, <1>4

LEMMA SoundAfterSync ==
  ASSUME Typed, Numbered, pc = "open", pc' = pc, current' = current, nextFile' = nextFile,
         manifests' = [manifests EXCEPT ![manifest] = Synced(manifests[manifest])]
  PROVE  /\ ManifestSound'
         /\ Found' \subseteq Found /\ Records' = Records
         /\ manifests'[current].synced >= 1
<1>1. current = manifest /\ current # 0 /\ Records \in Found /\ Len(Records) >= 1
  BY OpenRecords
<1>2. /\ \A r \in Found' : r = Records
      /\ Records' = Records
      /\ manifests'[current].synced = Len(Records)
  BY <1>1, FoundAfterSync DEF Typed
<1> QED
  BY <1>1, <1>2 DEF Numbered, ManifestSound

LEMMA SoundStays ==
  ASSUME Typed, Numbered, pc = "open", pc' = pc, UNCHANGED <<manifests, current>>,
         nextFile' \in {nextFile, nextFile + 1}
  PROVE  ManifestSound' /\ Found' = Found
<1>1. Found' = Found /\ Records' = Records /\ current # 0
  BY OpenRecords, FoundStays
<1>2. \A r \in Found : LastEdit(r).next \in Nat /\ nextFile \in Nat
  BY FoundTyped DEF Typed, Edits, MemoryTyped
<1>3. \A r \in Found : LastEdit(r).next <= nextFile'
  BY <1>2 DEF Numbered, ManifestSound
<1> QED
  BY <1>1, <1>3 DEF Numbered, ManifestSound

\* What the background thread leaves alone.
LEMMA BackgroundFrame ==
  ASSUME Typed, Background
  PROVE  /\ UNCHANGED <<logs, temps, current, pc, replay, mem, logfile, lastSequence,
                        manifest, leader, iterator, calls, acked, safe>>
         /\ pc = "open"
<1>1. UNCHANGED <<logs, temps, current, pc, replay, mem, logfile, lastSequence,
                  manifest, leader, iterator, calls, acked, safe>>
  BY DEF Background, FlushStart, FlushBuild, FlushBuildFails, FlushLog, FlushLogFails,
         FlushInstall, CompactOutput, CompactFinish, CompactFails, CompactLog,
         CompactInstall, disk, memory, queue, callers
<1>2. imm # {} \/ compact # NoCompaction
  BY DEF Background, FlushStart, FlushBuild, FlushBuildFails, FlushLog, FlushLogFails,
         FlushInstall, CompactOutput, CompactFinish, CompactFails, CompactLog,
         CompactInstall, Flushing, Compacting, NoCompaction, Typed
<1> QED
  BY <1>1, <1>2 DEF Typed, Idle

\* No step of the background thread gives a number twice.
LEMMA NumbersInBackground ==
  ASSUME Typed, Typed', Numbered, Background,
         nextFile' \in {nextFile, nextFile + 1}, \A n \in version' : n < nextFile,
         \/ logNumber' = logNumber /\ imm' = imm
         \/ logNumber' = logfile,
         manifests'[current].synced >= 1
  PROVE  Numbers'
<1>1. UNCHANGED <<logs, current, pc, logfile, manifest>> /\ pc = "open"
  BY BackgroundFrame
<1>2. nextFile \in Nat /\ manifest \in Nat /\ logfile \in Nat
  BY DEF Typed, MemoryTyped
<1>3. manifest < nextFile' /\ logfile < nextFile'
  BY <1>1, <1>2 DEF Numbered, Numbers
<1>4. \A n \in version' : n < nextFile'
  <2>1. \A n \in version' : n \in Nat
    BY DEF Typed, MemoryTyped
  <2> QED
    BY <1>2, <2>1
<1>5. logNumber' <= logfile /\ (imm' = {} => logNumber' = logfile)
  BY <1>1, <1>2 DEF Numbered, Numbers
<1> QED
  BY <1>1, <1>3, <1>4, <1>5 DEF Numbered, Numbers

LEMMA NumberedBackground ==
  ASSUME Typed, InUse, Numbered, Typed', ~ deleting, Background
  PROVE  Numbered'
<1>0. UNCHANGED <<logs, current, pc, logfile, manifest>> /\ pc = "open"
  BY BackgroundFrame
<1>a. /\ current = manifest /\ Records \in Found /\ current # 0
      /\ manifests[current].synced >= 1
  BY <1>0, OpenRecords DEF Numbered, Numbers
<1>b. /\ nextFile \in Nat /\ version \subseteq Nat /\ logfile \in Nat /\ logNumber \in Nat
      /\ flush.number \in Nat /\ compact.number \in Nat
      /\ compact.inputs \subseteq version
      /\ logfile < nextFile /\ logNumber < nextFile
      /\ \A n \in version : n < nextFile
  BY <1>0 DEF Typed, MemoryTyped, BgTyped, Numbered, Numbers, Outputs
<1>c. Fresh(nextFile)
  BY <1>0, NextFileIsFresh
<1>1. CASE FlushStart
  <2>1. /\ flush' = [pc |-> "build", number |-> nextFile] /\ nextFile' = nextFile + 1
        /\ UNCHANGED <<tables, manifests, version, logNumber, imm, compact>>
    BY <1>1 DEF FlushStart, disk, NextNumber
  <2>2. ManifestSound' /\ Found' = Found
    BY <1>0, <2>1, SoundStays
  <2>3. Numbers'
    BY <1>0, <1>a, <1>b, <2>1, NumbersInBackground
  <2>4. Outputs'
    BY <1>c, <2>1, <2>2 DEF Numbered, Outputs, Fresh, Merged
  <2> QED
    BY <2>2, <2>3, <2>4 DEF Numbered
<1>2. CASE FlushBuild
  <2>1. /\ UNCHANGED <<manifests, version, logNumber, imm, compact, nextFile>>
        /\ flush.pc = "build" /\ flush'.pc = "log" /\ flush'.number = flush.number
        /\ tables' = IF UNION imm = {} THEN tables
                     ELSE Put(tables, flush.number, TableOf(UNION imm))
    BY <1>2 DEF FlushBuild, Flushing, Typed, BgTyped
  <2>2. ManifestSound' /\ Found' = Found
    BY <1>0, <2>1, SoundStays
  <2>3. Numbers'
    BY <1>0, <1>a, <1>b, <2>1, NumbersInBackground
  <2>4. flush.number \notin version /\ flush.number # compact.number
    BY <2>1 DEF Numbered, Outputs, Fresh, InUse
  <2>5. version \subseteq DOMAIN tables
    BY DEF InUse
  <2>6. \A n \in DOMAIN tables : n # flush.number => tables'[n] = tables[n]
    BY <2>1 DEF Put
  <2>7. Merged' = Merged
    BY <1>b, <2>1, <2>4, <2>5, <2>6 DEF Merged
  <2>8. compact.pc \in {"log", "sync"} => tables'[compact.number] = tables[compact.number]
    BY <2>4, <2>6 DEF InUse
  <2>9. UNION imm # {} => tables'[flush.number] = TableOf(UNION imm)
    BY <2>1 DEF Put
  <2> QED
    BY <2>1, <2>2, <2>3, <2>7, <2>8, <2>9 DEF Numbered, Outputs, Fresh
<1>3. CASE FlushBuildFails
  <2>1. /\ UNCHANGED <<tables, manifests, version, logNumber, imm, compact, nextFile>>
        /\ flush' = NoFlush
    BY <1>3 DEF FlushBuildFails, disk
  <2>2. ManifestSound' /\ Found' = Found
    BY <1>0, <2>1, SoundStays
  <2>3. Numbers'
    BY <1>0, <1>a, <1>b, <2>1, NumbersInBackground
  <2> QED
    BY <2>1, <2>2, <2>3 DEF Numbered, Outputs, Fresh, Merged, NoFlush
<1>4. CASE FlushLog
  <2>1. /\ UNCHANGED <<tables, version, logNumber, imm, compact, nextFile>>
        /\ flush.pc = "log" /\ flush'.pc = "sync" /\ flush'.number = flush.number
        /\ AppendEdit(FlushedFile, {}, logfile)
    BY <1>4 DEF FlushLog, Flushing, Typed, BgTyped, memory
  <2>2. FlushedFile \in SUBSET Nat /\ \A n \in FlushedFile : n = flush.number
    BY <1>b DEF FlushedFile
  <2>3. flush.number < nextFile /\ flush.number # compact.number
    BY <2>1 DEF InUse
  <2>4. {} \in SUBSET Nat
    OBVIOUS
  <2>5. /\ ManifestSound'
        /\ \A n \in Nat : (n \notin FlushedFile /\ \A r \in Found : n \notin FilesOf(r))
                            => \A r \in Found' : n \notin FilesOf(r)
        /\ manifests'[current].synced = manifests[current].synced
    BY <1>0, <1>b, <2>1, <2>2, <2>3, <2>4, SoundAfterEdit
  <2>6. Numbers'
    BY <1>0, <1>a, <1>b, <2>1, <2>5, NumbersInBackground
  <2>7. Fresh(compact.number) => Fresh(compact.number)'
    BY <1>b, <2>1, <2>2, <2>3, <2>5 DEF Fresh
  <2> QED
    BY <2>1, <2>5, <2>6, <2>7 DEF Numbered, Outputs, Merged
<1>5. CASE FlushLogFails
  <2>1. /\ UNCHANGED <<tables, version, logNumber, imm, compact, nextFile>>
        /\ flush' = NoFlush /\ EditFails
    BY <1>5 DEF FlushLogFails
  <2>2. /\ ManifestSound'
        /\ \A n : (\A r \in Found : n \notin FilesOf(r)) => \A r \in Found' : n \notin FilesOf(r)
        /\ manifests'[current].synced = manifests[current].synced
    BY <1>0, <2>1, SoundAfterFailure
  <2>3. Numbers'
    BY <1>0, <1>a, <1>b, <2>1, <2>2, NumbersInBackground
  <2>4. Fresh(compact.number) => Fresh(compact.number)'
    BY <2>1, <2>2 DEF Fresh
  <2> QED
    BY <2>1, <2>2, <2>3, <2>4 DEF Numbered, Outputs, Merged, NoFlush
<1>6. CASE FlushInstall
  <2>1. /\ UNCHANGED <<tables, compact, nextFile>>
        /\ manifests' = [manifests EXCEPT ![manifest] = Synced(manifests[manifest])]
        /\ version' = version \union FlushedFile /\ logNumber' = logfile
        /\ imm' = {} /\ flush' = NoFlush /\ flush.pc = "sync"
    BY <1>6 DEF FlushInstall, Flushing
  <2>2. \A n \in FlushedFile : n = flush.number
    BY DEF FlushedFile
  <2>3. flush.number < nextFile /\ flush.number # compact.number
    BY <2>1 DEF InUse
  <2>4. /\ ManifestSound' /\ Found' \subseteq Found
        /\ manifests'[current].synced >= 1
    BY <1>0, <2>1, SoundAfterSync
  <2>5. Numbers'
    BY <1>0, <1>a, <1>b, <2>1, <2>2, <2>3, <2>4, NumbersInBackground
  <2>6. Fresh(compact.number) => Fresh(compact.number)'
    BY <2>1, <2>2, <2>3, <2>4 DEF Fresh
  <2> QED
    BY <1>b, <2>1, <2>4, <2>5, <2>6 DEF Numbered, Outputs, Merged, NoFlush
<1>7. CASE CompactOutput
  <2>1. /\ UNCHANGED <<manifests, version, logNumber, imm, flush>>
        /\ nextFile' = nextFile + 1 /\ flush = NoFlush
        /\ compact'.pc = "output" /\ compact'.number = nextFile
        /\ compact'.inputs = compact.inputs
    BY <1>7 DEF CompactOutput, Compacting, NextNumber, Typed, BgTyped
  <2>2. ManifestSound' /\ Found' = Found
    BY <1>0, <2>1, SoundStays
  <2>3. Numbers'
    BY <1>0, <1>a, <1>b, <2>1, NumbersInBackground
  <2>4. Fresh(compact.number)'
    BY <1>c, <2>1, <2>2 DEF Fresh
  <2> QED
    BY <1>b, <2>1, <2>2, <2>3, <2>4 DEF Numbered, Outputs, NoFlush
<1>8. CASE CompactFinish
  <2>1. /\ UNCHANGED <<manifests, version, logNumber, imm, flush, nextFile>>
        /\ flush = NoFlush /\ compact.pc = "output"
        /\ compact'.pc = "log" /\ compact'.number = compact.number
        /\ compact'.inputs = compact.inputs
    BY <1>8 DEF CompactFinish, Compacting, memory, Typed, BgTyped
  <2>2. ManifestSound' /\ Found' = Found
    BY <1>0, <2>1, SoundStays
  <2>3. Numbers'
    BY <1>0, <1>a, <1>b, <2>1, NumbersInBackground
  <2>4. compact.number \in DOMAIN tables /\ compact.number \notin version
    BY <2>1 DEF InUse, Numbered, Outputs, Fresh
  <2>5. tables' = [tables EXCEPT ![compact.number] = TableOf(Merged)]
    BY <1>8, <2>4 DEF CompactFinish, Merged
  <2>6. version \subseteq DOMAIN tables
    BY DEF InUse
  <2>7. \A n \in version : tables'[n] = tables[n]
    BY <2>4, <2>5, <2>6
  <2>8. Merged' = Merged
    BY <1>b, <2>1, <2>7 DEF Merged
  <2>9. tables'[compact.number] = TableOf(Merged)
    BY <2>4, <2>5
  <2> QED
    BY <1>b, <2>1, <2>2, <2>3, <2>8, <2>9 DEF Numbered, Outputs, NoFlush
<1>9. CASE CompactFails
  <2>1. /\ UNCHANGED <<tables, version, logNumber, imm, flush, nextFile>>
        /\ compact' = NoCompaction /\ flush = NoFlush
        /\ manifests' = manifests \/ EditFails
    BY <1>9 DEF CompactFails, Compacting
  <2>2. ManifestSound' /\ manifests'[current].synced >= 1
    <3>1. CASE manifests' = manifests
      BY <1>0, <1>a, <2>1, <3>1, SoundStays
    <3>2. CASE EditFails
      BY <1>0, <1>a, <2>1, <3>2, SoundAfterFailure
    <3> QED
      BY <2>1, <3>1, <3>2
  <2>3. Numbers'
    BY <1>0, <1>a, <1>b, <2>1, <2>2, NumbersInBackground
  <2> QED
    BY <2>1, <2>2, <2>3 DEF Numbered, Outputs, NoFlush, NoCompaction
<1>10. CASE CompactLog
  <2>1. /\ UNCHANGED <<tables, version, logNumber, imm, flush, nextFile>>
        /\ flush = NoFlush /\ compact.pc = "log" /\ compact'.pc = "sync"
        /\ compact'.number = compact.number /\ compact'.inputs = compact.inputs
        /\ AppendEdit({compact.number}, compact.inputs, logNumber)
    BY <1>10 DEF CompactLog, Compacting, LogOfCompaction, memory, Typed, BgTyped
  <2>2. {compact.number} \in SUBSET Nat /\ compact.inputs \in SUBSET Nat
    BY <1>b
  <2>3. \A n \in {compact.number} : n < nextFile
    BY <2>1 DEF InUse
  <2>4. ManifestSound' /\ manifests'[current].synced = manifests[current].synced
    BY <1>0, <1>b, <2>1, <2>2, <2>3, SoundAfterEdit
  <2>5. Numbers'
    BY <1>0, <1>a, <1>b, <2>1, <2>4, NumbersInBackground
  <2> QED
    BY <1>b, <2>1, <2>4, <2>5 DEF Numbered, Outputs, Merged, NoFlush
<1>11. CASE CompactInstall
  <2>1. /\ UNCHANGED <<tables, logNumber, imm, flush, nextFile>>
        /\ flush = NoFlush /\ compact.pc = "sync" /\ compact' = NoCompaction
        /\ version' = (version \ compact.inputs) \union {compact.number}
        /\ manifests' = [manifests EXCEPT ![manifest] = Synced(manifests[manifest])]
    BY <1>11 DEF CompactInstall, Compacting
  <2>2. ManifestSound' /\ manifests'[current].synced >= 1
    BY <1>0, <2>1, SoundAfterSync
  <2>3. compact.number < nextFile
    BY <2>1 DEF InUse
  <2>4. Numbers'
    BY <1>0, <1>a, <1>b, <2>1, <2>2, <2>3, NumbersInBackground
  <2> QED
    BY <2>1, <2>2, <2>4 DEF Numbered, Outputs, NoFlush, NoCompaction
<1> QED
  BY <1>1, <1>2, <1>3, <1>4, <1>5, <1>6, <1>7, <1>8, <1>9, <1>10, <1>11 DEF Background

LEMMA NumberedStep ==
  ASSUME DBImplAssumption, Typed, InUse, Numbered, Typed', [Next]_vars
  PROVE  Numbered'
<1>0. \A r \in Found : /\ current # 0 /\ LastEdit(r).next <= LastEdit(Records).next
                       /\ LastEdit(r).next \in Nat
  BY FoundTyped DEF Numbered, ManifestSound, Found, Typed, Edits
<1>1. CASE DeleteObsoleteFiles
  <2>1. /\ UNCHANGED <<current, pc, replay, mem, imm, logfile, nextFile, version, logNumber,
                       manifest, flush, compact>>
        /\ Delete(ObsoleteLogs, ObsoleteTables, ObsoleteManifests) /\ deleting
    BY <1>1 DEF DeleteObsoleteFiles, bg
  <2>2. pc = "open" /\ flush = NoFlush
    BY <2>1 DEF Typed, Idle, InUse
  <2>3. current = manifest /\ current \notin ObsoleteManifests /\ current \in DOMAIN manifests
    BY <2>2, OpenRecords, FoundTyped DEF ObsoleteManifests, Typed
  <2>4. manifests'[current] = manifests[current]
    BY <2>1, <2>3 DEF Delete, Without
  <2>5. Found' = Found /\ (current # 0 => Records' = Records)
    BY <2>1, <2>4, FoundStays
  <2>6. ManifestSound'
    BY <1>0, <2>1, <2>5 DEF Numbered, ManifestSound
  <2>7. Numbers'
    <3>1. DOMAIN logs' = DOMAIN logs \ ObsoleteLogs
      BY <2>1 DEF Delete, Without
    <3>2. logfile \notin ObsoleteLogs
      <4>1. logNumber <= logfile /\ logNumber \in Nat /\ logfile \in Nat
        BY <2>2 DEF Numbered, Numbers, Typed, MemoryTyped
      <4>2. ~ (logfile < logNumber)
        BY <4>1
      <4> QED
        BY <4>2 DEF ObsoleteLogs
    <3> QED
      BY <2>1, <2>2, <2>4, <3>1, <3>2 DEF Numbered, Numbers
  <2>8. Outputs'
    <3>1. \A n \in DOMAIN tables : n \in Used => tables'[n] = tables[n]
      BY <2>1 DEF Delete, Without, ObsoleteTables
    <3>2. \A n \in version : n \in DOMAIN tables /\ n \in Used
      BY DEF InUse, Used
    <3>3. Merged' = Merged
      BY <2>1, <3>1, <3>2 DEF Merged, Numbered, Outputs
    <3>4. compact.pc \in {"log", "sync"} => tables'[compact.number] = tables[compact.number]
      BY <3>1 DEF InUse, Used
    <3> QED
      BY <2>1, <2>2, <2>5, <3>3, <3>4 DEF Numbered, Outputs, Fresh, NoFlush
  <2> QED
    BY <2>6, <2>7, <2>8 DEF Numbered
<1>2. CASE Kill
  <2>1. Forget /\ current' = current
    BY <1>2 DEF Kill
  <2>2. (current # 0 => manifests'[current] = manifests[current]) /\ (current = 0 => DOMAIN logs' = {})
    <3>1. CASE UNCHANGED <<logs, tables, manifests>>
      BY <3>1 DEF Numbered, Numbers
    <3>2. ASSUME deleting, NEW l, NEW t, NEW m \in SUBSET ObsoleteManifests, Delete(l, t, m)
          PROVE  /\ current # 0 => manifests'[current] = manifests[current]
                 /\ current = 0 => DOMAIN logs' = {}
      <4>1. pc = "open"
        BY <3>2 DEF Typed, Idle
      <4>2. current = manifest /\ current # 0 /\ current \notin ObsoleteManifests /\ current \in DOMAIN manifests
        BY <4>1, OpenRecords, FoundTyped DEF ObsoleteManifests, Typed
      <4> QED
        BY <3>2, <4>2 DEF Delete, Without
    <3> QED
      BY <1>2, <3>1, <3>2 DEF Kill
  <2>3. Found' = Found /\ (current # 0 => Records' = Records)
    BY <2>1, <2>2, FoundStays
  <2>4. \A r \in Found' : r \in Found /\ LastEdit(r).next <= LastEdit(Records').next
    BY <1>0, <2>3
  <2>5. current > 1 => manifests'[current].synced >= 1
    BY <2>2 DEF Numbered, Numbers
  <2> QED
    BY <2>1, <2>2, <2>4, <2>5, NumberedForget
<1>3. CASE PowerLoss
  <2>1. Forget /\ current' = current
    BY <1>3 DEF PowerLoss
  <2>2. PICK g \in Lengths(manifests) : manifests' = Surviving(manifests, g)
    BY <1>3 DEF PowerLoss
  <2>3. /\ \A r \in Found' : r \in Found /\ r = Records'
        /\ current # 0 => manifests'[current].synced >= manifests[current].synced
    BY <2>1, <2>2, FoundAfterPowerLoss DEF Typed
  <2>4. \A r \in Found' : r \in Found /\ LastEdit(r).next <= LastEdit(Records').next
    BY <1>0, <2>3
  <2>5. current = 0 => DOMAIN logs' = {}
    BY <1>3 DEF PowerLoss, Surviving, Numbered, Numbers
  <2>6. current > 1 => manifests'[current].synced >= 1
    <3>1. current > 1 => manifests[current].synced >= 1 /\ manifests[current].synced \in Nat
                         /\ manifests'[current].synced \in Nat
      BY <2>1, FoundTyped, FileProperties DEF Numbered, Numbers, Typed, FilesTyped
    <3> QED
      BY <2>3, <3>1
  <2> QED
    BY <2>1, <2>4, <2>5, <2>6, NumberedForget
<1>4. CASE ~ deleting /\ Open
  BY <1>4, NumberedOpen
<1>5. CASE ~ deleting /\ Writer
  BY <1>5, NumberedWriter
<1>6. CASE ~ deleting /\ Background
  BY <1>6, NumberedBackground
<1>7. ASSUME \/ \E kind \in CallKinds : Enqueue(kind)
             \/ \E inputs \in SUBSET version : CompactStart(inputs)
             \/ NewIterator \/ DeleteIterator \/ UNCHANGED vars
      PROVE  Numbered'
  <2>1. /\ UNCHANGED <<logs, tables, manifests, current, pc, replay, imm, logfile, nextFile,
                       version, logNumber, manifest, flush>>
        /\ lastSequence' = lastSequence
    BY <1>7 DEF Enqueue, CompactStart, NewIterator, DeleteIterator, vars, disk, memory, bg
  <2>2. Found' = Found /\ (current # 0 => Records' = Records)
    BY <2>1, FoundStays
  <2>3. ManifestSound'
    BY <1>0, <2>1, <2>2 DEF Numbered, ManifestSound
  <2>4. Numbers'
    <3>1. WriteSnapshot' = WriteSnapshot
      BY <2>1 DEF WriteSnapshot
    <3> QED
      BY <2>1, <3>1 DEF Numbered, Numbers
  <2>5. Outputs'
    <3>1. \/ compact' = compact
          \/ compact'.pc = "merge" /\ compact'.inputs \subseteq version
      <4>1. ASSUME NEW inputs \in SUBSET version, CompactStart(inputs)
            PROVE  compact'.pc = "merge" /\ compact'.inputs \subseteq version
        BY <4>1 DEF CompactStart
      <4>2. ASSUME \/ \E kind \in CallKinds : Enqueue(kind)
                   \/ NewIterator \/ DeleteIterator \/ UNCHANGED vars
            PROVE  compact' = compact
        BY <4>2 DEF Enqueue, NewIterator, DeleteIterator, vars, bg
      <4> QED
        BY <1>7, <4>1, <4>2
    <3>2. CASE compact' = compact
      BY <2>1, <2>2, <3>2 DEF Numbered, Outputs, Fresh, Merged
    <3>3. CASE compact'.pc = "merge" /\ compact'.inputs \subseteq version
      BY <2>1, <2>2, <3>3 DEF Numbered, Outputs, Fresh
    <3> QED
      BY <3>1, <3>2, <3>3
  <2> QED
    BY <2>3, <2>4, <2>5 DEF Numbered
<1> QED
  BY <1>1, <1>2, <1>3, <1>4, <1>5, <1>6, <1>7 DEF Next

LEMMA AlwaysNumbered ==
  ASSUME DBImplAssumption
  PROVE  Spec => [](Typed /\ InUse /\ Numbered)
<1>1. Init => Typed /\ InUse /\ Numbered
  BY TypedInit, InUseInit, NumberedInit
<1>2. Typed /\ InUse /\ Numbered /\ [Next]_vars => Typed' /\ InUse' /\ Numbered'
  BY TypedStep, InUseStep, NumberedStep
<1> QED
  BY <1>1, <1>2, PTL DEF Spec

\* The files, the queue and the memtables hold what they should, never more is
\* synced than was written, and NewFileNumber has given every number in use,
\* whatever fails and whenever the process ends.
THEOREM TypesAreKept == Spec => []TypeOK
<1>1. Typed /\ Numbered => TypeOK
  <2> SUFFICES ASSUME Typed, Numbered PROVE TypeOK
    OBVIOUS
  <2>1. \A n \in DOMAIN logs : logs[n].synced \in 0..Len(logs[n].records)
    BY FileProperties DEF Typed, FilesTyped
  <2>2. \A n \in DOMAIN manifests : manifests[n].synced \in 0..Len(manifests[n].records)
    BY FileProperties DEF Typed, FilesTyped
  <2>3. \A n \in DOMAIN tables : tables[n].entries \subseteq Entries
    BY DEF Typed, FilesTyped, TableFiles
  <2>4. /\ current \in {0} \union DOMAIN manifests
        /\ mem \subseteq Entries /\ \A m, n \in imm : m = n
        /\ safe \subseteq acked /\ acked \subseteq 1..calls
    BY DEF Typed, FilesTyped, MemoryTyped, QueueTyped
  <2>5. pc = "open" => \A n \in version \union {logfile} : n < nextFile
    BY DEF Numbered, Numbers
  <2> QED
    BY <2>1, <2>2, <2>3, <2>4, <2>5 DEF TypeOK
<1> QED
  BY <1>1, AlwaysNumbered, DBImplAssumption, PTL

-----------------------------------------------------------------------------
(* DB::Open finds the tables it looks for *)

SyncedTables == {n \in DOMAIN tables : tables[n].synced}

\* The tables that DB::Open may look for are there, and stay if power is lost.
FoundFiles ==
  /\ \A r \in Found : FilesOf(r) \subseteq SyncedTables
  /\ version \subseteq SyncedTables

\* No memtable is flushed, and no file deleted, while a compaction installs its
\* result; and files are deleted only if nothing went wrong.
Alone ==
  /\ flush.pc # "none" => compact.pc \notin {"log", "sync"}
  /\ deleting => ~ bgError /\ compact.pc \notin {"log", "sync"}

\* The MANIFEST says what the current version is, or, while LogAndApply is at
\* work, what the next one will be.
UpToDate ==
  pc = "open" /\ ~ bgError =>
    /\ Whole(Records)
    /\ flush.pc = "sync" => FilesOf(Records) = version \union FlushedFile
    /\ compact.pc = "sync" =>
         FilesOf(Records) = (version \ compact.inputs) \union {compact.number}
    /\ flush.pc # "sync" /\ compact.pc # "sync" =>
         FilesOf(Records) = version /\ manifests[current].synced = Len(Records)

NoneTorn == "edit" \notin Faults /\ current # 0 => Whole(Records)

Sound == FoundFiles /\ Alone /\ UpToDate /\ NoneTorn

LEMMA SoundInit == Init => Sound
BY DEF Init, Sound, FoundFiles, Alone, UpToDate, NoneTorn, Found, NoFlush

LEMMA SoundForget ==
  ASSUME Forget, \A r \in Found' : FilesOf(r) \subseteq SyncedTables', NoneTorn'
  PROVE  Sound'
BY DEF Forget, Sound, FoundFiles, Alone, UpToDate, NoFlush

\* A table is written and synced, or starts to be written under a number that
\* no version has.
LEMMA FoundFilesPut ==
  ASSUME FoundFiles, Found' \subseteq Found, NEW n, NEW t,
         tables' = Put(tables, n, t), t.synced \/ Fresh(n), version' \subseteq version \union {n},
         t.synced \/ version' = version
  PROVE  FoundFiles'
<1>1. \A m \in SyncedTables : m # n => m \in SyncedTables'
  BY DEF SyncedTables, Put
<1>2. t.synced => n \in SyncedTables'
  BY DEF SyncedTables, Put
<1>3. ASSUME NEW r \in Found', NEW m \in FilesOf(r) PROVE m \in SyncedTables'
  BY <1>1, <1>2 DEF FoundFiles, Fresh
<1>4. ASSUME NEW m \in version' PROVE m \in SyncedTables'
  BY <1>1, <1>2 DEF FoundFiles, Fresh
<1> QED
  BY <1>3, <1>4 DEF FoundFiles

LEMMA FoundFilesStay ==
  ASSUME FoundFiles, Found' \subseteq Found, UNCHANGED <<tables, version>>
  PROVE  FoundFiles' /\ SyncedTables' = SyncedTables
BY DEF FoundFiles, SyncedTables

LEMMA SoundOpen ==
  ASSUME DBImplAssumption, Typed, Numbered, Sound, ~ deleting, Open
  PROVE  Sound'
<1>a. FilesTyped
  BY DEF Typed
<1>1. CASE NewDB
  <2> DEFINE edit == [added |-> {}, deleted |-> {}, log |-> 0, next |-> 2, last |-> 0]
             s == <<{edit}>>
  <2>1. edit \in Edits /\ edit.added = {}
    BY DEF Edits
  <2>2. {edit} \in EditRecords
    BY <2>1 DEF EditRecords
  <2>3. /\ current' = 1 /\ manifests'[1] = [records |-> s, synced |-> 0]
        /\ UNCHANGED <<tables, version, pc, flush, compact, deleting>> /\ pc = "closed"
    BY <1>1 DEF NewDB, Put, memory, bg
  <2> HIDE DEF edit
  <2>4. Recoverable([records |-> s, synced |-> 0]) = {s}
    BY <2>2, RecoverableOne, 0 \in {0, 1}
  <2>5. Whole(s) /\ FilesOf(s) = {}
    BY <2>1, OneEdit
  <2> HIDE DEF s
  <2>6. Found' = {s} /\ Records' = s
    BY <2>3, <2>4 DEF Found, Records
  <2>7. FoundFiles'
    BY <2>3, <2>5, <2>6 DEF Sound, FoundFiles, SyncedTables
  <2>8. Alone' /\ UpToDate' /\ NoneTorn'
    BY <1>1, <2>3, <2>5, <2>6 DEF Sound, Alone, UpToDate, NoneTorn
  <2> QED
    BY <2>7, <2>8 DEF Sound
<1>2. CASE Recover
  <2>1. Records # << >> /\ current # 0
    BY <1>2 DEF Recover, Records, IsCorrupt
  <2>2. Records \in Found
    <3>1. Records \in Seq(EditRecords)
      BY <1>a, <2>1, FoundTyped
    <3>2. Len(Records) >= 1
      BY <2>1, <3>1, EmptySeq
    <3> QED
      BY <1>a, <2>1, <3>2, FoundTyped
  <2>3. /\ pc' = "replay" /\ version' = FilesOf(Records)
        /\ UNCHANGED <<tables, manifests, current, flush, compact, deleting, bgError>>
    BY <1>2 DEF Recover, disk, Records, bg
  <2>4. Found' = Found /\ Records' = Records
    BY <2>1, <2>3, FoundStays
  <2>5. FoundFiles'
    BY <2>2, <2>3, <2>4 DEF Sound, FoundFiles, SyncedTables
  <2> QED
    BY <2>3, <2>4, <2>5 DEF Sound, Alone, UpToDate, NoneTorn
<1>3. ASSUME NEW n \in DOMAIN logs, ReplayRecord(n) \/ ReplayEnd(n) PROVE Sound'
  <2>1. /\ pc = "replay" /\ UNCHANGED <<pc, manifests, current, flush, compact, deleting, bgError>>
    BY <1>3 DEF ReplayRecord, ReplayEnd, Replaying, bg
  <2>2. Found' = Found /\ (current # 0 => Records' = Records)
    BY <2>1, FoundStays
  <2>3. FoundFiles'
    <3>1. CASE UNCHANGED <<tables, version>>
      BY <2>2, <3>1, FoundFilesStay DEF Sound
    <3>2. ASSUME NEW entries, WriteLevel0Table(entries) PROVE FoundFiles'
      <4>1. TableOf(entries).synced
        BY DEF TableOf
      <4> QED
        BY <2>2, <3>2, <4>1, FoundFilesPut DEF Sound, WriteLevel0Table
    <3> QED
      BY <1>3, <3>1, <3>2 DEF ReplayRecord, ReplayEnd
  <2> QED
    BY <2>1, <2>2, <2>3 DEF Sound, Alone, UpToDate, NoneTorn
<1>4. CASE OpenLog
  <2>1. /\ pc' = "log"
        /\ UNCHANGED <<tables, version, manifests, current, flush, compact, deleting, bgError>>
    BY <1>4 DEF OpenLog, bg
  <2>2. Found' = Found /\ (current # 0 => Records' = Records)
    BY <2>1, FoundStays
  <2> QED
    BY <2>1, <2>2, FoundFilesStay DEF Sound, Alone, UpToDate, NoneTorn
<1>5. CASE OpenManifest
  <2>1. /\ pc = "log" /\ pc' = "manifest"
        /\ UNCHANGED <<tables, version, current, flush, compact, deleting, bgError>>
    BY <1>5 DEF OpenManifest, bg, memory
  <2>2. manifest # current /\ current # 0
    BY <2>1 DEF Numbered, Numbers, Typed, MemoryTyped, FilesTyped
  <2>3. manifests'[current] = manifests[current]
    BY <1>5, <1>a, <2>2 DEF OpenManifest, Put, FilesTyped
  <2>4. Found' = Found /\ Records' = Records
    BY <2>1, <2>2, <2>3, FoundStays
  <2> QED
    BY <2>1, <2>4, FoundFilesStay DEF Sound, Alone, UpToDate, NoneTorn
<1>6. CASE OpenFails
  <2>1. Forget /\ UNCHANGED <<tables, manifests, current>>
    BY <1>6 DEF OpenFails, disk
  <2>2. Found' = Found /\ (current # 0 => Records' = Records)
    BY <2>1, FoundStays
  <2> QED
    BY <2>1, <2>2, SoundForget DEF Sound, FoundFiles, SyncedTables, NoneTorn
<1>7. CASE OpenInstall
  <2> DEFINE s == <<{WriteSnapshot}>>
  <2>1. /\ pc = "manifest" /\ pc' = "open" /\ current' = manifest
        /\ UNCHANGED <<tables, manifests, version, bgError>>
    BY <1>7 DEF OpenInstall
  <2>2. flush' = NoFlush /\ compact' = NoCompaction /\ ~ bgError
    BY <1>7, <2>1 DEF OpenInstall, bg, Typed, Idle
  <2>3. manifests'[current'] = [records |-> s, synced |-> 1] /\ current' # 0
    BY <2>1 DEF Numbered, Numbers, Typed, MemoryTyped, FilesTyped
  <2>4. WriteSnapshot \in Edits /\ WriteSnapshot.added = version
    BY DEF WriteSnapshot, Edits, Typed, MemoryTyped
  <2>5. {WriteSnapshot} \in EditRecords
    BY <2>4 DEF EditRecords
  <2>6. Recoverable([records |-> s, synced |-> 1]) = {s}
    BY <2>5, RecoverableOne, 1 \in {0, 1}
  <2>7. Whole(s) /\ FilesOf(s) = version /\ Len(s) = 1
    BY <2>4, OneEdit
  <2> HIDE DEF s
  <2>8. Found' = {s} /\ Records' = s /\ manifests'[current'].synced = 1
    BY <2>3, <2>6 DEF Found, Records
  <2>9. FoundFiles'
    BY <2>1, <2>7, <2>8 DEF Sound, FoundFiles, SyncedTables
  <2>10. Alone' /\ UpToDate' /\ NoneTorn'
    BY <2>1, <2>2, <2>7, <2>8 DEF Alone, UpToDate, NoneTorn, NoFlush, NoCompaction
  <2> QED
    BY <2>9, <2>10 DEF Sound
<1> QED
  BY <1>1, <1>2, <1>3, <1>4, <1>5, <1>6, <1>7 DEF Open

LEMMA SoundWriter ==
  ASSUME Typed, Numbered, Sound, ~ deleting, Writer
  PROVE  Sound'
<1>1. /\ UNCHANGED <<tables, manifests, current, pc, version, deleting, flush, compact>>
      /\ pc = "open"
  BY WriterFrame DEF bg
<1>2. Found' = Found /\ (current # 0 => Records' = Records)
  BY <1>1, FoundStays
<1>3. FoundFiles'
  BY <1>1, <1>2, FoundFilesStay DEF Sound
<1>4. Alone'
  BY <1>1 DEF Sound, Alone
<1>5. UpToDate'
  <2>1. current # 0
    BY <1>1, OpenRecords
  <2>2. bgError' \in {bgError, TRUE}
    BY DEF Writer, RoomError, RoomWait, RoomSwitch, RoomNoLog, ForceDone, BuildGroup,
       AddRecord, AddRecordFails, SyncLog, SyncLogFails, Insert, memory
  <2>3. flush.pc = "sync" => FlushedFile' = FlushedFile
    <3>1. flush.pc = "sync" => imm' = imm
      BY WriterFrame DEF RoomSwitch, Typed
    <3> QED
      BY <1>1, <3>1 DEF FlushedFile
  <2> QED
    BY <1>1, <1>2, <2>1, <2>2, <2>3 DEF Sound, UpToDate
<1>6. NoneTorn'
  BY <1>1, <1>2 DEF Sound, NoneTorn
<1> QED
  BY <1>3, <1>4, <1>5, <1>6 DEF Sound

\* LogAndApply appends an edit that adds tables that are there.
LEMMA FoundFilesEdit ==
  ASSUME Typed, Numbered, Sound, pc = "open", UNCHANGED <<current, tables, version>>,
         NEW added \in SUBSET Nat, NEW deleted \in SUBSET Nat, NEW log \in Nat,
         AppendEdit(added, deleted, log), added \subseteq SyncedTables
  PROVE  /\ FoundFiles' /\ NoneTorn'
         /\ Whole(Records) => /\ Whole(Records')
                              /\ FilesOf(Records') = (FilesOf(Records) \ deleted) \union added
<1>1. current = manifest /\ current # 0 /\ Records \in Found
  BY OpenRecords
<1>2. /\ \A r \in Found' : r \in Found \/ r = Records'
      /\ Whole(Records) => /\ Whole(Records')
                           /\ FilesOf(Records') = (FilesOf(Records) \ deleted) \union added
      /\ ~ Whole(Records) => FilesOf(Records') = FilesOf(Records)
  BY <1>1, FoundAfterEdit DEF Typed
<1>3. SyncedTables' = SyncedTables
  BY DEF SyncedTables
<1>4. FilesOf(Records) \subseteq SyncedTables
  BY <1>1 DEF Sound, FoundFiles
<1>5. FilesOf(Records') \subseteq SyncedTables
  BY <1>2, <1>4
<1> QED
  BY <1>1, <1>2, <1>3, <1>5 DEF Sound, FoundFiles, NoneTorn

LEMMA FoundFilesFailure ==
  ASSUME Typed, Numbered, Sound, pc = "open", UNCHANGED <<current, tables, version>>, EditFails
  PROVE  FoundFiles' /\ NoneTorn'
<1>1. current = manifest /\ current # 0 /\ Records \in Found
  BY OpenRecords
<1>2. /\ \A r \in Found' : r \in Found \/ r = Records'
      /\ FilesOf(Records') = FilesOf(Records)
      /\ "edit" \notin Faults => Records' = Records
  BY <1>1, FoundAfterFailure DEF Typed
<1>3. SyncedTables' = SyncedTables
  BY DEF SyncedTables
<1> QED
  BY <1>1, <1>2, <1>3 DEF Sound, FoundFiles, NoneTorn

LEMMA FoundFilesSync ==
  ASSUME Typed, Numbered, Sound, pc = "open", UNCHANGED <<current, tables>>,
         manifests' = [manifests EXCEPT ![manifest] = Synced(manifests[manifest])],
         version' \subseteq SyncedTables
  PROVE  /\ FoundFiles' /\ NoneTorn' /\ Records' = Records
         /\ manifests'[current].synced = Len(Records)
<1>1. current = manifest /\ current # 0 /\ Records \in Found /\ Len(Records) >= 1
  BY OpenRecords
<1>2. /\ \A r \in Found' : r = Records
      /\ Records' = Records
      /\ manifests'[current].synced = Len(Records)
  BY <1>1, FoundAfterSync DEF Typed
<1>3. SyncedTables' = SyncedTables
  BY DEF SyncedTables
<1> QED
  BY <1>1, <1>2, <1>3 DEF Sound, FoundFiles, NoneTorn

LEMMA SoundBackground ==
  ASSUME Typed, InUse, Numbered, Sound, ~ deleting, Background
  PROVE  Sound'
<1>0. UNCHANGED <<current, pc>> /\ pc = "open"
  BY BackgroundFrame
<1>a. current # 0
  BY <1>0, OpenRecords
<1>b. /\ \A n : TableOf(n).synced
      /\ flush.number \in Nat /\ compact.number \in Nat /\ version \subseteq Nat
      /\ compact.inputs \subseteq version /\ logfile \in Nat /\ logNumber \in Nat
  BY DEF TableOf, Typed, BgTyped, MemoryTyped, Numbered, Outputs
<1>c. Fresh(nextFile)
  BY <1>0, NextFileIsFresh
<1>d. UNCHANGED manifests => /\ Found' = Found /\ Records' = Records
                             /\ NoneTorn'
  BY <1>0, <1>a, FoundStays DEF Sound, NoneTorn
<1>1. CASE FlushStart
  <2>1. /\ UNCHANGED <<tables, manifests, version, bgError, deleting, compact>>
        /\ compact.pc \notin {"log", "sync"} /\ flush.pc = "none" /\ flush'.pc = "build"
    BY <1>1 DEF FlushStart, disk, NoFlush
  <2>2. FoundFiles'
    BY <1>d, <2>1, FoundFilesStay DEF Sound
  <2> QED
    BY <1>0, <1>d, <2>1, <2>2 DEF Sound, Alone, UpToDate
<1>2. CASE FlushBuild
  <2>1. /\ UNCHANGED <<manifests, version, bgError, deleting, compact>>
        /\ flush.pc = "build" /\ flush'.pc = "log"
        /\ tables' = tables \/ tables' = Put(tables, flush.number, TableOf(UNION imm))
    BY <1>2 DEF FlushBuild, Flushing, Typed, BgTyped
  <2>2. FoundFiles'
    <3>1. CASE tables' = tables
      BY <1>d, <2>1, <3>1, FoundFilesStay DEF Sound
    <3>2. CASE tables' = Put(tables, flush.number, TableOf(UNION imm))
      BY <1>b, <1>d, <2>1, <3>2, FoundFilesPut DEF Sound
    <3> QED
      BY <2>1, <3>1, <3>2
  <2> QED
    BY <1>0, <1>d, <2>1, <2>2 DEF Sound, Alone, UpToDate
<1>3. CASE FlushBuildFails
  <2>1. /\ UNCHANGED <<tables, manifests, version, deleting, compact>>
        /\ bgError' = TRUE /\ flush' = NoFlush
    BY <1>3 DEF FlushBuildFails, disk, BackgroundError
  <2>2. FoundFiles'
    BY <1>d, <2>1, FoundFilesStay DEF Sound
  <2> QED
    BY <1>d, <2>1, <2>2 DEF Sound, Alone, UpToDate, NoFlush
<1>4. CASE FlushLog
  <2>1. /\ UNCHANGED <<tables, version, imm, bgError, deleting, compact>>
        /\ flush.pc = "log" /\ flush'.pc = "sync" /\ flush'.number = flush.number
        /\ AppendEdit(FlushedFile, {}, logfile)
    BY <1>4 DEF FlushLog, Flushing, Typed, BgTyped, memory
  <2>2. FlushedFile \in SUBSET Nat /\ {} \in SUBSET Nat
    BY <1>b DEF FlushedFile
  <2>3. FlushedFile \subseteq SyncedTables
    BY <1>b, <2>1 DEF FlushedFile, SyncedTables, Numbered, Outputs, InUse
  <2>4. /\ FoundFiles' /\ NoneTorn'
        /\ Whole(Records) => /\ Whole(Records')
                             /\ FilesOf(Records') = (FilesOf(Records) \ {}) \union FlushedFile
    BY <1>0, <1>b, <2>1, <2>2, <2>3, FoundFilesEdit
  <2>5. FlushedFile' = FlushedFile
    BY <2>1 DEF FlushedFile
  <2>6. UpToDate'
    BY <1>0, <2>1, <2>4, <2>5 DEF Sound, Alone, UpToDate
  <2> QED
    BY <2>1, <2>4, <2>6 DEF Sound, Alone
<1>5. CASE FlushLogFails
  <2>1. /\ UNCHANGED <<tables, version, deleting, compact>>
        /\ bgError' = TRUE /\ flush' = NoFlush /\ EditFails
    BY <1>5 DEF FlushLogFails, BackgroundError
  <2>2. FoundFiles' /\ NoneTorn'
    BY <1>0, <2>1, FoundFilesFailure
  <2> QED
    BY <2>1, <2>2 DEF Sound, Alone, UpToDate, NoFlush
<1>6. CASE FlushInstall
  <2>1. /\ UNCHANGED <<tables, bgError, compact>>
        /\ manifests' = [manifests EXCEPT ![manifest] = Synced(manifests[manifest])]
        /\ version' = version \union FlushedFile
        /\ flush' = NoFlush /\ flush.pc = "sync" /\ deleting' = ~ bgError
    BY <1>6 DEF FlushInstall, Flushing
  <2>2. FlushedFile \subseteq SyncedTables
    BY <1>b, <2>1 DEF FlushedFile, SyncedTables, Numbered, Outputs, InUse
  <2>3. version' \subseteq SyncedTables
    BY <2>1, <2>2 DEF Sound, FoundFiles
  <2>4. /\ FoundFiles' /\ NoneTorn' /\ Records' = Records
        /\ manifests'[current].synced = Len(Records)
    BY <1>0, <2>1, <2>3, FoundFilesSync
  <2>5. compact.pc \notin {"log", "sync"}
    BY <2>1 DEF Sound, Alone
  <2>6. Alone'
    BY <2>1, <2>5 DEF Alone, NoFlush
  <2>7. UpToDate'
    BY <1>0, <2>1, <2>4, <2>5 DEF Sound, UpToDate, NoFlush
  <2> QED
    BY <2>4, <2>6, <2>7 DEF Sound
<1>7. CASE CompactOutput
  <2>1. /\ UNCHANGED <<manifests, version, bgError, deleting, flush>>
        /\ flush = NoFlush /\ compact.pc = "merge" /\ compact'.pc = "output"
        /\ tables' = Put(tables, nextFile, TableOfUnsynced({}))
    BY <1>7 DEF CompactOutput, Compacting, Typed, BgTyped
  <2>2. FoundFiles'
    BY <1>c, <1>d, <2>1, FoundFilesPut DEF Sound
  <2> QED
    BY <1>0, <1>d, <2>1, <2>2 DEF Sound, Alone, UpToDate, NoFlush
<1>8. CASE CompactFinish
  <2>1. /\ UNCHANGED <<manifests, version, bgError, deleting, flush>>
        /\ flush = NoFlush /\ compact.pc = "output" /\ compact'.pc = "log"
        /\ compact.number \in DOMAIN tables
        /\ tables' = [tables EXCEPT ![compact.number] = TableOf(Merged)]
    BY <1>8 DEF CompactFinish, Compacting, Typed, BgTyped, InUse, memory, Merged
  <2>2. tables' = Put(tables, compact.number, TableOf(Merged))
    BY <2>1 DEF Put
  <2>3. FoundFiles'
    BY <1>b, <1>d, <2>1, <2>2, FoundFilesPut DEF Sound
  <2> QED
    BY <1>0, <1>d, <2>1, <2>3 DEF Sound, Alone, UpToDate, NoFlush
<1>9. CASE CompactFails
  <2>1. /\ UNCHANGED <<tables, version, flush, deleting>>
        /\ compact' = NoCompaction /\ bgError' = TRUE
        /\ manifests' = manifests \/ EditFails
    BY <1>9 DEF CompactFails, BackgroundError
  <2>2. FoundFiles' /\ NoneTorn'
    <3>1. CASE manifests' = manifests
      BY <1>d, <2>1, <3>1, FoundFilesStay DEF Sound
    <3>2. CASE EditFails
      BY <1>0, <2>1, <3>2, FoundFilesFailure
    <3> QED
      BY <2>1, <3>1, <3>2
  <2> QED
    BY <1>0, <2>1, <2>2 DEF Sound, Alone, UpToDate, NoCompaction
<1>10. CASE CompactLog
  <2>1. /\ UNCHANGED <<tables, version, flush, deleting, bgError>>
        /\ flush = NoFlush /\ compact.pc = "log" /\ compact'.pc = "sync"
        /\ compact'.number = compact.number /\ compact'.inputs = compact.inputs
        /\ AppendEdit({compact.number}, compact.inputs, logNumber)
    BY <1>10 DEF CompactLog, Compacting, LogOfCompaction, memory, Typed, BgTyped
  <2>2. {compact.number} \in SUBSET Nat /\ compact.inputs \in SUBSET Nat
    BY <1>b
  <2>3. {compact.number} \subseteq SyncedTables
    BY <1>b, <2>1 DEF SyncedTables, Numbered, Outputs, InUse
  <2>4. /\ FoundFiles' /\ NoneTorn'
        /\ Whole(Records) =>
             /\ Whole(Records')
             /\ FilesOf(Records') = (FilesOf(Records) \ compact.inputs) \union {compact.number}
    BY <1>0, <1>b, <2>1, <2>2, <2>3, FoundFilesEdit
  <2>5. UpToDate'
    BY <1>0, <2>1, <2>4 DEF Sound, UpToDate, NoFlush
  <2> QED
    BY <2>1, <2>4, <2>5 DEF Sound, Alone, NoFlush
<1>11. CASE CompactInstall
  <2>1. /\ UNCHANGED <<tables, bgError, flush>>
        /\ flush = NoFlush /\ compact.pc = "sync" /\ compact' = NoCompaction
        /\ version' = (version \ compact.inputs) \union {compact.number}
        /\ manifests' = [manifests EXCEPT ![manifest] = Synced(manifests[manifest])]
        /\ deleting' = ~ bgError
    BY <1>11 DEF CompactInstall, Compacting
  <2>2. compact.number \in SyncedTables
    BY <1>b, <2>1 DEF SyncedTables, Numbered, Outputs, InUse
  <2>3. version' \subseteq SyncedTables
    BY <2>1, <2>2 DEF Sound, FoundFiles
  <2>4. /\ FoundFiles' /\ NoneTorn' /\ Records' = Records
        /\ manifests'[current].synced = Len(Records)
    BY <1>0, <2>1, <2>3, FoundFilesSync
  <2>5. Alone'
    BY <2>1 DEF Alone, NoFlush, NoCompaction
  <2>6. UpToDate'
    BY <1>0, <2>1, <2>4 DEF Sound, UpToDate, NoFlush, NoCompaction
  <2> QED
    BY <2>4, <2>5, <2>6 DEF Sound
<1> QED
  BY <1>1, <1>2, <1>3, <1>4, <1>5, <1>6, <1>7, <1>8, <1>9, <1>10, <1>11 DEF Background

\* A power loss cuts records off, and tears none.
LEMMA WholeCut ==
  ASSUME NEW f \in FileOf(EditRecords), NEW k \in f.synced..Len(f.records), Whole(f.records)
  PROVE  Whole(SubSeq(f.records, 1, k))
<1> DEFINE s == SubSeq(f.records, 1, k)
<1>1. /\ [records |-> s, synced |-> k] \in FileOf(EditRecords) /\ Len(s) = k
      /\ \A i \in 1..k : s[i] = f.records[i]
      /\ f.synced \in Nat /\ Len(f.records) \in Nat /\ DOMAIN f.records = 1..Len(f.records)
  BY CutFile, FileProperties
<1>2. DOMAIN s = 1..k
  BY <1>1 DEF FileOf
<1> HIDE DEF s
<1>3. \A i \in 1..k : i \in 1..Len(f.records)
  BY <1>1
<1> QED
  BY <1>1, <1>2, <1>3 DEF Whole, s

\* DeleteObsoleteFiles, however far it gets, deletes nothing that DB::Open would
\* look for.
LEMMA DeletionKeeps ==
  ASSUME Typed, InUse, Numbered, Sound, deleting, current' = current,
         NEW l, NEW t \in SUBSET ObsoleteTables, NEW m \in SUBSET ObsoleteManifests,
         Delete(l, t, m)
  PROVE  /\ pc = "open" /\ flush = NoFlush /\ ~ bgError /\ compact.pc # "sync" /\ current # 0
         /\ Found' = Found /\ Records' = Records /\ manifests'[current] = manifests[current]
         /\ \A r \in Found : r = Records
         /\ FilesOf(Records) = version
         /\ \A n \in version : n \in DOMAIN tables /\ n \in DOMAIN tables' /\ tables'[n] = tables[n]
         /\ version \subseteq SyncedTables'
<1>1. pc = "open" /\ flush = NoFlush /\ ~ bgError /\ compact.pc # "sync"
  BY DEF Typed, Idle, InUse, Sound, Alone
<1>2. current = manifest /\ current # 0 /\ current \in DOMAIN manifests
  BY <1>1, OpenRecords, FoundTyped DEF Typed
<1>3. manifests'[current] = manifests[current]
  BY <1>2 DEF Delete, Without, ObsoleteManifests, Typed, MemoryTyped
<1>4. Found' = Found /\ Records' = Records
  BY <1>2, <1>3, FoundStays
<1>5. FilesOf(Records) = version /\ manifests[current].synced = Len(Records)
  BY <1>1 DEF Sound, UpToDate, NoFlush
<1>6. \A r \in Found : r = Records
  <2>1. manifests[current] \in FileOf(EditRecords) /\ Len(Records) \in Nat
    BY <1>2, FoundTyped DEF Typed
  <2>2. \A r \in Recoverable(manifests[current]) :
          \E k \in Len(Records)..Len(Records) : r = SubSeq(Records, 1, k)
    BY <1>5 DEF Recoverable, Records
  <2>3. SubSeq(Records, 1, Len(Records)) = Records
    BY <1>2, FoundTyped, SubSeqFull DEF Typed
  <2>4. \A k \in Len(Records)..Len(Records) : k = Len(Records)
    BY <2>1
  <2> QED
    BY <2>2, <2>3, <2>4 DEF Found
<1>7. \A n \in version : n \in DOMAIN tables /\ n \notin t
  BY DEF ObsoleteTables, Used, InUse
<1>8. \A n \in version : n \in DOMAIN tables' /\ tables'[n] = tables[n]
  BY <1>7 DEF Delete, Without
<1>9. version \subseteq SyncedTables'
  BY <1>8 DEF Sound, FoundFiles, SyncedTables
<1> QED
  BY <1>1, <1>2, <1>3, <1>4, <1>5, <1>6, <1>7, <1>8, <1>9

LEMMA SoundStep ==
  ASSUME DBImplAssumption, Typed, InUse, Numbered, Sound, [Next]_vars
  PROVE  Sound'
<1>1. CASE DeleteObsoleteFiles
  <2>1. /\ UNCHANGED <<current, pc, version, imm, bgError, flush, compact>>
        /\ Delete(ObsoleteLogs, ObsoleteTables, ObsoleteManifests)
        /\ deleting /\ ~ deleting'
    BY <1>1 DEF DeleteObsoleteFiles, bg
  <2>2. /\ pc = "open" /\ flush = NoFlush /\ ~ bgError /\ compact.pc # "sync"
        /\ Found' = Found /\ Records' = Records /\ manifests'[current] = manifests[current]
        /\ \A r \in Found : r = Records
        /\ FilesOf(Records) = version
        /\ version \subseteq SyncedTables'
    BY <2>1, DeletionKeeps
  <2>3. FoundFiles'
    BY <2>1, <2>2 DEF FoundFiles
  <2>4. Alone' /\ UpToDate' /\ NoneTorn'
    BY <2>1, <2>2 DEF Sound, Alone, UpToDate, NoneTorn, NoFlush
  <2> QED
    BY <2>3, <2>4 DEF Sound
<1>2. CASE Kill
  <2>1. Forget /\ current' = current
    BY <1>2 DEF Kill
  <2>2. CASE UNCHANGED <<logs, tables, manifests>>
    <3>1. Found' = Found /\ (current # 0 => Records' = Records)
      BY <2>1, <2>2, FoundStays
    <3> QED
      BY <2>1, <2>2, <3>1, SoundForget DEF Sound, FoundFiles, SyncedTables, NoneTorn
  <2>3. ASSUME deleting, NEW l, NEW t \in SUBSET ObsoleteTables,
               NEW m \in SUBSET ObsoleteManifests, Delete(l, t, m)
        PROVE  Sound'
    <3>1. /\ Found' = Found /\ Records' = Records /\ current # 0
          /\ \A r \in Found : r = Records
          /\ FilesOf(Records) = version
          /\ version \subseteq SyncedTables'
      BY <2>1, <2>3, DeletionKeeps
    <3>2. NoneTorn'
      BY <2>1, <3>1 DEF Sound, NoneTorn
    <3> QED
      BY <2>1, <3>1, <3>2, SoundForget
  <2> QED
    BY <1>2, <2>2, <2>3 DEF Kill
<1>3. CASE PowerLoss
  <2>1. Forget /\ current' = current
    BY <1>3 DEF PowerLoss
  <2>2. PICK g \in Lengths(manifests) : manifests' = Surviving(manifests, g)
    BY <1>3 DEF PowerLoss
  <2>3. \A r \in Found' : r \in Found
    BY <2>1, <2>2, FoundAfterPowerLoss DEF Typed
  <2>4. \A n \in SyncedTables : n \in SyncedTables'
    BY <1>3 DEF PowerLoss, Without, SyncedTables
  <2>5. \A r \in Found' : FilesOf(r) \subseteq SyncedTables'
    BY <2>3, <2>4 DEF Sound, FoundFiles
  <2>6. NoneTorn'
    <3> SUFFICES ASSUME "edit" \notin Faults, current # 0 PROVE Whole(Records')
      BY <2>1 DEF NoneTorn
    <3> DEFINE f == manifests[current]
               k == g[current]
    <3>1. f \in FileOf(EditRecords) /\ current \in DOMAIN manifests
      BY FoundTyped DEF Typed
    <3>2. k \in f.synced..Len(f.records)
      BY <3>1, <2>2 DEF Lengths
    <3>3. Whole(f.records)
      BY DEF Sound, NoneTorn, Records
    <3>4. Whole(SubSeq(f.records, 1, k))
      BY <3>1, <3>2, <3>3, WholeCut
    <3> DEFINE cut == SubSeq(f.records, 1, k)
    <3>5. manifests'[current] = [records |-> cut, synced |-> k]
      BY <2>2, <3>1 DEF Surviving
    <3> HIDE DEF cut
    <3>6. Records' = cut
      BY <2>1, <3>5 DEF Records
    <3> QED
      BY <3>4, <3>6 DEF cut
  <2> QED
    BY <2>1, <2>5, <2>6, SoundForget
<1>4. CASE ~ deleting /\ Open
  BY <1>4, SoundOpen
<1>5. CASE ~ deleting /\ Writer
  BY <1>5, SoundWriter
<1>6. CASE ~ deleting /\ Background
  BY <1>6, SoundBackground
<1>7. ASSUME NEW inputs \in SUBSET version, CompactStart(inputs) PROVE Sound'
  <2>1. /\ UNCHANGED <<tables, manifests, current, pc, version, bgError, deleting, imm, flush>>
        /\ flush = NoFlush /\ compact = NoCompaction /\ compact'.pc = "merge"
    BY <1>7 DEF CompactStart, disk, memory
  <2>2. Found' = Found /\ (current # 0 => Records' = Records)
    BY <2>1, FoundStays
  <2>3. pc = "open" => current # 0
    BY OpenRecords
  <2>4. FoundFiles'
    BY <2>1, <2>2, FoundFilesStay DEF Sound
  <2>5. Alone' /\ NoneTorn'
    BY <2>1, <2>2 DEF Sound, Alone, NoneTorn, NoFlush
  <2>6. UpToDate'
    BY <2>1, <2>2, <2>3 DEF Sound, UpToDate, NoFlush, NoCompaction
  <2> QED
    BY <2>4, <2>5, <2>6 DEF Sound
<1>8. ASSUME \/ \E kind \in CallKinds : Enqueue(kind)
             \/ NewIterator \/ DeleteIterator \/ UNCHANGED vars
      PROVE  Sound'
  <2>1. UNCHANGED <<tables, manifests, current, pc, version, bgError, deleting, imm, flush, compact>>
    BY <1>8 DEF Enqueue, NewIterator, DeleteIterator, vars, disk, memory, bg
  <2>2. Found' = Found /\ (current # 0 => Records' = Records)
    BY <2>1, FoundStays
  <2>3. pc = "open" => current # 0
    BY OpenRecords
  <2>4. FoundFiles'
    BY <2>1, <2>2, FoundFilesStay DEF Sound
  <2>5. Alone' /\ NoneTorn'
    BY <2>1, <2>2 DEF Sound, Alone, NoneTorn
  <2>6. UpToDate'
    BY <2>1, <2>2, <2>3 DEF Sound, UpToDate, FlushedFile
  <2> QED
    BY <2>4, <2>5, <2>6 DEF Sound
<1> QED
  BY <1>1, <1>2, <1>3, <1>4, <1>5, <1>6, <1>7, <1>8 DEF Next

LEMMA AlwaysSound ==
  ASSUME DBImplAssumption
  PROVE  Spec => [](Typed /\ InUse /\ Numbered /\ Sound)
<1>1. Init => Typed /\ InUse /\ Numbered /\ Sound
  BY TypedInit, InUseInit, NumberedInit, SoundInit
<1>2. Typed /\ InUse /\ Numbered /\ Sound /\ [Next]_vars
        => Typed' /\ InUse' /\ Numbered' /\ Sound'
  BY TypedStep, InUseStep, NumberedStep, SoundStep
<1> QED
  BY <1>1, <1>2, PTL DEF Spec

\* Once DB::Open has succeeded, it never answers that the MANIFEST is corrupt or
\* that tables are missing, whatever fails and whenever the process is killed or
\* the power lost; unless an append to the MANIFEST wrote half a record, after
\* which the next edit makes it corrupt.
THEOREM DatabaseAlwaysOpens ==
  ASSUME "edit" \notin Faults
  PROVE  Spec => []DatabaseOpens
<1>1. Typed /\ Numbered /\ Sound => DatabaseOpens
  <2> SUFFICES ASSUME Typed, Numbered, Sound, current > 1
               PROVE  /\ ~ IsCorrupt(Records)
                      /\ FilesOf(Records) \subseteq DOMAIN tables
    BY DEF DatabaseOpens, Records
  <2>1. current # 0 /\ manifests[current].synced >= 1
    BY DEF Numbered, Numbers, Typed, FilesTyped
  <2>2. /\ manifests[current] \in FileOf(EditRecords) /\ Records \in Seq(EditRecords)
        /\ Len(Records) \in Nat
    BY <2>1, FoundTyped DEF Typed
  <2>3. Len(Records) >= 1
    BY <2>1, <2>2, FileProperties DEF Records
  <2>4. Records \in Found
    BY <2>1, <2>3, FoundTyped DEF Typed
  <2>5. Whole(Records)
    BY <2>1 DEF Sound, NoneTorn
  <2>6. ~ IsCorrupt(Records)
    <3>1. DOMAIN Records = 1..Len(Records)
      BY <2>2, LenProperties
    <3>2. \A i \in 1..(Len(Records) - 1) : i \in DOMAIN Records
      BY <2>2, <3>1
    <3>3. Records # << >>
      BY <2>2, <2>3, EmptySeq
    <3> QED
      BY <2>5, <3>2, <3>3 DEF IsCorrupt, Whole
  <2>7. FilesOf(Records) \subseteq DOMAIN tables
    BY <2>4 DEF Sound, FoundFiles, SyncedTables
  <2> QED
    BY <2>6, <2>7
<1> QED
  BY <1>1, AlwaysSound, DBImplAssumption, PTL
=============================================================================
