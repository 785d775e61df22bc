------------------------------ MODULE PosixEnv ------------------------------
(***************************************************************************)
(* What the database takes from the operating system (util/env_posix.cc):  *)
(* the limits on mapped and on open tables, the lock on the database       *)
(* directory, and the background thread.                                   *)
(***************************************************************************)
EXTENDS Naturals, FiniteSets, Sequences

CONSTANTS
  Files,      \* table files; each may be opened, read and closed repeatedly
  MaxMmaps, MaxOpenFiles,
  Processes, Threads,   \* that try to lock the database, threads of each
  MaxItems    \* bound: calls of Schedule

NoProcess == "no process"
Limiters == {"mmap", "fd"}
Limit == [l \in Limiters |-> IF l = "mmap" THEN MaxMmaps ELSE MaxOpenFiles]

\* What the theorems assume of the constants: files are finitely many, the
\* limits are numbers, and no process is called "no process".
PosixEnvAssumption ==
  /\ IsFiniteSet(Files)
  /\ MaxMmaps \in Nat /\ MaxOpenFiles \in Nat
  /\ NoProcess \notin Processes

VARIABLES
  allowed_,  \* of every Limiter
  file,      \* of every file: how far it is open, and by which limiter
  locks_,    \* of every process: is the name in its PosixLockTable?
  owner,     \* the process that holds the fcntl lock
  locker,    \* of every thread of every process: where it is in LockFile
  bgthread_, \* where BGThread is, and the item it runs
  queue_,
  scheduled, \* number of calls of Schedule; items are numbered in their order
  ran        \* the items that have run

limitVars == <<allowed_, file>>
lockVars  == <<locks_, owner, locker>>
bgVars    == <<bgthread_, queue_, scheduled, ran>>
vars      == <<limitVars, lockVars, bgVars>>

Closed == [pc |-> "closed", limiter |-> "mmap"]

Init ==
  /\ allowed_ = Limit
  /\ file = [f \in Files |-> Closed]
  /\ locks_ = [p \in Processes |-> FALSE]
  /\ owner = NoProcess
  /\ locker = [p \in Processes |-> [t \in Threads |-> "idle"]]
  /\ bgthread_ = [pc |-> "none"] /\ queue_ = << >> /\ scheduled = 0 /\ ran = << >>
-----------------------------------------------------------------------------
(* Limiter, NewRandomAccessFile, PosixMmapReadableFile, PosixRandomAccessFile *)

FileStep(f, from, to) ==
  /\ file[f].pc = from
  /\ file' = [file EXCEPT ![f] = to]
  /\ UNCHANGED <<lockVars, bgVars>>

\* What becomes of f when its limiter refuses: no mapping but a descriptor, no
\* descriptor but one to be opened for every read.
Refused(f) ==
  IF file[f].limiter = "mmap" THEN [pc |-> "check", limiter |-> "fd"]
  ELSE [pc |-> "open", limiter |-> "none"]

\* open(fname) succeeds.
OpenFile(f) ==
  /\ FileStep(f, "closed", [pc |-> "check", limiter |-> "mmap"])
  /\ UNCHANGED allowed_

\* Acquire looks first without the mutex ...
Check(f) ==
  /\ FileStep(f, "check", IF allowed_[file[f].limiter] = 0 THEN Refused(f)
                          ELSE [file[f] EXCEPT !.pc = "acquire"])
  /\ UNCHANGED allowed_

\* Faulty variant: the first look is trusted.
AcquireUnchecked(f) ==
  LET l == file[f].limiter IN
  /\ FileStep(f, "acquire", [file[f] EXCEPT !.pc = IF l = "mmap" THEN "map"
                                                   ELSE "open"])
  /\ allowed_' = [allowed_ EXCEPT ![l] = IF @ = 0 THEN 0 ELSE @ - 1]

\* ... and again with it.
Acquire(f) ==
  LET l == file[f].limiter IN
  \/ /\ FileStep(f, "acquire", [file[f] EXCEPT !.pc = IF l = "mmap" THEN "map"
                                                      ELSE "open"])
     /\ allowed_[l] > 0
     /\ allowed_' = [allowed_ EXCEPT ![l] = @ - 1]
  \/ /\ FileStep(f, "acquire", Refused(f))
     /\ allowed_[l] = 0
     /\ UNCHANGED allowed_

\* GetFileSize and mmap ...
Map(f) ==
  /\ FileStep(f, "map", [file[f] EXCEPT !.pc = "open"])
  /\ UNCHANGED allowed_

\* ... either of which may fail.
MapFails(f) ==
  /\ FileStep(f, "map", Closed)
  /\ allowed_' = [allowed_ EXCEPT !["mmap"] = @ + 1]

\* The destructor: munmap or close, ...
CloseFile(f) ==
  /\ FileStep(f, "open", IF file[f].limiter = "none" THEN Closed
                         ELSE [file[f] EXCEPT !.pc = "release"])
  /\ UNCHANGED allowed_

\* ... then Release.
Release(f) ==
  /\ FileStep(f, "release", Closed)
  /\ allowed_' = [allowed_ EXCEPT ![file[f].limiter] = @ + 1]
-----------------------------------------------------------------------------
(* LockFile and UnlockFile.  The lock of fcntl belongs to the process, and   *)
(* the close of any descriptor of the file gives it up.                      *)

LockStep(p, t, from, to) ==
  /\ locker[p][t] = from
  /\ locker' = [locker EXCEPT ![p][t] = to]
  /\ UNCHANGED <<limitVars, bgVars>>

\* open, and PosixLockTable::Insert.
LockFile(p, t) ==
  /\ LockStep(p, t, "idle", IF locks_[p] THEN "refused" ELSE "inserted")
  /\ locks_' = [locks_ EXCEPT ![p] = TRUE]
  /\ UNCHANGED owner

SetLock(p, t) ==
  \/ /\ owner \in {NoProcess, p}
     /\ LockStep(p, t, "inserted", "holds")
     /\ owner' = p
     /\ UNCHANGED locks_
  \/ /\ owner \notin {NoProcess, p}
     /\ LockStep(p, t, "inserted", "denied")
     /\ UNCHANGED <<locks_, owner>>

\* UnlockFile: F_UNLCK, then Remove.  A denied LockFile closes before Remove.
Unlock(p, t) ==
  /\ LockStep(p, t, "holds", "unlocked")
  /\ owner' = IF owner = p THEN NoProcess ELSE owner
  /\ UNCHANGED locks_

Remove(p, t) ==
  /\ \/ LockStep(p, t, "unlocked", "closing")
     \/ LockStep(p, t, "removing", "idle")
  /\ locks_' = [locks_ EXCEPT ![p] = FALSE]
  /\ UNCHANGED owner

Close(p, t) ==
  /\ \/ LockStep(p, t, "refused", "idle")
     \/ LockStep(p, t, "denied", "removing")
     \/ LockStep(p, t, "closing", "idle")
  /\ owner' = IF owner = p THEN NoProcess ELSE owner
  /\ UNCHANGED locks_
-----------------------------------------------------------------------------
(* Schedule and BGThread *)

\* Faulty variant: the thread is signalled when it is sure to be awake.
SignalIfBusy ==
  CASE bgthread_.pc = "none" -> [pc |-> "lock"]
    [] bgthread_.pc = "wait" /\ queue_ # << >> -> [pc |-> "lock"]
    [] OTHER -> bgthread_

\* The thread is started by the first call, and signalled if the queue is empty.
Signal ==
  CASE bgthread_.pc = "none" -> [pc |-> "lock"]
    [] bgthread_.pc = "wait" /\ queue_ = << >> -> [pc |-> "lock"]
    [] OTHER -> bgthread_

Schedule ==
  /\ scheduled < MaxItems
  /\ bgthread_' = Signal
  /\ queue_' = Append(queue_, scheduled + 1)
  /\ scheduled' = scheduled + 1
  /\ UNCHANGED <<limitVars, lockVars, ran>>

\* The loop, from pthread_mutex_lock to pthread_mutex_unlock.
TakeItem ==
  /\ bgthread_.pc = "lock"
  /\ \/ /\ queue_ = << >>
        /\ bgthread_' = [pc |-> "wait"]
        /\ UNCHANGED queue_
     \/ /\ queue_ # << >>
        /\ bgthread_' = [pc |-> "run", item |-> Head(queue_)]
        /\ queue_' = Tail(queue_)
  /\ UNCHANGED <<limitVars, lockVars, scheduled, ran>>

RunItem ==
  /\ bgthread_.pc = "run"
  /\ ran' = Append(ran, bgthread_.item)
  /\ bgthread_' = [pc |-> "lock"]
  /\ UNCHANGED <<limitVars, lockVars, queue_, scheduled>>

BGThread == TakeItem \/ RunItem

FileNext ==
  \E f \in Files : \/ OpenFile(f) \/ Check(f) \/ Acquire(f) \/ Map(f)
                   \/ MapFails(f) \/ CloseFile(f) \/ Release(f)

LockNext ==
  \E p \in Processes, t \in Threads :
    \/ LockFile(p, t) \/ SetLock(p, t)
    \/ Unlock(p, t) \/ Remove(p, t) \/ Close(p, t)

ThreadNext == Schedule \/ BGThread

Next == FileNext \/ LockNext \/ ThreadNext

\* The system runs the background thread; items return.
Spec == Init /\ [][Next]_vars /\ WF_vars(BGThread)
-----------------------------------------------------------------------------
Using(l) == {f \in Files : file[f].limiter = l /\ file[f].pc = "open"}

\* Limiter: tables do not run out of descriptors or mappings, however many
\* threads open them at once, and no permit is lost by an open that fails.
LimitsHold ==
  \A l \in Limiters :
    /\ Cardinality(Using(l)) <= Limit[l]
    /\ LET holding == {f \in Files : /\ file[f].limiter = l
                                     /\ file[f].pc \in {"map", "open", "release"}}
       IN allowed_[l] + Cardinality(holding) = Limit[l]

\* Env::Schedule: every function runs, in the order of the calls.
ScheduledRuns ==
  \A n \in 1..MaxItems : scheduled = n ~> ran = [i \in 1..scheduled |-> i]

\* PosixLockTable: at most one thread of a process holds the lock, and a process
\* that no thread of holds it does not keep others out.  Nothing is said of two
\* processes: a close gives up the lock that another thread holds.
LocksAreKept ==
  \A p \in Processes :
    LET holders == {t \in Threads : locker[p][t] = "holds"}
    IN  /\ Cardinality(holders) <= 1
        /\ owner = p => holders # {}
=============================================================================
