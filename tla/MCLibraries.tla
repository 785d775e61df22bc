---------------------------- MODULE MCLibraries ----------------------------
(***************************************************************************)
(* The parts of leveldb and minizip in which memory, open files and        *)
(* directories are kept, checked in one run: every behaviour is one of a   *)
(* single part.                                                            *)
(***************************************************************************)
EXTENDS Naturals

CONSTANTS MaxRank, kMaxHeight, Readers
VARIABLES next, max_height, insert, iter
List == INSTANCE SkipList

CONSTANTS FileNumbers, Clients, capacity_
VARIABLES entry, lru_, in_use_, usage_, client
Cache == INSTANCE TableCache

CONSTANTS Files, MaxMmaps, MaxOpenFiles, Processes, Threads, MaxItems
VARIABLES allowed_, tables, locks_, owner, locker, bgthread_, queue_, scheduled, ran
Env == INSTANCE PosixEnv WITH file <- tables

CONSTANTS ArenaBlock, Align, Requests, MaxAllocations
VARIABLES alloc_ptr_, alloc_bytes_remaining_, blocks_, memory_usage_, given
Memory == INSTANCE Arena

CONSTANTS Sequences_, TableNumbers, LogNumbers, ManifestNumbers, MaxCrashes,
          MaxFaults
VARIABLES dir, lost, current, step, repairer, past
Repairs == INSTANCE Repair WITH pc <- step

CONSTANTS MaxShort, MaxLong, Z_BUFSIZE, UNZ_BUFSIZE, SIZEDATA_INDATABLOCK, Kinds, Sizes,
          DiskSizes, MaxEntries, MaxOpens
VARIABLES files, zi, entered, uf
Archive == INSTANCE Zip

VARIABLE part

\* What the parts that are proved about assume of their constants.
ASSUME LibrariesAssumption ==
  /\ List!SkipListAssumption
  /\ Cache!TableCacheAssumption
  /\ Env!PosixEnvAssumption
  /\ Memory!ArenaAssumption
  /\ Repairs!RepairAssumption

listVars   == <<next, max_height, insert, iter>>
cacheVars  == <<entry, lru_, in_use_, usage_, client>>
envVars    == <<allowed_, tables, locks_, owner, locker, bgthread_, queue_,
                scheduled, ran>>
arenaVars  == <<alloc_ptr_, alloc_bytes_remaining_, blocks_, memory_usage_, given>>
repairVars == <<dir, lost, current, step, repairer, past>>
zipVars    == <<files, zi, entered, uf>>
vars == <<listVars, cacheVars, envVars, arenaVars, repairVars, zipVars, part>>

NoRepair ==
  /\ dir = 0 /\ lost = 0 /\ current = 0 /\ step = 0 /\ repairer = 0 /\ past = 0

Init ==
  /\ part \in {"list", "cache", "files", "lock", "thread", "arena", "repair", "zip"}
  /\ List!Init /\ Cache!Init /\ Env!Init /\ Memory!Init /\ Archive!Init
  /\ IF part = "repair" THEN Repairs!Init ELSE NoRepair

Next ==
  \/ /\ part = "list" /\ List!Next
     /\ UNCHANGED <<part, cacheVars, envVars, arenaVars, repairVars, zipVars>>
  \/ /\ part = "cache" /\ Cache!Next
     /\ UNCHANGED <<part, listVars, envVars, arenaVars, repairVars, zipVars>>
  \/ /\ \/ part = "files" /\ Env!FileNext
        \/ part = "lock" /\ Env!LockNext
        \/ part = "thread" /\ Env!ThreadNext
     /\ UNCHANGED <<part, listVars, cacheVars, arenaVars, repairVars, zipVars>>
  \/ /\ part = "arena" /\ Memory!Next
     /\ UNCHANGED <<part, listVars, cacheVars, envVars, repairVars, zipVars>>
  \/ /\ part = "repair" /\ Repairs!Next
     /\ UNCHANGED <<part, listVars, cacheVars, envVars, arenaVars, zipVars>>
  \/ /\ part = "zip" /\ Archive!Next
     /\ UNCHANGED <<part, listVars, cacheVars, envVars, arenaVars, repairVars>>

BackgroundThread == part = "thread" /\ Next /\ Env!BGThread

Spec == Init /\ [][Next]_vars /\ WF_vars(BackgroundThread)
-----------------------------------------------------------------------------
\* SkipList: a reader sees the list as it was at some moment, while it grows.
ReadsAreExact == List!ReadsAreExact

\* LRUCache and TableCache: handles are freed once, when nothing refers to them,
\* and the capacity bounds the tables that are open and not in use.
HandlesAreCounted == Cache!HandlesAreCounted
OpenTablesBounded == Cache!OpenTablesBounded

\* Limiter, PosixLockTable and Arena: permits, locks and memory are neither lost
\* nor given twice.
LimitsHold == Env!LimitsHold /\ Env!LocksAreKept /\ Memory!MemoryIsKept

\* PosixEnv::Schedule: every function runs, in the order of the calls.
ScheduledRuns == part = "thread" => Env!ScheduledRuns

\* RepairDB: no entry is destroyed, and the database opens.
RepairIsSafe == part = "repair" => Repairs!RepairIsSafe

-----------------------------------------------------------------------------
MCKinds == {<<"stored", TRUE>>, <<"deflated", FALSE>>}
=============================================================================
