----------------------------- MODULE TableCache -----------------------------
(***************************************************************************)
(* The cache of open tables: one shard of the LRU cache of util/cache.cc   *)
(* as db/table_cache.cc uses it.  Every operation of the cache holds its   *)
(* mutex; a table is opened between the Lookup that misses and the Insert, *)
(* without it.  Handles are numbered, and the number of a freed one is     *)
(* used again, as its memory is.                                           *)
(***************************************************************************)
EXTENDS Naturals, FiniteSetsExt, SequencesExt

CONSTANTS
  FileNumbers,
  Clients,     \* threads that read tables, one at a time each
  capacity_    \* of the shard; every table is charged 1

\* What the theorems assume of the constants.
TableCacheAssumption == capacity_ \in Nat /\ IsFiniteSet(Clients)

\* The most tables that are open at a time, see OpenTablesBounded.
MaxOpenTables == Max({capacity_, Cardinality(Clients)}) + Cardinality(Clients)

Handles == 1..MaxOpenTables
NULL == 0

VARIABLES
  entry,    \* of every handle: key, refs, in_cache; refs = 0 when it is free
  lru_,     \* the LRU list, oldest first
  in_use_,  \* the in-use list, whose order means nothing
  usage_,
  client    \* of every client: what it does, its file, its handle

cache == <<entry, lru_, in_use_, usage_>>
vars  == <<entry, lru_, in_use_, usage_, client>>

Shard == [entry |-> entry, lru |-> lru_, in_use |-> in_use_, usage |-> usage_]

Idle == [pc |-> "idle"]

Init ==
  /\ entry = [h \in Handles |-> [key |-> NULL, refs |-> 0, in_cache |-> FALSE]]
  /\ lru_ = << >> /\ in_use_ = {} /\ usage_ = 0
  /\ client = [c \in Clients |-> Idle]
-----------------------------------------------------------------------------
(* The shard as a value: each operator takes one and returns the next *)

\* HandleTable: the handle that the hash table has for a key.
TableLookup(s, key) ==
  LET found == {h \in Handles : s.entry[h].in_cache /\ s.entry[h].key = key}
  IN IF found = {} THEN NULL ELSE CHOOSE h \in found : TRUE

LRU_Remove(s, h) ==
  [s EXCEPT !.lru = RemoveFirst(@, h), !.in_use = @ \ {h}]

\* Faulty variant: a handle in use stays in the LRU list.
RefInPlace(s, h) == [s EXCEPT !.entry[h].refs = @ + 1]

Ref(s, h) ==
  LET moves == s.entry[h].refs = 1 /\ s.entry[h].in_cache
      moved == [LRU_Remove(s, h) EXCEPT !.in_use = @ \union {h}]
  IN [(IF moves THEN moved ELSE s) EXCEPT !.entry[h].refs = @ + 1]

\* At no reference the deleter closes the table, and the handle is freed.
Unref(s, h) ==
  LET less == [s EXCEPT !.entry[h].refs = @ - 1]
  IN IF less.entry[h].in_cache /\ less.entry[h].refs = 1
     THEN [LRU_Remove(less, h) EXCEPT !.lru = Append(@, h)]
     ELSE less

FinishErase(s, h) ==
  IF h = NULL THEN s
  ELSE Unref([LRU_Remove(s, h) EXCEPT !.entry[h].in_cache = FALSE,
                                      !.usage = @ - 1], h)

\* Faulty variant: one handle too many is left.
EvictOldestLate(s, limit) ==
  IF s.usage > limit + 1 /\ s.lru # << >>
  THEN FinishErase(s, TableLookup(s, s.entry[Head(s.lru)].key))
  ELSE s

\* One turn of the loop: drop the oldest handle that nobody uses, if the usage
\* is not within the limit.
EvictOldest(s, limit) ==
  IF s.usage > limit /\ s.lru # << >>
  THEN FinishErase(s, TableLookup(s, s.entry[Head(s.lru)].key))
  ELSE s

\* The loop at the end of Insert, and that of Prune with a limit of 0.
EvictTo(s, limit) ==
  LET after[turns \in 0..Len(s.lru)] ==
        IF turns = 0 THEN s ELSE EvictOldest(after[turns - 1], limit)
  IN after[Len(s.lru)]

\* Insert of a new handle h, which replaces the one that has the key.
Insert(s, h, key) ==
  IF capacity_ = 0
  THEN [s EXCEPT !.entry[h] = [key |-> key, refs |-> 1, in_cache |-> FALSE]]
  ELSE LET old   == TableLookup(s, key)
           added == [s EXCEPT !.entry[h] = [key |-> key, refs |-> 2,
                                            in_cache |-> TRUE],
                              !.in_use = @ \union {h}, !.usage = @ + 1]
       IN EvictTo(FinishErase(added, old), capacity_)
-----------------------------------------------------------------------------
SetShard(s) ==
  /\ entry' = s.entry /\ lru_' = s.lru
  /\ in_use_' = s.in_use /\ usage_' = s.usage

\* FindTable of Get or NewIterator: the table is in the cache ...
FindCached(c, file) ==
  LET h == TableLookup(Shard, file) IN
  /\ client[c] = Idle /\ h # NULL
  /\ SetShard(Ref(Shard, h))
  /\ client' = [client EXCEPT ![c] = [pc |-> "read", file |-> file, handle |-> h]]

\* ... or it has to be opened.
FindMissing(c, file) ==
  /\ client[c] = Idle /\ TableLookup(Shard, file) = NULL
  /\ client' = [client EXCEPT ![c] = [pc |-> "open", file |-> file]]
  /\ UNCHANGED cache

\* Errors are not cached.
OpenFails(c) ==
  /\ client[c].pc = "open"
  /\ client' = [client EXCEPT ![c] = Idle]
  /\ UNCHANGED cache

\* The table is open: somebody else may have opened it as well.
OpenAndInsert(c) ==
  LET h == Min({x \in Handles : entry[x].refs = 0}) IN
  /\ client[c].pc = "open"
  /\ SetShard(Insert(Shard, h, client[c].file))
  /\ client' = [client EXCEPT ![c] = [pc |-> "read", file |-> client[c].file,
                                      handle |-> h]]

\* The end of Get, or UnrefEntry when the iterator is deleted.
Release(c) ==
  /\ client[c].pc = "read"
  /\ SetShard(Unref(Shard, client[c].handle))
  /\ client' = [client EXCEPT ![c] = Idle]

\* Evict, when the file is deleted: Erase of its handle.
Evict(file) ==
  /\ TableLookup(Shard, file) # NULL
  /\ SetShard(FinishErase(Shard, TableLookup(Shard, file)))
  /\ UNCHANGED client

Prune ==
  /\ lru_ # << >>
  /\ SetShard(EvictTo(Shard, 0))
  /\ UNCHANGED client

Next ==
  \/ \E c \in Clients :
       \/ \E file \in FileNumbers : FindCached(c, file) \/ FindMissing(c, file)
       \/ OpenFails(c) \/ OpenAndInsert(c) \/ Release(c)
  \/ \E file \in FileNumbers : Evict(file)
  \/ Prune

Spec == Init /\ [][Next]_vars
-----------------------------------------------------------------------------
Users(h) == {c \in Clients : client[c].pc = "read" /\ client[c].handle = h}

\* The comment of LRUCache, and its assertions: a handle has one reference for
\* every client and one for the cache, so that the table of a client is open
\* until it releases it, whoever evicts, replaces or prunes it meanwhile; a
\* handle of the cache is in one list or the other, and an erased one in none.
HandlesAreCounted ==
  LET cached == {h \in Handles : entry[h].in_cache} IN
  /\ \A h \in Handles :
       /\ entry[h].refs = Cardinality(Users(h)) + (IF h \in cached THEN 1 ELSE 0)
       /\ \A c \in Users(h) : entry[h].key = client[c].file
  /\ in_use_ = {h \in cached : entry[h].refs > 1}
  /\ ToSet(lru_) = {h \in cached : entry[h].refs = 1}
  /\ IsInjective(lru_)
  /\ usage_ = Cardinality(cached)
  /\ \A g, h \in cached : entry[g].key = entry[h].key => g = h

\* Tables are kept open by the cache or by a reader.  Release evicts nothing,
\* so that the cache may stay above its capacity with nobody reading, but only
\* by what the readers once had in use together; tables and readers that are
\* about to open one are bounded.  (So a handle is left for OpenAndInsert.)
OpenTablesBounded ==
  LET opening == {c \in Clients : client[c].pc = "open"}
  IN Cardinality({h \in Handles : entry[h].refs > 0}) + Cardinality(opening)
       <= MaxOpenTables
=============================================================================
