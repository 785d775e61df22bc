------------------------------ MODULE KVStore ------------------------------
(***************************************************************************)
(* What leveldb::DB (include/leveldb/db.h) promises its caller: an ordered *)
(* map, and snapshots of it that never change.  No file, level, memtable   *)
(* or compaction is visible here; VersionSet is shown to implement this.   *)
(***************************************************************************)
EXTENDS Naturals, Sequences

CONSTANTS
  Keys,    \* user keys
  Values,  \* values that may be put
  NoValue  \* what Get answers for a key that is not there (Status::NotFound)

VARIABLES
  dict,  \* the state of the database
  snaps  \* the states handed out by GetSnapshot and not released, oldest first

vars == <<dict, snaps>>

Init ==
  /\ dict = [k \in Keys |-> NoValue]
  /\ snaps = << >>

\* Put of the value v for k, or Delete, which leaves no value.
Write(k, v) ==
  /\ dict' = [dict EXCEPT ![k] = v]
  /\ UNCHANGED snaps

GetSnapshot ==
  /\ snaps' = Append(snaps, dict)
  /\ UNCHANGED dict

ReleaseSnapshot(i) ==
  /\ snaps' = [j \in 1..(Len(snaps) - 1) |-> snaps[IF j < i THEN j ELSE j + 1]]
  /\ UNCHANGED dict

Next ==
  \/ \E k \in Keys, v \in Values \union {NoValue} : Write(k, v)
  \/ GetSnapshot
  \/ \E i \in DOMAIN snaps : ReleaseSnapshot(i)

Spec == Init /\ [][Next]_vars
=============================================================================
