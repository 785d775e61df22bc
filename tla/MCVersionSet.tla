---------------------------- MODULE MCVersionSet ----------------------------
(* Instances of VersionSet for TLC; the bounds are given by the .cfg files. *)
EXTENDS VersionSet

\* CompactRange(NULL, NULL)
WholeRange == {<<0, MaxKey + 1>>}

\* Version::Get: the newer entry of a key is met first, in sound files.
EntriesInOrder == TypeOK /\ EntriesNeverHop
=============================================================================
