------------------------------- MODULE Repair -------------------------------
(***************************************************************************)
(* RepairDB of leveldb (db/repair.cc, with BuildTable of db/builder.cc):   *)
(* the tables and logs of a directory become level 0 of a new descriptor,  *)
(* and what is replaced is moved to lost/.                                 *)
(*                                                                         *)
(* An entry is its sequence number.  A file is the set of its entries that *)
(* can be read, and whether it reads without an error.  The process may    *)
(* stop between any two operations on files and the repair be run again.   *)
(***************************************************************************)
EXTENDS Naturals, FiniteSetsExt, Functions

CONSTANTS
  Sequences_,            \* bound: the entries
  TableNumbers, LogNumbers, ManifestNumbers,  \* bound: what there is to repair
  MaxCrashes, MaxFaults  \* bounds

RepairAssumption ==
  \A S \in {Sequences_, TableNumbers, LogNumbers} : S \subseteq Nat /\ IsFiniteSet(S)

VARIABLES
  dir,       \* the files of the directory, by kind and number
  lost,      \* those of lost/
  current,   \* the descriptor CURRENT names
  pc,        \* where Run is
  repairer,  \* the members of Repairer, and the table or log at hand
  past       \* what there was at first, and how often things went wrong

vars == <<dir, lost, current, pc, repairer, past>>

Readable(entries)    == [entries |-> entries, ok |-> TRUE]
Unreadable(entries)  == [entries |-> entries, ok |-> FALSE]
Table(n)    == <<"table", n>>
Log(n)      == <<"log", n>>
Manifest(n) == <<"manifest", n>>
Temp        == <<"temp", 1>>

Numbers(kind) == {name[2] : name \in {f \in DOMAIN dir : f[1] = kind}}

\* A file takes the place of any other of its name.
Put(fs, name, content) ==
  [f \in DOMAIN fs \cup {name} |-> IF f = name THEN content ELSE fs[f]]
With(name, content) == Put(dir, name, content)
Without(name) == Restrict(dir, DOMAIN dir \ {name})

\* Members of a Repairer that has not begun.
Fresh == [logs |-> {}, manifests |-> {}, table_numbers |-> {}, tables |-> {},
          next_file_number |-> 1, at |-> 0, copy |-> 0]

\* A directory whose entries are in tables, of which some do not read to the end,
\* and in logs, and whose descriptor cannot be used.
Init ==
  \E place \in [Sequences_ -> {Table(n) : n \in TableNumbers} \cup {Log(n) : n \in LogNumbers}],
     bad \in SUBSET TableNumbers :
    LET entries(name) == {s \in Sequences_ : place[s] = name} IN
    /\ dir = [name \in {Table(n) : n \in TableNumbers} \cup {Log(n) : n \in LogNumbers}
                         \cup {Manifest(n) : n \in ManifestNumbers} |->
                IF name \in {Table(n) : n \in bad} THEN Unreadable(entries(name))
                ELSE Readable(entries(name))]
    /\ lost = << >> /\ current = Max(ManifestNumbers)
    /\ pc = "start" /\ repairer = Fresh
    /\ past = [bad |-> bad, crashes |-> 0, faults |-> 0]

\* Faulty variant: the numbers of tables are not looked at.
NextNumberOfLogs == Max({0} \cup Numbers("log")) + 1

\* FindFiles: the numbers of descriptors do not count.
NextNumber == Max({0} \cup Numbers("table") \cup Numbers("log") \cup Numbers("temp")) + 1

FindFiles ==
  /\ pc = "start"
  /\ repairer' = [Fresh EXCEPT !.logs = Numbers("log"), !.manifests = Numbers("manifest"),
                               !.table_numbers = Numbers("table"),
                               !.next_file_number = NextNumber]
  /\ pc' = "logs"
  /\ UNCHANGED <<dir, lost, current, past>>

\* ConvertLogToTable and BuildTable: a log without entries makes no table.  The
\* logs come in the order of the directory, which is any.
ConvertLogToTable(n) ==
  /\ pc = "logs" /\ n \in repairer.logs
  /\ LET number  == repairer.next_file_number
         entries == dir[Log(n)].entries
         taken   == [repairer EXCEPT !.next_file_number = number + 1, !.at = n]
     IN IF entries = {} THEN repairer' = taken /\ UNCHANGED dir
        ELSE /\ dir' = With(Table(number), Readable(entries))
             /\ repairer' = [taken EXCEPT !.table_numbers = @ \cup {number}]
  /\ pc' = "archive_log"
  /\ UNCHANGED <<lost, current, past>>

\* BuildTable fails and leaves no table; the log is put away all the same.
ConversionFails(n) ==
  /\ pc = "logs" /\ n \in repairer.logs /\ past.faults < MaxFaults
  /\ repairer' = [repairer EXCEPT !.next_file_number = @ + 1, !.at = n]
  /\ past' = [past EXCEPT !.faults = @ + 1]
  /\ pc' = "archive_log"
  /\ UNCHANGED <<dir, lost, current>>

\* ArchiveFile
Archive(name) == lost' = Put(lost, name, dir[name]) /\ dir' = Without(name)

ArchiveLog ==
  /\ pc = "archive_log"
  /\ Archive(Log(repairer.at))
  /\ repairer' = [repairer EXCEPT !.logs = @ \ {repairer.at}]
  /\ pc' = "logs"
  /\ UNCHANGED <<current, past>>

LogsAreDone ==
  /\ pc = "logs" /\ repairer.logs = {}
  /\ pc' = "scan"
  /\ UNCHANGED <<dir, lost, current, repairer, past>>

\* tables_: the number of a table, and max_sequence of what was read of it.
Info(n, entries) == [number |-> n, max_sequence |-> Max({0} \cup entries)]

\* ScanTable of one that reads to the end.
ScanTable(n) ==
  /\ pc = "scan" /\ n \in repairer.table_numbers
  /\ dir[Table(n)].ok
  /\ repairer' = [repairer EXCEPT !.table_numbers = @ \ {n},
                                  !.tables = @ \cup {Info(n, dir[Table(n)].entries)}]
  /\ UNCHANGED <<dir, lost, current, pc, past>>

\* RepairTable: the copy is begun, ...
BeginCopy(n) ==
  /\ pc = "scan" /\ n \in repairer.table_numbers
  /\ ~ dir[Table(n)].ok
  /\ LET copy == repairer.next_file_number IN
     /\ dir' = With(Table(copy), Unreadable({}))
     /\ repairer' = [repairer EXCEPT !.table_numbers = @ \ {n}, !.at = n, !.copy = copy,
                                     !.next_file_number = copy + 1]
  /\ pc' = "archive_table"
  /\ UNCHANGED <<lost, current, past>>

\* ... the source put away, ...
ArchiveTable ==
  /\ pc = "archive_table"
  /\ Archive(Table(repairer.at))
  /\ pc' = "finish_copy"
  /\ UNCHANGED <<current, repairer, past>>

\* ... the copy finished, which is left as it is when there is nothing in it, ...
FinishCopy ==
  /\ pc = "finish_copy"
  /\ LET entries == lost[Table(repairer.at)].entries
     IN IF entries = {} THEN pc' = "scan" /\ UNCHANGED dir
        ELSE pc' = "rename_copy" /\ dir' = With(Table(repairer.copy), Readable(entries))
  /\ UNCHANGED <<lost, current, repairer, past>>

\* ... and given the name of the source.
RenameCopy ==
  /\ pc = "rename_copy"
  /\ LET content == dir[Table(repairer.copy)] IN
     /\ dir' = Put(Without(Table(repairer.copy)), Table(repairer.at), content)
     /\ repairer' = [repairer EXCEPT !.tables = @ \cup {Info(repairer.at, content.entries)}]
  /\ pc' = "scan"
  /\ UNCHANGED <<lost, current, past>>

\* WriteDescriptor: all tables are put in level 0 of a descriptor that has no log.
WriteTemp ==
  /\ pc = "scan" /\ repairer.table_numbers = {}
  /\ dir' = With(Temp, [ok |-> TRUE, entries |-> {},
                        tables |-> {t.number : t \in repairer.tables},
                        next_file |-> repairer.next_file_number,
                        last_sequence |-> Max({0} \cup {t.max_sequence : t \in repairer.tables})])
  /\ pc' = "manifests"
  /\ UNCHANGED <<lost, current, repairer, past>>

ArchiveManifest(n) ==
  /\ pc = "manifests" /\ n \in repairer.manifests
  /\ Archive(Manifest(n))
  /\ repairer' = [repairer EXCEPT !.manifests = @ \ {n}]
  /\ UNCHANGED <<current, pc, past>>

RenameTemp ==
  /\ pc = "manifests" /\ repairer.manifests = {}
  /\ dir' = Put(Without(Temp), Manifest(1), dir[Temp])
  /\ pc' = "current"
  /\ UNCHANGED <<lost, current, repairer, past>>

\* SetCurrentFile
SetCurrentFile ==
  /\ pc = "current"
  /\ current' = 1 /\ pc' = "done"
  /\ UNCHANGED <<dir, lost, repairer, past>>

\* The process is stopped, and the repair run again.
Crash ==
  /\ pc # "done" /\ past.crashes < MaxCrashes
  /\ past' = [past EXCEPT !.crashes = @ + 1]
  /\ pc' = "start" /\ repairer' = Fresh
  /\ UNCHANGED <<dir, lost, current>>

Next ==
  \/ FindFiles \/ ArchiveLog \/ LogsAreDone
  \/ \E n \in LogNumbers : ConvertLogToTable(n) \/ ConversionFails(n)
  \/ \E n \in repairer.table_numbers : ScanTable(n) \/ BeginCopy(n)
  \/ ArchiveTable \/ FinishCopy \/ RenameCopy
  \/ WriteTemp \/ \E n \in repairer.manifests : ArchiveManifest(n)
  \/ RenameTemp \/ SetCurrentFile \/ Crash

Spec == Init /\ [][Next]_vars
-----------------------------------------------------------------------------
\* The entries that a program that opens the database finds.
Found == UNION {dir[Table(n)].entries : n \in dir[Manifest(1)].tables}

\* Every entry that could be read is in a file, of the directory or of lost/.
NothingDestroyed ==
  \A s \in Sequences_ : \/ \E name \in DOMAIN dir : s \in dir[name].entries
                        \/ \E name \in DOMAIN lost : s \in lost[name].entries

\* The descriptor names files that are there and read, and numbers above all.
DescriptorIsRight ==
  LET d == dir[Manifest(1)] IN
  /\ current = 1
  /\ \A n \in d.tables : Table(n) \in DOMAIN dir /\ dir[Table(n)].ok
  /\ \A n \in Numbers("table") \cup Numbers("log") : n < d.next_file
  /\ \A s \in Found : s <= d.last_sequence

\* Run: whenever it is stopped and run again, no entry is destroyed, and a run that
\* ends leaves a database that opens, with every entry that was in a log or in a
\* table that reads to the end; those of other tables too if it was not stopped.
RepairIsSafe ==
  /\ NothingDestroyed
  /\ pc = "done" =>
       /\ DescriptorIsRight
       /\ past.faults = 0 /\ (past.crashes = 0 \/ past.bad = {}) => Found = Sequences_
=============================================================================
