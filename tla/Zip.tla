-------------------------------- MODULE Zip --------------------------------
(***************************************************************************)
(* The archives of minizip: how zip.c lays entries out in a file, or over  *)
(* the disks of a spanned archive, and how unzip.c finds and reads them,   *)
(* with the Zip64 records of what does not fit two or four bytes.          *)
(*                                                                         *)
(* A file is a sequence of cells.  A header is one cell, its Zip64 field   *)
(* another.  zlib is external: n units deflate to n \div 2 + 1 cells that  *)
(* come out when the entry is closed.  Encryption, comments, raw entries,  *)
(* unzseek and failures to read or write are left out.                     *)
(***************************************************************************)
EXTENDS Naturals, FiniteSetsExt, SequencesExt

CONSTANTS
  MaxShort, MaxLong,          \* 0xffff and 0xffffffff
  Z_BUFSIZE, UNZ_BUFSIZE, SIZEDATA_INDATABLOCK,
  Kinds, Sizes, DiskSizes,    \* bounds: method and zip64 of entries, their
                              \* sizes, and disk_size
  MaxEntries, MaxOpens        \* bounds: entries, and times the writer opens

VARIABLES
  files,    \* as closed: the .zip file, then the disks from number 0 on
  zi,       \* the writer, zip64_internal, with the files as it has them
  entered,  \* of every entry, in order: its size, method and whether it closed well
  uf        \* the reader, unz64_s

vars == <<files, zi, entered, uf>>

Deflated(size) == size \div 2 + 1
CellsOf(entry) == IF entry.method = "stored" THEN entry.size ELSE Deflated(entry.size)

\* The i-th compressed cell of an entry, and what its checksum is made of.
Data(n, i) == [is |-> "data", of |-> n, at |-> i]
Crc(n) == [of |-> n]
NoCrc  == [of |-> 0]

Capped(n, max) == IF n >= max THEN max ELSE n
Extend(s, cells, i) == [s EXCEPT ![i] = @ \o cells]
-----------------------------------------------------------------------------
(* Disks of the writer *)

\* fopendisk64_file_func: the file of disk n, ".z01" being that of disk 0.
DiskAt(n) == n + 2

\* filestream
Stream(w) == IF w.disk_size = 0 THEN 1 ELSE DiskAt(w.number_disk)

\* zipGetDiskSizeAvailable, an unsigned difference.
HasRoom(w, n) ==
  LET used == Len(w.files[Stream(w)])
  IN used > w.disk_size \/ w.disk_size - used >= n

\* zipGoToNextDisk
NextDisk(w) ==
  [w EXCEPT !.files = Append(@, << >>), !.number_disk = @ + 1,
            !.number_disk_with_CD = w.number_disk + 2]

Put(w, cells) == [w EXCEPT !.files = Extend(@, cells, Stream(w))]

\* The loop of zip64FlushWriteBuffer, a cell at a time.
Flushed(w) ==
  LET written == FoldLeft(LAMBDA v, cell :
                            Put(IF v.disk_size > 0 /\ ~ HasRoom(v, 1) THEN NextDisk(v)
                                ELSE v, <<cell>>),
                          w, w.ci.buffered)
  IN [written EXCEPT !.ci.total_compressed = @ + Len(w.ci.buffered),
                     !.ci.buffered = << >>]

\* Cells on their way through buffered_data.
Buffered(w, cells) ==
  FoldLeft(LAMBDA v, cell :
             LET room == IF Len(v.ci.buffered) = Z_BUFSIZE THEN Flushed(v) ELSE v
             IN [room EXCEPT !.ci.buffered = Append(@, cell)],
           w, cells)
-----------------------------------------------------------------------------
(* zipOpenNewFileInZip4_64 *)

\* Room for the local header is looked for with the zip64 of the entry before.
ForHeader(w) ==
  LET first == w.disk_size > 0 /\ w.number_disk = 0 /\ w.number_entry = 0
      begun == IF first THEN Put(w, <<[is |-> "span"]>>) ELSE w
      need  == IF w.ci.zip64 THEN 2 ELSE 1
  IN IF w.disk_size > 0 /\ ~ HasRoom(begun, need) THEN NextDisk(begun) ELSE begun

\* The local header, whose sizes are filled in later, and its Zip64 field.
LocalHeader(n, entry) ==
  LET size == IF entry.zip64 THEN MaxLong ELSE 0
  IN <<[is |-> "local", name |-> n, method |-> entry.method, crc |-> NoCrc,
        compressed |-> size, uncompressed |-> size,
        extra |-> IF entry.zip64 THEN 1 ELSE 0]>>
     \o (IF entry.zip64 THEN <<[is |-> "extra", uncompressed |-> 0, compressed |-> 0]>>
         ELSE << >>)

\* The ci of a new entry at the end of the stream, before its streams are reset.
NewEntry(w, n, entry) ==
  [name |-> n, entry |-> entry, zip64 |-> entry.zip64,
   number_disk |-> w.number_disk, pos_local_header |-> Len(w.files[Stream(w)])]

Opened(w, n, entry) ==
  LET v == ForHeader(w)
  IN [Put(v, LocalHeader(n, entry)) EXCEPT
        !.in_opened_file = TRUE,
        !.ci = NewEntry(v, n, entry)
                 @@ [buffered |-> << >>, total_in |-> 0, total_compressed |-> 0]]

\* zipWriteInFileInZip of units, which deflate keeps to itself.
Wrote(w, units) ==
  LET from == w.ci.total_in
      in   == [w EXCEPT !.ci.total_in = @ + units]
  IN IF w.ci.entry.method = "deflated" THEN in
     ELSE Buffered(in, [i \in 1..units |-> Data(w.ci.name, from + i)])
-----------------------------------------------------------------------------
(* zipCloseFileInZipRaw64 *)

\* The central header, and its Zip64 field.
Central(ci) ==
  LET large(n) == IF n >= MaxLong THEN <<n>> ELSE << >>
      extra == large(ci.total_in) \o large(ci.total_compressed)
                 \o large(ci.pos_local_header)
  IN <<[is |-> "central", name |-> ci.name, method |-> ci.entry.method,
        crc |-> Crc(ci.name), disk |-> ci.number_disk,
        compressed |-> Capped(ci.total_compressed, MaxLong),
        uncompressed |-> Capped(ci.total_in, MaxLong),
        offset |-> Capped(ci.pos_local_header, MaxLong),
        extra |-> IF extra = << >> THEN 0 ELSE 1]>>
     \o (IF extra = << >> THEN << >> ELSE <<[is |-> "extra", fields |-> extra]>>)

\* Zip64 sizes go to a field only a caller that asked for it has left room for.
ClosesWell(ci) ==
  ci.zip64 \/ Max({ci.total_in, ci.total_compressed}) < MaxLong

\* The local header, wherever its disk is.
Updated(w) ==
  LET ci    == w.ci
      disk  == IF w.disk_size = 0 THEN 1 ELSE DiskAt(ci.number_disk)
      at    == ci.pos_local_header + 1
      large == ci.total_in >= MaxLong \/ ci.total_compressed >= MaxLong
      crc   == [w EXCEPT !.files[disk][at].crc = Crc(ci.name)]
  IN CASE large /\ ci.zip64 ->
            [crc EXCEPT !.files[disk][at + 1].uncompressed = ci.total_in,
                        !.files[disk][at + 1].compressed = ci.total_compressed]
       [] large /\ ~ ci.zip64 -> crc
       [] OTHER ->
            [crc EXCEPT !.files[disk][at].uncompressed = ci.total_in,
                        !.files[disk][at].compressed = ci.total_compressed]

\* add_data_in_datablock: the last block is filled before the next is allocated.
AddData(list, cells) ==
  FoldLeft(LAMBDA l, cell :
             IF l = << >> \/ Len(Last(l)) = SIZEDATA_INDATABLOCK THEN Append(l, <<cell>>)
             ELSE Extend(l, <<cell>>, Len(l)),
           list, cells)

FileClosed(w) ==
  LET rest == IF w.ci.entry.method = "stored" THEN << >>
              ELSE [i \in 1..Deflated(w.ci.total_in) |-> Data(w.ci.name, i)]
      all  == Flushed(Buffered(w, rest))
  IN [Updated(all) EXCEPT !.central_dir = AddData(@, Central(all.ci)),
                          !.number_entry = @ + 1, !.in_opened_file = FALSE]
-----------------------------------------------------------------------------
(* zipClose *)


NeedsZip64(w, pos) == pos >= MaxLong \/ w.number_entry > MaxShort

Finished(w) ==
  LET pos  == Len(w.files[1])
      cd   == FlattenSeq(w.central_dir)
      size == Len(cd)
      disk == IF w.disk_size > 0 THEN w.number_disk + 1 ELSE w.number_disk_with_CD
      end64 == <<[is |-> "end64", disk |-> disk, entries |-> w.number_entry,
                  size |-> size, offset |-> pos],
                 [is |-> "locator", offset |-> pos + size]>>
      end   == <<[is |-> "end", disk |-> disk,
                  entries |-> Capped(w.number_entry, MaxShort),
                  size |-> size, offset |-> Capped(pos, MaxLong)]>>
  IN Extend(w.files, cd \o (IF NeedsZip64(w, pos) THEN end64 ELSE << >>)
                       \o end, 1)
-----------------------------------------------------------------------------
(* The end of the central directory, as zipOpen4 and unzOpenInternal find it *)

NoEnd == [ok |-> FALSE]

\* SearchCentralDir, which searches from the end: where the last end record is.
SearchCentralDir(file) == Max({0} \union {i \in DOMAIN file : file[i].is = "end"})

\* SearchCentralDir64: where the locator before it leads.
SearchCentralDir64(file, central_pos) ==
  LET at == file[central_pos - 1].offset + 1
  IN IF central_pos > 1 /\ file[central_pos - 1].is = "locator" /\ file[at].is = "end64"
     THEN at ELSE 0

\* What the end records say, and the checks that follow.
EndOf(file) ==
  LET last  == SearchCentralDir(file)
      e     == file[last]
      large == e.entries = MaxShort \/ e.offset = MaxLong
      at    == SearchCentralDir64(file, last)
      info(f, pos) ==
        IF pos < f.offset + f.size THEN NoEnd
        ELSE [ok |-> TRUE, entries |-> f.entries, disk |-> f.disk,
              offset |-> f.offset, size |-> f.size]
  IN CASE last = 0 -> NoEnd
       [] last # 0 /\ ~ large -> info(e, last - 1)
       [] last # 0 /\ large /\ at # 0 -> info(file[at], at - 1)
       [] OTHER -> NoEnd

NoWriter(opens) == [open |-> FALSE, opens |-> opens]
NoReader == [open |-> FALSE]

Init ==
  /\ files = << >> /\ entered = << >>
  /\ zi = NoWriter(0) /\ uf = NoReader

\* The members set by zipOpen4; ci is not initialised.
Writer(fs, disk_size, number_disk, disk_with_CD, number_entry, central, garbage) ==
  [open |-> TRUE, opens |-> zi.opens + 1, files |-> fs, disk_size |-> disk_size,
   number_disk |-> number_disk, number_disk_with_CD |-> disk_with_CD,
   number_entry |-> number_entry, central_dir |-> central,
   in_opened_file |-> FALSE, ci |-> [zip64 |-> garbage]]

\* zipOpen4 and zipGoToFirstDisk, of an archive there is not.
ZipCreate(disk_size, garbage) ==
  /\ ~ zi.open /\ files = << >> /\ zi.opens < MaxOpens
  /\ zi' = Writer(IF disk_size = 0 THEN << << >> >> ELSE << << >>, << >> >>,
                  disk_size, 0, 0, 0, << >>, garbage)
  /\ UNCHANGED <<files, entered, uf>>

\* APPEND_STATUS_ADDINZIP: the entries go where the central directory was, and
\* to the last of the disks.
ZipAppend(garbage) ==
  /\ ~ zi.open /\ files # << >> /\ zi.opens < MaxOpens /\ ~ uf.open
  /\ LET e    == EndOf(files[1])
         size == IF Len(files) = 1 THEN 0 ELSE Max(DiskSizes)
         keep == SubSeq(files[1], 1, e.offset)
         cd   == SubSeq(files[1], e.offset + 1, e.offset + e.size)
     IN /\ e.ok
        /\ zi' = Writer([files EXCEPT ![1] = keep], size,
                        IF size = 0 THEN e.disk ELSE e.disk - 1, e.disk, e.entries,
                        AddData(<< >>, cd), garbage)
  /\ UNCHANGED <<files, entered, uf>>

\* What of the entry that is open becomes of a call that closes it.
Leaving(w) == IF w.in_opened_file THEN FileClosed(w) ELSE w
EnteredAfter(w) ==
  IF ~ w.in_opened_file THEN entered
  ELSE Append(entered, [size |-> w.ci.total_in, method |-> w.ci.entry.method,
                        ok |-> ClosesWell(w.ci)])

Entries == Len(entered) + (IF zi.open /\ zi.in_opened_file THEN 1 ELSE 0)

\* zipOpenNewFileInZip4_64, which gives up when the last entry does not close.
OpenNewFileInZip(method, zip64) ==
  /\ zi.open
  /\ Entries < MaxEntries
  /\ zi.in_opened_file => ClosesWell(zi.ci)
  /\ zi' = Opened(Leaving(zi), Entries + 1, [method |-> method, zip64 |-> zip64])
  /\ entered' = EnteredAfter(zi)
  /\ UNCHANGED <<files, uf>>

WriteInFileInZip(units) ==
  /\ zi.open /\ zi.in_opened_file
  /\ zi.ci.total_in = 0
  /\ zi' = Wrote(zi, units)
  /\ UNCHANGED <<files, entered, uf>>

CloseFileInZip ==
  /\ zi.open /\ zi.in_opened_file
  /\ zi' = FileClosed(zi)
  /\ entered' = EnteredAfter(zi)
  /\ UNCHANGED <<files, uf>>

\* zipClose, of which nothing is written when the last entry does not close.
ZipClose ==
  /\ zi.open
  /\ zi.in_opened_file => ClosesWell(zi.ci)
  /\ files' = Finished(Leaving(zi))
  /\ zi' = NoWriter(zi.opens)
  /\ entered' = EnteredAfter(zi)
  /\ UNCHANGED uf
-----------------------------------------------------------------------------
(* The reader *)

\* The fields of the Zip64 extra are those that are missing in the header, in
\* this order.
Zip64Fields(c, fields) ==
  LET u64 == c.uncompressed = MaxLong
      c64 == c.compressed = MaxLong
  IN [uncompressed |-> IF u64 THEN fields[1] ELSE c.uncompressed,
      compressed   |-> IF c64 THEN fields[IF u64 THEN 2 ELSE 1] ELSE c.compressed,
      offset       |-> IF c.offset = MaxLong THEN Last(fields) ELSE c.offset]

\* unz64local_GetCurrentFileInfoInternal
InfoAt(pos) ==
  LET c == files[1][pos + 1]
  IN IF pos >= Len(files[1]) \/ (pos < Len(files[1]) /\ c.is # "central") THEN NoEnd
     ELSE [ok |-> TRUE, name |-> c.name, method |-> c.method, crc |-> c.crc,
           disk_num_start |-> c.disk, next |-> pos + 1 + c.extra]
          @@ Zip64Fields(c, IF c.extra = 0 THEN << >> ELSE files[1][pos + 2].fields)

NoRead == [open |-> FALSE]

\* The current file is the one at pos.
At(u, pos, num_file) ==
  LET Info(cur) == [u EXCEPT !.pos = pos, !.num_file = num_file, !.cur = cur,
                             !.ok = cur.ok]
  IN Info(InfoAt(pos))

\* unzOpenInternal and unzGoToFirstFile
UnzOpen ==
  /\ ~ zi.open /\ files # << >> /\ ~ uf.open
  /\ LET e == EndOf(files[1]) IN
       uf' = IF ~ e.ok THEN NoReader
             ELSE At([open |-> TRUE, gi |-> e, number_disk |-> e.disk, read |-> NoRead,
                      result |-> "none", pos |-> 0, num_file |-> 0, cur |-> NoEnd,
                      ok |-> FALSE],
                     e.offset, 0)
  /\ UNCHANGED <<files, zi, entered>>

\* UNZ_END_OF_LIST_OF_FILE
AtEnd(u) == ~ u.ok \/ (u.gi.entries # MaxShort /\ u.num_file + 1 = u.gi.entries)

\* unzClose, which closes the entry that is open too.
UnzClose ==
  /\ uf.open
  /\ uf' = NoReader
  /\ UNCHANGED <<files, zi, entered>>

GoToNextFile ==
  /\ uf.open /\ ~ uf.read.open
  /\ uf' = IF AtEnd(uf) THEN [uf EXCEPT !.result = "end"]
           ELSE At([uf EXCEPT !.result = "none"], uf.cur.next, uf.num_file + 1)
  /\ UNCHANGED <<files, zi, entered>>

\* The files a walk from the first one sees.
Walk(u) ==
  FoldLeft(LAMBDA seen, i :
             IF seen # << >> /\ AtEnd(Last(seen)) THEN seen
             ELSE Append(seen, IF seen = << >> THEN At(u, u.gi.offset, 0)
                               ELSE At(u, Last(seen).cur.next, Last(seen).num_file + 1)),
           << >>, [i \in 1..(MaxEntries + 1) |-> i])

\* unzLocateFile: when there is no such file all but current_file_ok is restored.
LocateFile(name) ==
  /\ uf.open /\ ~ uf.read.open /\ uf.ok
  /\ LET seen == Walk(uf)
         with == {i \in DOMAIN seen : seen[i].ok /\ seen[i].cur.name = name}
     IN uf' = IF with # {} THEN [seen[Min(with)] EXCEPT !.result = "located"]
              ELSE [uf EXCEPT !.ok = Last(seen).ok, !.result = "missing"]
  /\ UNCHANGED <<files, zi, entered>>

\* What unzGetFilePos64 gives of the current file, and unzGoToFilePos64 with what
\* was got at the i-th.
FilePos(u) == [pos |-> u.pos, num |-> u.num_file]

GoToFilePos(i) ==
  /\ uf.open /\ ~ uf.read.open
  /\ LET seen == Walk(uf)
         at   == FilePos(seen[i])
     IN /\ i \in DOMAIN seen /\ seen[i].ok
        /\ uf' = At([uf EXCEPT !.result = "none"], at.pos, at.num)
  /\ UNCHANGED <<files, zi, entered>>

\* unzGetOffset64: 0 for a file that unzSetOffset64 went to.
Offset(u) ==
  IF u.gi.entries \notin {0, MaxShort} /\ u.num_file = u.gi.entries THEN 0 ELSE u.pos

\* unzSetOffset64 with what was got at the i-th file: its number is not known.
SetOffset(i) ==
  /\ uf.open /\ ~ uf.read.open
  /\ LET seen == Walk(uf) IN
       /\ i \in DOMAIN seen /\ seen[i].ok
       /\ uf' = At([uf EXCEPT !.result = "none"], Offset(seen[i]), uf.gi.entries)
  /\ UNCHANGED <<files, zi, entered>>

\* unzGoToNextDisk opens the file of a disk.
DiskFile(disk) == IF disk = uf.gi.disk THEN 1 ELSE DiskAt(disk)

\* unz64local_CheckCurrentFileCoherencyHeader
Coherent(cur, local) ==
  /\ local.is = "local"
  /\ local.method = cur.method /\ local.crc = cur.crc
  /\ local.compressed \in {MaxLong, cur.compressed}
  /\ local.uncompressed \in {MaxLong, cur.uncompressed}

\* unzOpenCurrentFile3
OpenCurrentFile ==
  /\ uf.open /\ uf.ok /\ ~ uf.read.open
  /\ LET cur   == uf.cur
         local == files[DiskFile(cur.disk_num_start)][cur.offset + 1]
     IN uf' = IF ~ Coherent(cur, local)
              THEN [uf EXCEPT !.number_disk = cur.disk_num_start, !.result = "bad"]
              ELSE [uf EXCEPT
                      !.number_disk = cur.disk_num_start, !.result = "none",
                      !.read = [open |-> TRUE, taken |-> << >>,
                                pos |-> cur.offset + 1 + local.extra,
                                rest_compressed |-> cur.compressed,
                                rest_uncompressed |-> cur.uncompressed]]
  /\ UNCHANGED <<files, zi, entered>>

\* A cell from where the reader is, or from the next disk where this one ends.
Taken(u) ==
  LET ends == u.read.pos >= Len(files[DiskFile(u.number_disk)])
      disk == IF ends THEN u.number_disk + 1 ELSE u.number_disk
      pos  == IF ends THEN 0 ELSE u.read.pos
  IN [u EXCEPT !.number_disk = disk, !.read.pos = pos + 1,
               !.read.taken = Append(@, files[DiskFile(disk)][pos + 1]),
               !.read.rest_compressed = @ - 1]

\* unzeof
Eof(u) == u.read.rest_uncompressed = 0

\* The units inflate gives: all of them, with the last cell.
Inflated(u) == IF u.read.rest_compressed = 0 THEN u.read.rest_uncompressed ELSE 0

\* A round of unzReadCurrentFile: a buffer is filled, and copied or inflated.
ReadCurrentFile ==
  /\ uf.open /\ uf.read.open /\ ~ Eof(uf)
  /\ LET n == Min({UNZ_BUFSIZE, uf.read.rest_compressed})
         u == FoldLeft(LAMBDA v, i : Taken(v), uf, [i \in 1..n |-> i])
         out == IF uf.cur.method = "stored" THEN n ELSE Inflated(u)
     IN uf' = [u EXCEPT !.read.rest_uncompressed = @ - out]
  /\ UNCHANGED <<files, zi, entered>>

\* unzCloseCurrentFile: the checksum, of an entry that has been read to its end.
CloseCurrentFile ==
  /\ uf.open /\ uf.read.open
  /\ LET name == uf.cur.crc.of
         good == uf.read.taken = [i \in DOMAIN uf.read.taken |-> Data(name, i)]
     IN uf' = [uf EXCEPT !.read = NoRead,
                         !.result = IF ~ Eof(uf) THEN "none"
                                    ELSE IF good THEN "ok" ELSE "crc"]
  /\ UNCHANGED <<files, zi, entered>>

Next ==
  \/ \E size \in DiskSizes, garbage \in BOOLEAN : ZipCreate(size, garbage)
  \/ \E garbage \in BOOLEAN : ZipAppend(garbage)
  \/ \E kind \in Kinds : OpenNewFileInZip(kind[1], kind[2])
  \/ \E units \in Sizes : WriteInFileInZip(units)
  \/ CloseFileInZip \/ ZipClose
  \/ UnzOpen \/ UnzClose \/ GoToNextFile
  \/ \E i \in 1..MaxEntries : GoToFilePos(i) \/ SetOffset(i)
  \/ \E name \in 1..(MaxEntries + 1) : LocateFile(name)
  \/ OpenCurrentFile \/ ReadCurrentFile \/ CloseCurrentFile

Spec == Init /\ [][Next]_vars
-----------------------------------------------------------------------------
\* An archive that was closed is opened again, except for one number of entries.
Opens ==
  files # << >> /\ ~ zi.open /\ Len(entered) # MaxShort => EndOf(files[1]).ok

\* The entry the reader is at, the end of the list, and what it finds by name;
\* the reader walks on to what is no entry when there are as many as MaxShort, or
\* when it does not know the number of the one it is at.
ListIsRight ==
  uf.open =>
    LET known == uf.num_file < uf.gi.entries IN
    /\ uf.gi.entries = Len(entered)
    /\ known /\ Len(entered) # MaxShort => uf.ok
    /\ uf.ok => LET e == entered[uf.cur.name] IN
         /\ known => uf.cur.name = uf.num_file + 1
         /\ uf.cur.uncompressed = e.size /\ uf.cur.compressed = CellsOf(e)
    /\ uf.result = "end" /\ uf.ok => uf.num_file + 1 = Len(entered)

=============================================================================
