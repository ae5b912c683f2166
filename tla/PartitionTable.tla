--------------------------- MODULE PartitionTable ---------------------------
(***************************************************************************)
(* Writing, erasing and dumping by name (src/src/protocol.cpp): the        *)
(* partition is looked up in the tables of the disks, one disk after the   *)
(* other, and the file is programmed there, or the partition zeroed, or    *)
(* copied to a file.                                                       *)
(***************************************************************************)
EXTENDS PartitionImage

CONSTANTS
  Bounds,       \* first and last sectors of partitions
  FileSectors,  \* sectors of the file
  ChunkSizes,   \* sectors of a chunk of a sparse file
  Lun           \* of the configuration, for writing at a sector

ASSUME TableAssumption ==
  /\ Bounds \subseteq 0 .. DiskSectors - 1 /\ FileSectors \subseteq Nat \ {0}
  /\ ChunkSizes \subseteq Nat \ {0} /\ Lun \in 0 .. Luns

VARIABLES
  request,      \* "name" or "start": what to write to; "erase", "dump": by
                \* name; "zeros", "range": the same by sector
  given,        \* [at, num]: start sector and sectors of the command line
  file,         \* what to write
  tables,       \* of each disk: the first and last sector of the partition
                \* of that name, "absent", or "bad": no table at all
  lun,          \* disk that is looked at
  found,        \* partition that was found: [lun, first, last], or NotFound
  out           \* what the file that is dumped to holds: <<lun, sector>>s

tableVars == <<request, given, file, tables, lun, found, out>>

NotFound == [lun |-> 0, first |-> 0, last |-> -1]
Extents == {p \in Bounds \X Bounds : p[1] <= p[2]}
Chunks == [type : {"raw", "fill", "dontcare"}, size : ChunkSizes]
Expanded(c) == c[1].size + c[2].size

(* Sparse files of two chunks: whole, cut short in the second chunk, or in *)
(* the first, whose header is then read twice.                             *)
SparseFiles ==
  {File("sparse", Expanded(c), c) : c \in Chunks \X Chunks}
    \union {File("sparse", Expanded(c) - 1, c) : c \in {d \in Chunks \X Chunks : d[2].type = "raw"}}
    \union {File("sparse", c.size - 1, <<c, c>>) : c \in {d \in Chunks : d.type = "raw"}}

Files ==
  {File("raw", n, <<>>) : n \in FileSectors} \union {File("missing", 0, <<>>)}
    \union SparseFiles

ByName == request \in {"name", "erase", "dump"}

TableInit ==
  /\ request \in {"name", "start", "erase", "zeros", "dump", "range"}
  /\ given \in [at : IF ByName THEN {0} ELSE {0, 2},
                num : IF request \in {"zeros", "range"} THEN FileSectors ELSE {0}]
  /\ file \in IF request \in {"name", "start"} THEN Files ELSE {File("ZERO", 0, <<>>)}
  /\ tables \in [0 .. Luns -> Extents \union {<<"absent">>, <<"bad">>}]
  /\ target = "disk" => \A n \in 0 .. Luns : tables[n] = tables[0]
  /\ lun = 0 /\ found = NotFound /\ out = <<>> /\ pc = "find"

-----------------------------------------------------------------------------
(* The sectors of a partition (mutated: one more).                         *)
OneMore(p) == p.last - p.first + 2
Sectors(p) == p.last - p.first + 1

Program(at, num, n) ==
  entry' = [file |-> file, from |-> 0, at |-> at, num |-> num, lun |-> n]

(* LoadPartitionInfo: ReadGPT of one disk after the other, or of the disk  *)
(* of the computer again and again.                                        *)
Finds ==
  /\ pc = "find" /\ ByName /\ lun <= Luns /\ tables[lun] \in Extents
  /\ found' = [lun |-> lun, first |-> tables[lun][1], last |-> tables[lun][2]]
  /\ Program(found'.first, Sectors(found'), lun)
  /\ pc' = IF request = "dump" THEN "dump" ELSE "entry"
  /\ UNCHANGED <<request, given, file, tables, lun, out, target, disk, status, failed>>

FindsNot ==
  /\ pc = "find" /\ ByName /\ lun <= Luns
  /\ \/ tables[lun] \in {<<"absent">>, <<"bad">>} /\ UNCHANGED failed
     \/ failed' = TRUE          \* ReadData fails
  /\ lun' = lun + 1
  /\ UNCHANGED <<request, given, file, tables, found, out, target, entry, pc, disk, status>>

(* WipeDiskContents and DumpDiskContents give up, WriteGPT writes at the   *)
(* start sector, with and without a name, as much as there is.  All take   *)
(* sectors as they are given.                                              *)
Missing == pc = "find" /\ (~ByName \/ lun > Luns)

GiveUp ==
  /\ Missing /\ request \in {"erase", "dump"}
  /\ status' = "FILE_NOT_FOUND" /\ pc' = "done"
  /\ UNCHANGED <<tableVars, target, entry, disk, failed>>

AtGiven ==
  /\ Missing /\ request \notin {"erase", "dump"}
  /\ Program(given.at, given.num, Lun)
  /\ pc' = IF request = "range" THEN "dump" ELSE "entry"
  /\ UNCHANGED <<tableVars, target, disk, status, failed>>

(* DumpDiskContents: one FastCopy to a new file, which may not be made, or *)
(* fail on the way.  Neither protocol's FastCopy notices every failure: a  *)
(* device's raw read, the last write to the file (FirehoseTransfer,        *)
(* DiskFastCopy).                                                          *)
Copied(n) == [k \in 1 .. n |-> <<Where(entry.lun), entry.at + k - 1>>]

DumpDiskContents ==
  /\ pc = "dump" /\ pc' = "done"
  /\ \/ /\ entry.at + entry.num <= DiskSectors
        /\ out' = Copied(entry.num) /\ status' = "SUCCESS" /\ UNCHANGED failed
     \/ /\ out' \in {<<>>, Copied(entry.num \div 2)}
        /\ status' \in {"FAULT", "SUCCESS"} /\ failed' = TRUE
  /\ UNCHANGED <<request, given, file, tables, lun, found, target, entry, disk>>

TableDone ==
  /\ pc = "next" /\ pc' = "done"
  /\ UNCHANGED <<tableVars, target, entry, disk, status, failed>>

TableNext ==
  \/ Finds \/ FindsNot \/ GiveUp
  \/ AtGiven \/ DumpDiskContents \/ TableDone
  \/ ProgramPartitionEntry /\ UNCHANGED tableVars

-----------------------------------------------------------------------------
(* Of what is written by name to a partition that was found, nothing gets  *)
(* to another disk, or outside of the partition: but for zeros on a local  *)
(* disk, which go on to the end of the writer's buffer.  (A sparse file    *)
(* knows no bounds, and no disk but 0.)                                    *)
NamedWithin ==
  found # NotFound /\ file.kind # "sparse" =>
    \A n \in 0 .. Luns, k \in 0 .. DiskSectors - 1 : disk[n][k] # Blank =>
      /\ n = Where(found.lun) /\ k >= found.first
      /\ k <= found.last + (IF request = "erase" /\ target = "disk" THEN Buffer - 1 ELSE 0)

(* What is reported as written by name is there, as far as there is room   *)
(* in the partition, and an erased partition is zero, all of it: on a      *)
(* device; on a local disk, whose failures are not all noticed, if nothing *)
(* failed.  If nothing failed a dump is the partition, in order and no     *)
(* more, and a sparse file is what it expands to, but for its fill chunks, *)
(* if it is for disk 0, not cut short, and has no chunk of 4 GB.           *)
ExpandsTo(k) ==
  IF k < file.chunks[1].size THEN file.chunks[1].type ELSE file.chunks[2].type

WholeSparse ==
  /\ file.kind = "sparse" /\ file.sectors = Expanded(file.chunks)
  /\ file.chunks[1].size < Word /\ file.chunks[2].size < Word

Held(k) == disk[Where(found.lun)][found.first + k]

NamedDone ==
  pc = "done" /\ status = "SUCCESS" /\ found # NotFound =>
    /\ request = "dump" /\ ~failed =>
         out = [k \in 1 .. found.last - found.first + 1 |->
                  <<Where(found.lun), found.first + k - 1>>]
    /\ request # "dump" /\ (target = "device" \/ ~failed) =>
         /\ file.kind = "raw" =>
              \A k \in 0 .. file.sectors - 1 : k < Sectors(found) => Held(k) = k
         /\ file.kind = "ZERO" =>
              \A k \in 0 .. Sectors(found) - 1 : Held(k) = Zero
         /\ WholeSparse /\ Where(found.lun) = 0 /\ ~failed =>
              \A k \in 0 .. file.sectors - 1 :
                ExpandsTo(k) # "fill" /\ found.first + k < DiskSectors
                  => Held(k) = IF ExpandsTo(k) = "raw" THEN k ELSE Zero

(* -b with a name writes to the partition of that name: without one,       *)
(* nothing is written.                                                     *)
OnlyNamed ==
  request = "name" /\ ~failed /\ (\A n \in 0 .. Luns : tables[n] \notin Extents) =>
    \A n \in 0 .. Luns, k \in 0 .. DiskSectors - 1 : disk[n][k] = Blank
=============================================================================
