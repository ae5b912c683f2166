---------------------------- MODULE Images_proofs ----------------------------
(***************************************************************************)
(* Proofs about Images, for disks of every size and number and for every   *)
(* number of files, commands, stores and blocks.                           *)
(*                                                                         *)
(* NamedWithin, NamedDone: a partition that has been found fixes the       *)
(* entry, which stays what was looked up until it is programmed; nothing   *)
(* was written before, and a sparse file goes on where its last chunk      *)
(* ended.  RefusalEnds: a command is refused only at the end of its file,  *)
(* and no file is read again.  BlocksPlaced: of every run that is          *)
(* gathered and every block of the image, who owes what to which sector.   *)
(* TypeOK: types.  CommandsDone: each sector holds what the commands that  *)
(* are done so far say.                                                    *)
(***************************************************************************)
EXTENDS Images, SequenceTheorems, FiniteSetTheorems, WellFoundedInduction, TLAPS

Clean == [n \in 0 .. Luns |-> [k \in 0 .. DiskSectors - 1 |-> Blank]]

(* Zeros on a local disk may go on to the end of the buffer.               *)
Beyond == IF request = "erase" /\ target = "disk" THEN Buffer - 1 ELSE 0

(* d has the sectors of the disks, and only those of p are written to.     *)
Only(p, d) ==
  /\ d = [n \in 0 .. Luns |-> d[n]]
  /\ \A n \in 0 .. Luns : DOMAIN d[n] = 0 .. DiskSectors - 1
  /\ \A n \in 0 .. Luns, k \in 0 .. DiskSectors - 1 : d[n][k] # Blank =>
       n = Where(p.lun) /\ k \in p.first .. p.last + Beyond

Partition(p) ==
  /\ p.lun \in 0 .. Luns /\ p.first \in Nat /\ p.last \in Nat
  /\ p.first <= p.last /\ p.last < DiskSectors

EntryOf(p) ==
  [file |-> file, from |-> 0, at |-> p.first, num |-> Sectors(p), lun |-> p.lun]

(* Before a partition is found, nothing is written; then the entry is the  *)
(* partition's (but for sparse files, whose entry moves on).               *)
SearchInv ==
  /\ tool # "table" => found = NotFound
  /\ tool = "table" =>
       /\ lun \in Nat
       /\ file.kind # "sparse" => file.sectors \in Nat
       /\ file.kind = "ZERO" => request # "name"
       /\ tables \in [0 .. Luns -> Extents \union {<<"absent">>, <<"bad">>}]
  /\ tool = "table" /\ pc = "find" => found = NotFound /\ disk = Clean

FoundInv ==
  found # NotFound /\ file.kind # "sparse" =>
    /\ Partition(found) /\ entry = EntryOf(found) /\ Only(found, disk)
    /\ ByName /\ (pc = "entry" => request # "dump")

IInv == SearchInv /\ FoundInv

-----------------------------------------------------------------------------
LEMMA Rounded ==
  ASSUME NEW n \in Nat, n > 0
  PROVE  WholeBuffers(n) \in Nat /\ WholeBuffers(n) >= n /\ WholeBuffers(n) <= n + Buffer - 1
<1>1. n % Buffer \in 0 .. Buffer - 1
  BY DiskAssumption DEF DiskAssumption
<1>2. QED
  BY <1>1, DiskAssumption DEF WholeBuffers, DiskAssumption

(* There is a disk for every number a disk has.                            *)
LEMMA Somedisk ==
  ASSUME NEW n \in 0 .. Luns
  PROVE  Where(n) \in 0 .. Luns
  BY DiskAssumption DEF Where, DiskAssumption

(* Of an entry no more than the partition is written, and the rest of a    *)
(* buffer of zeros, however long its file is, and none of it elsewhere.    *)
LEMMA EntryFits ==
  ASSUME NEW p, Partition(p), NEW e, e = EntryOf(p), ByName, request # "dump",
         file.kind # "sparse", file.sectors \in Nat, file.kind = "ZERO" => request # "name"
  PROVE  /\ SectorsToWrite(e) \in Nat
         /\ SectorsToWrite(e) <= p.last - p.first + 1 + Beyond
         /\ Resolved(e.at) = p.first /\ e.lun = p.lun
         /\ InFile(e)
<1> DEFINE num == p.last - p.first + 1
<1>1. /\ num \in Nat /\ num > 0
      /\ e.file = file /\ e.at = p.first /\ e.num = num /\ e.lun = p.lun /\ e.from = 0
  BY DEF Partition, EntryOf, Sectors
<1>2. Beyond \in Nat
  BY DiskAssumption DEF Beyond, DiskAssumption
<1>3. Resolved(e.at) = p.first
  BY <1>1 DEF Resolved, Partition
<1> HIDE DEF num
<1>4. CASE file.kind = "raw"
  BY <1>1, <1>2, <1>3, <1>4 DEF SectorsToWrite, InFile, num
<1>5. CASE file.kind = "ZERO" /\ target = "disk"
  <2>1. SectorsToWrite(e) = WholeBuffers(num) /\ InFile(e)
    BY <1>1, <1>5 DEF SectorsToWrite, InFile
  <2>2. Beyond = Buffer - 1
    BY <1>5 DEF Beyond, ByName
  <2>3. QED
    BY <1>1, <1>3, <2>1, <2>2, Rounded, DiskAssumption DEF num, DiskAssumption
<1>6. CASE file.kind # "raw" /\ ~(file.kind = "ZERO" /\ target = "disk")
  BY <1>1, <1>2, <1>3, <1>6 DEF SectorsToWrite, InFile, num
<1>7. QED
  BY <1>4, <1>5, <1>6

(* Writing to the partition leaves the rest as it was.                     *)
LEMMA WrittenWithin ==
  ASSUME NEW p, Partition(p), NEW d, Only(p, d), NEW e,
         Resolved(e.at) = p.first, e.lun = p.lun,
         NEW num \in Int, num <= p.last - p.first + 1 + Beyond
  PROVE  Only(p, Written(d, e, e.lun, num))
<1> DEFINE w == Written(d, e, e.lun, num)
           q == Where(p.lun)
<1>0. q \in 0 .. Luns
  BY Somedisk DEF Partition
<1>1. /\ w = [n \in 0 .. Luns |-> w[n]]
      /\ \A n \in 0 .. Luns : n # q => w[n] = d[n]
      /\ w[q] = [k \in 0 .. DiskSectors - 1 |->
           IF k - p.first \in 0 .. num - 1
           THEN Data(e, e.from + k - p.first) ELSE d[q][k]]
  BY <1>0 DEF Written, Only
<1> HIDE DEF w, q
<1>2. \A n \in 0 .. Luns : DOMAIN w[n] = 0 .. DiskSectors - 1
  BY <1>0, <1>1 DEF Only
<1>3. ASSUME NEW n \in 0 .. Luns, NEW k \in 0 .. DiskSectors - 1, w[n][k] # Blank
      PROVE  n = q /\ k \in p.first .. p.last + Beyond
  <2>1. CASE n # q
    BY <2>1, <1>1, <1>3 DEF Only, q
  <2>2. CASE n = q /\ k - p.first \in 0 .. num - 1
    <3>1. Beyond \in Nat
      BY DiskAssumption DEF Beyond, DiskAssumption
    <3>2. QED
      BY <2>2, <3>1, DiskAssumption DEF Partition, DiskAssumption
  <2>3. CASE n = q /\ k - p.first \notin 0 .. num - 1
    <3>1. d[n][k] # Blank
      BY <2>3, <1>1, <1>3
    <3>2. QED
      BY <3>1, <2>3 DEF Only, q
  <2>4. QED
    BY <2>1, <2>2, <2>3
<1>4. QED
  BY <1>1, <1>2, <1>3 DEF Only, w, q

-----------------------------------------------------------------------------
LEMMA InitInv == Init => IInv
<1> SUFFICES ASSUME Init PROVE IInv
  OBVIOUS
<1>1. CASE tool = "table"
  <2>1. TableInit /\ disk = Clean
    BY <1>1 DEF Init, Clean
  <2>2. file.kind # "sparse" => file.sectors \in Nat
    BY <2>1, TableAssumption DEF TableInit, Files, SparseFiles, File, TableAssumption
  <2>3. file.kind = "ZERO" => request # "name"
    BY <2>1 DEF TableInit, Files, SparseFiles, File
  <2>4. QED
    BY <1>1, <2>1, <2>2, <2>3 DEF TableInit, IInv, SearchInv, FoundInv
<1>2. CASE tool # "table"
  BY <1>2 DEF Init, IInv, SearchInv, FoundInv
<1>3. QED
  BY <1>1, <1>2

(* The partition that is found, and an entry for it over clean disks.      *)
LEMMA FindsInv ==
  ASSUME IInv, tool = "table", tool' = tool, Finds
  PROVE  IInv'
<1>1. /\ tables[lun] \in Extents /\ lun \in 0 .. Luns /\ disk = Clean
      /\ found' = [lun |-> lun, first |-> tables[lun][1], last |-> tables[lun][2]]
      /\ entry' = [file |-> file, from |-> 0, at |-> found'.first,
                   num |-> Sectors(found'), lun |-> lun]
      /\ pc' = (IF request = "dump" THEN "dump" ELSE "entry") /\ ByName
      /\ UNCHANGED <<request, file, tables, lun, target, disk>>
  BY DiskAssumption DEF Finds, IInv, SearchInv, Program, DiskAssumption
<1>2. Partition(found')
  <2>1. \A b \in Bounds : b \in Nat /\ b < DiskSectors
    BY TableAssumption, DiskAssumption DEF TableAssumption, DiskAssumption
  <2>2. PICK a \in Bounds, b \in Bounds : tables[lun] = <<a, b>> /\ a <= b
    BY <1>1 DEF Extents
  <2>3. /\ tables[lun][1] \in Nat /\ tables[lun][2] \in Nat
        /\ tables[lun][1] <= tables[lun][2] /\ tables[lun][2] < DiskSectors
    BY <2>1, <2>2
  <2>4. QED
    BY <1>1, <2>3 DEF Partition
<1>3. Only(found', disk)
  BY <1>1 DEF Only, Clean
<1>4. entry' = EntryOf(found)'
  BY <1>1 DEF EntryOf, Sectors
<1>5. FoundInv'
  BY <1>1, <1>2, <1>3, <1>4 DEF FoundInv, Partition, Only, Where, Beyond, ByName
<1>6. SearchInv'
  BY <1>1 DEF IInv, SearchInv
<1>7. QED
  BY <1>5, <1>6 DEF IInv

(* Programming the entry.                                                  *)
LEMMA EntryInv ==
  ASSUME IInv, tool = "table", tool' = tool,
         ProgramPartitionEntry, UNCHANGED tableVars
  PROVE  IInv'
<1>1. pc' # "find"
  BY DEF ProgramPartitionEntry, EntryCopied, EntryFails, Plain,
         ChunkWritten, ChunkFill, ChunkFails, ChunksEnd, Sparse
<1>0. UNCHANGED target
  BY DEF ProgramPartitionEntry, EntryCopied, EntryFails,
         ChunkWritten, ChunkFill, ChunkFails, ChunksEnd
<1>2. SearchInv'
  BY <1>1 DEF IInv, SearchInv, tableVars
<1>3. ASSUME found # NotFound, file.kind # "sparse"
      PROVE  entry' = EntryOf(found) /\ Only(found, disk') /\ pc' # "entry"
  <2>1. /\ Partition(found) /\ entry = EntryOf(found) /\ Only(found, disk)
        /\ ByName /\ (pc = "entry" => request # "dump")
    BY <1>3 DEF IInv, FoundInv
  <2>2. /\ entry.file.kind # "sparse" /\ file.sectors \in Nat
        /\ file.kind = "ZERO" => request # "name"
    BY <2>1, <1>3 DEF EntryOf, IInv, SearchInv
  <2>3. EntryCopied \/ EntryFails
    BY <2>2 DEF ProgramPartitionEntry, ChunkWritten, ChunkFill, ChunkFails, ChunksEnd, Sparse
  <2>0. pc = "entry"
    BY <2>3 DEF EntryCopied, EntryFails, Plain
  <2>4. /\ SectorsToWrite(entry) \in Nat
        /\ SectorsToWrite(entry) <= found.last - found.first + 1 + Beyond
        /\ Resolved(entry.at) = found.first /\ entry.lun = found.lun
        /\ InFile(entry)
    BY <2>0, <2>1, <2>2, <1>3, EntryFits
  <2>5. entry' = entry /\ pc' # "entry"
    BY <2>3 DEF EntryCopied, EntryFails
  <2>6. CASE disk' = disk
    BY <2>6, <2>1, <2>5
  <2>7. CASE \E n \in {0, SectorsToWrite(entry) \div 2, SectorsToWrite(entry)} :
               disk' = Written(disk, entry, entry.lun, n)
    <3>1. PICK n \in {0, SectorsToWrite(entry) \div 2, SectorsToWrite(entry)} :
            disk' = Written(disk, entry, entry.lun, n)
      BY <2>7
    <3>2. n \in Int /\ n <= found.last - found.first + 1 + Beyond
      <4>1. \A m \in Nat : m \div 2 \in Nat /\ m \div 2 <= m
        OBVIOUS
      <4>2. found.last - found.first + 1 + Beyond \in Int
        BY <2>1, DiskAssumption DEF Partition, Beyond, DiskAssumption
      <4>3. found.last - found.first + 1 + Beyond >= 0
        BY <2>1, DiskAssumption DEF Partition, Beyond, DiskAssumption
      <4>4. QED
        BY <2>4, <3>1, <4>1, <4>2, <4>3
    <3>3. Only(found, Written(disk, entry, entry.lun, n))
      BY <2>1, <2>4, <3>2, WrittenWithin
    <3>4. QED
      BY <2>1, <2>5, <3>1, <3>3
  <2>8. Reached \subseteq {0, SectorsToWrite(entry) \div 2}
    BY <2>4 DEF Reached
  <2>9. QED
    BY <2>3, <2>6, <2>7, <2>8 DEF EntryCopied, EntryFails
<1>4. FoundInv'
  BY <1>0, <1>3 DEF FoundInv, IInv, tableVars, EntryOf, Partition, Only, Sectors,
                    Where, Beyond, ByName
<1>5. QED
  BY <1>2, <1>4 DEF IInv

LEMMA TableInv ==
  ASSUME IInv, tool = "table", tool' = tool, TableNext
  PROVE  IInv'
<1>1. CASE Finds
  BY <1>1, FindsInv
<1>2. CASE FindsNot
  BY <1>2 DEF FindsNot, IInv, SearchInv, FoundInv
<1>3. CASE GiveUp
  BY <1>3 DEF GiveUp, Missing, IInv, SearchInv, FoundInv, tableVars
<1>4. CASE AtGiven
  BY <1>4 DEF AtGiven, Missing, IInv, SearchInv, FoundInv, tableVars
<1>5. CASE DumpDiskContents
  BY <1>5 DEF DumpDiskContents, IInv, SearchInv, FoundInv, EntryOf, Only, Where, Beyond, ByName
<1>6. CASE TableDone
  BY <1>6 DEF TableDone, IInv, SearchInv, FoundInv, EntryOf, tableVars, Only, Where, Beyond, ByName
<1>7. CASE ProgramPartitionEntry /\ UNCHANGED tableVars
  BY <1>7, EntryInv
<1>8. QED
  BY <1>1, <1>2, <1>3, <1>4, <1>5, <1>6, <1>7 DEF TableNext

LEMMA NextInv == IInv /\ [Next]_vars => IInv'
<1> SUFFICES ASSUME IInv, [Next]_vars PROVE IInv'
  OBVIOUS
<1>1. CASE tool = "table" /\ TableNext /\ UNCHANGED tool
  BY <1>1, TableInv
<1>2. CASE tool # "table" /\ UNCHANGED <<tableVars, tool>>
  BY <1>2 DEF IInv, SearchInv, FoundInv, tableVars
<1>3. CASE UNCHANGED vars
  BY <1>3 DEF vars, tableVars, entryVars, IInv, SearchInv, FoundInv, EntryOf,
              Only, Where, Beyond, ByName
<1>4. QED
  BY <1>1, <1>2, <1>3 DEF Next

(* LoadPartitionInfo and ProgramPartitionEntry: whatever is written by     *)
(* name to a partition that was found stays inside it, on its disk, but    *)
(* for zeros on a local disk: less than a buffer of them may go beyond it. *)
THEOREM WithinPartition == Spec => []NamedWithin
<1>1. IInv => NamedWithin
  BY DEF IInv, SearchInv, FoundInv, NamedWithin, Only, Partition, Beyond
<1>2. QED
  BY <1>1, InitInv, NextInv, PTL DEF Spec
-----------------------------------------------------------------------------
(* d has the sectors of the disks.                                         *)
Shaped(d) ==
  /\ d = [n \in 0 .. Luns |-> d[n]]
  /\ \A n \in 0 .. Luns : DOMAIN d[n] = 0 .. DiskSectors - 1

(* What is written by name: a file there is, or zeros.                     *)
FileInv ==
  tool = "table" =>
    /\ \/ request # "dump" /\ file \in Files
       \/ file = File("ZERO", 0, <<>>)
    /\ pc \in {"find", "dump", "entry", "next", "done"}

DumpInv ==
  found # NotFound /\ request = "dump" =>
    /\ pc \in {"dump", "done"}
    /\ entry = EntryOf(found)
    /\ pc = "done" /\ status = "SUCCESS" /\ ~failed => out = Copied(Sectors(found))

(* A file that is not sparse is there from the first sector on.            *)
Filled(n) == \A k \in 0 .. n - 1 : Held(k) = Data(entry, k)

WholeInv ==
  found # NotFound /\ request # "dump" /\ file.kind # "sparse" =>
    /\ Partition(found) /\ entry = EntryOf(found) /\ Shaped(disk)
    /\ pc \in {"entry", "next", "done"}
    /\ pc # "entry" /\ status = "SUCCESS" /\ (target = "device" \/ ~failed) =>
         Filled(SectorsToWrite(entry))

(* A sparse file has its first n sectors expanded; cs is the rest of it.   *)
NoHeader == [type |-> "unknown", size |-> 0]

Rest(cs, n) ==
  \/ cs = file.chunks /\ n = 0
  \/ cs = <<file.chunks[2]>> /\ n = file.chunks[1].size
  \/ cs = <<>> /\ n = file.sectors
  \/ cs = <<NoHeader>> /\ n = file.chunks[1].size

Widened(n) ==
  \A k \in 0 .. n - 1 :
    ExpandsTo(k) # "fill" /\ found.first + k < DiskSectors =>
      disk[0][found.first + k] = IF ExpandsTo(k) = "raw" THEN k ELSE Zero

SparseEntry(cs, n) ==
  [file |-> [kind |-> "sparse", sectors |-> file.sectors, chunks |-> cs],
   from |-> n, at |-> found.first + n, num |-> Sectors(found), lun |-> found.lun]

SparseInv ==
  found # NotFound /\ WholeSparse =>
    /\ Partition(found) /\ Shaped(disk) /\ request # "dump"
    /\ pc \in {"entry", "next", "done"}
    /\ entry = SparseEntry(entry.file.chunks, entry.from)
    /\ Rest(entry.file.chunks, entry.from)
    /\ pc # "entry" /\ status = "SUCCESS" => entry.file.chunks = <<>>
    /\ failed \/ Widened(entry.from)

DoneInv == FileInv /\ DumpInv /\ WholeInv /\ SparseInv

(* What a write leaves on the disks.                                       *)
LEMMA WrittenShaped ==
  ASSUME NEW d, Shaped(d), NEW e, NEW l, Where(l) \in 0 .. Luns, NEW num \in Int
  PROVE  Shaped(Written(d, e, l, num))
<1> DEFINE w == Written(d, e, l, num)
           r == Where(l)
           D(k) == Data(e, e.from + k - Resolved(e.at))
           in(k) == k - Resolved(e.at) \in 0 .. num - 1
           s == [k \in DOMAIN d[r] |-> IF in(k) THEN D(k) ELSE d[r][k]]
<1>1. w = [d EXCEPT ![r] = s] /\ DOMAIN s = DOMAIN d[r] /\ r \in 0 .. Luns
  BY DEF Written
<1> HIDE DEF w, s, r
<1>2. w = [n \in 0 .. Luns |-> IF n = r THEN s ELSE d[n]]
  BY <1>1 DEF Shaped
<1> QED
  BY <1>1, <1>2 DEF Shaped, w

LEMMA WrittenSector ==
  ASSUME NEW d, Shaped(d), NEW e, NEW l, Where(l) \in 0 .. Luns, NEW num \in Int,
         NEW f \in Int, e.from = f, NEW a \in Int, Resolved(e.at) = a,
         NEW n \in 0 .. Luns, NEW k \in 0 .. DiskSectors - 1
  PROVE  /\ n = Where(l) /\ a <= k /\ k < a + num =>
              Written(d, e, l, num)[n][k] = Data(e, f + (k - a))
         /\ ~(n = Where(l) /\ a <= k /\ k < a + num) => Written(d, e, l, num)[n][k] = d[n][k]
<1> DEFINE w == Written(d, e, l, num)
           r == Where(l)
           D(m) == Data(e, e.from + m - Resolved(e.at))
           in(m) == m - Resolved(e.at) \in 0 .. num - 1
           s == [m \in DOMAIN d[r] |-> IF in(m) THEN D(m) ELSE d[r][m]]
<1>1. w = [d EXCEPT ![r] = s]
  BY DEF Written
<1>0. r \in 0 .. Luns
  OBVIOUS
<1>2. s[k] = IF in(k) THEN D(k) ELSE d[r][k]
  BY <1>0 DEF Shaped
<1>3. w[n] = IF n = r THEN s ELSE d[n]
  <2> HIDE DEF w, s, r
  <2> QED
    BY <1>1 DEF Shaped
<1>4. D(k) = Data(e, f + (k - a)) /\ (in(k) <=> a <= k /\ k < a + num)
  <2>1. f + k - a = f + (k - a) /\ (k - a \in 0 .. num - 1 <=> a <= k /\ k < a + num)
    BY DiskAssumption DEF DiskAssumption
  <2> QED
    BY <2>1
<1> HIDE DEF w, s, D, in, r
<1>5. w[n][k] = IF n = r /\ in(k) THEN D(k) ELSE d[n][k]
  BY <1>2, <1>3
<1> QED
  BY <1>4, <1>5 DEF w, r

(* A sparse file is two chunks; a whole one with no chunk of 4 GB has the  *)
(* sizes of its chunks, which are what a 32-bit product makes of them.     *)
LEMMA SparseChunks ==
  ASSUME file \in Files, file.kind = "sparse"
  PROVE  \E c, d \in Chunks : file.chunks = <<c, d>>
<1>1. file \in SparseFiles
  BY DEF Files, File
<1>2. \E c \in Chunks \X Chunks : file.chunks = c
  <2>1. CASE file \in {File("sparse", Expanded(c), c) : c \in Chunks \X Chunks}
    BY <2>1 DEF File
  <2>2. CASE \E c \in Chunks \X Chunks : file = File("sparse", Expanded(c) - 1, c)
    BY <2>2 DEF File
  <2>3. CASE \E c \in Chunks : file = File("sparse", c.size - 1, <<c, c>>)
    <3>1. PICK c \in Chunks : file = File("sparse", c.size - 1, <<c, c>>)
      BY <2>3
    <3>2. file.chunks = <<c, c>> /\ <<c, c>> \in Chunks \X Chunks
      BY <3>1 DEF File
    <3> QED
      BY <3>2
  <2> QED
    BY <1>1, <2>1, <2>2, <2>3 DEF SparseFiles
<1> QED
  BY <1>2

LEMMA SparseWidened ==
  ASSUME file \in Files, WholeSparse
  PROVE  \E c, d \in Chunks :
           /\ file = [kind |-> "sparse", sectors |-> c.size + d.size, chunks |-> <<c, d>>]
           /\ c.size \in Nat /\ d.size \in Nat /\ c.size > 0 /\ d.size > 0
           /\ c.size < Word /\ d.size < Word
           /\ c.type \in {"raw", "fill", "dontcare"} /\ d.type \in {"raw", "fill", "dontcare"}
<1>1. PICK c \in Chunks, d \in Chunks : file.chunks = <<c, d>>
  BY SparseChunks DEF WholeSparse
<1>2. /\ c.size \in Nat /\ d.size \in Nat /\ c.size > 0 /\ d.size > 0
      /\ c.type \in {"raw", "fill", "dontcare"} /\ d.type \in {"raw", "fill", "dontcare"}
  <2>1. \A x \in ChunkSizes : x \in Nat /\ x > 0
    BY TableAssumption DEF TableAssumption
  <2> QED
    BY <2>1 DEF Chunks
<1>3. file = [kind |-> file.kind, sectors |-> file.sectors, chunks |-> file.chunks]
  <2>1. \A c2 \in Chunks \X Chunks : \A m : File("sparse", m, c2)
          = [kind |-> "sparse", sectors |-> m, chunks |-> c2]
    BY DEF File
  <2>2. file \in SparseFiles
    BY DEF Files, File, WholeSparse
  <2>3. \E kk, m, cc : file = [kind |-> kk, sectors |-> m, chunks |-> cc]
    BY <2>2 DEF SparseFiles, File
  <2> QED
    BY <2>3
<1>4. /\ file.sectors = c.size + d.size /\ file.kind = "sparse"
      /\ c.size < Word /\ d.size < Word
  BY <1>1 DEF WholeSparse, Expanded
<1> QED
  BY <1>1, <1>2, <1>3, <1>4

LEMMA SmallMod == \A w \in Nat \ {0}, n \in Nat : n < w => n % w = n
  OBVIOUS

LEMMA InitDone == Init => DoneInv
<1> SUFFICES ASSUME Init PROVE DoneInv
  OBVIOUS
<1>1. found = NotFound
  BY DEF Init, TableInit
<1>2. FileInv
  BY DEF Init, TableInit, FileInv
<1> QED
  BY <1>1, <1>2 DEF DoneInv, DumpInv, WholeInv, SparseInv

LEMMA FindsDone ==
  ASSUME IInv, DoneInv, tool = "table", tool' = tool, Finds, IInv'
  PROVE  DoneInv'
<1>1. /\ lun \in 0 .. Luns /\ tables[lun] \in Extents /\ disk = Clean
      /\ found' = [lun |-> lun, first |-> tables[lun][1], last |-> tables[lun][2]]
      /\ entry' = [file |-> file, from |-> 0, at |-> found'.first,
                   num |-> Sectors(found'), lun |-> lun]
      /\ pc' = IF request = "dump" THEN "dump" ELSE "entry"
      /\ UNCHANGED <<request, file, tables, lun, disk>>
  BY DiskAssumption DEF Finds, IInv, SearchInv, Program, DiskAssumption
<1>2. Partition(found')
  <2>1. \A b \in Bounds : b \in Nat /\ b < DiskSectors
    BY TableAssumption, DiskAssumption DEF TableAssumption, DiskAssumption
  <2>2. PICK a \in Bounds, b \in Bounds : tables[lun] = <<a, b>> /\ a <= b
    BY <1>1 DEF Extents
  <2> QED
    BY <1>1, <2>1, <2>2 DEF Partition
<1>3. FileInv'
  BY <1>1 DEF DoneInv, FileInv
<1>4. entry' = EntryOf(found)'
  BY <1>1 DEF EntryOf, Sectors
<1>5. Shaped(disk')
  BY <1>1 DEF Shaped, Clean
<1>6. DumpInv'
  BY <1>1, <1>4 DEF DumpInv
<1>7. WholeInv'
  BY <1>1, <1>2, <1>4, <1>5 DEF WholeInv, Partition, Shaped
<1>8. SparseInv'
  <2> SUFFICES ASSUME WholeSparse PROVE SparseInv'
    BY <1>1 DEF SparseInv, WholeSparse
  <2>1. PICK c, d \in Chunks :
          file = [kind |-> "sparse", sectors |-> c.size + d.size, chunks |-> <<c, d>>]
    BY <1>1, SparseWidened DEF DoneInv, FileInv, File, WholeSparse
  <2>2. request # "dump" /\ pc' = "entry"
    BY <1>1 DEF DoneInv, FileInv, File, WholeSparse
  <2>3. /\ entry'.from = 0 /\ entry'.file.chunks = file.chunks
        /\ found'.first \in Int
    BY <1>1, <1>2 DEF Partition
  <2>4. entry' = SparseEntry(file.chunks, 0)'
    BY <1>1, <2>1, <2>3 DEF SparseEntry, Sectors
  <2>5. Rest(file.chunks, 0)'
    BY <1>1 DEF Rest
  <2>6. Widened(0)'
    BY DEF Widened
  <2> QED
    BY <1>1, <1>2, <1>5, <2>2, <2>3, <2>4, <2>5, <2>6 DEF SparseInv, Partition, Shaped
<1> QED
  BY <1>3, <1>6, <1>7, <1>8 DEF DoneInv

(* A file that is not sparse is written in one.                            *)
LEMMA PlainDone ==
  ASSUME IInv, DoneInv, tool = "table", tool' = tool, found # NotFound, file.kind # "sparse",
         ProgramPartitionEntry, UNCHANGED tableVars
  PROVE  WholeInv'
<1> SUFFICES ASSUME request # "dump" PROVE WholeInv'
  BY DEF WholeInv, tableVars
<1>1. /\ Partition(found) /\ entry = EntryOf(found) /\ Shaped(disk)
      /\ file.kind # "sparse" => entry.file.kind # "sparse"
  BY DEF DoneInv, WholeInv, EntryOf
<1>2. EntryCopied \/ EntryFails
  BY <1>1 DEF ProgramPartitionEntry, ChunkWritten, ChunkFill, ChunkFails, ChunksEnd, Sparse
<1>3. entry' = entry /\ pc' = "next" /\ entry' = EntryOf(found)'
  BY <1>1, <1>2 DEF EntryCopied, EntryFails, tableVars, EntryOf, Sectors
<1>0. UNCHANGED target
  BY <1>2 DEF EntryCopied, EntryFails
<1>4. /\ SectorsToWrite(entry) \in Nat /\ InFile(entry)
      /\ Resolved(entry.at) = found.first /\ entry.lun = found.lun /\ entry.from = 0
      /\ SectorsToWrite(entry) <= found.last - found.first + 1 + Beyond
      /\ Where(found.lun) \in 0 .. Luns
  <2>1. ByName /\ request # "dump"
    BY DEF IInv, FoundInv
  <2>2. file.sectors \in Nat /\ (file.kind = "ZERO" => request # "name")
    BY DEF IInv, SearchInv
  <2>3. entry.from = 0
    BY <1>1 DEF EntryOf
  <2> QED
    BY <1>1, <2>1, <2>2, <2>3, EntryFits, Somedisk DEF Partition
<1>5. CASE EntryCopied
  <2>0. PICK d : d = disk'
    OBVIOUS
  <2>1. d = Written(disk, entry, found.lun, SectorsToWrite(entry))
    BY <1>4, <1>5, <2>0 DEF EntryCopied
  <2>2. Shaped(d)
    BY <1>1, <1>4, <2>1, WrittenShaped DEF Partition
  <2>5. found.first + SectorsToWrite(entry) <= DiskSectors
    <3>1. CASE target = "disk"
      BY <1>4, <1>5, <3>1 DEF EntryCopied, Accepted
    <3>2. CASE target # "disk"
      BY <1>1, <1>4, <3>2, DiskAssumption DEF Beyond, Partition, DiskAssumption
    <3> QED
      BY <3>1, <3>2
  <2>3. ASSUME NEW k \in 0 .. SectorsToWrite(entry) - 1
        PROVE  disk'[Where(found.lun)][found.first + k] = Data(entry, k)
    <3>1. /\ found.first + k \in 0 .. DiskSectors - 1 /\ Where(found.lun) \in 0 .. Luns
          /\ found.first + k - found.first = k /\ 0 + k = k
          /\ found.first <= found.first + k /\ found.first + k < found.first + SectorsToWrite(entry)
          /\ found.first \in Int
      BY <1>1, <1>4, <2>5, DiskAssumption DEF Partition, DiskAssumption
    <3>2. d[Where(found.lun)][found.first + k] = Data(entry, 0 + (found.first + k - found.first))
      BY <1>1, <1>4, <2>1, <3>1, WrittenSector
    <3> QED
      BY <2>0, <3>1, <3>2
  <2>4. Filled(SectorsToWrite(entry))'
    BY <1>0, <1>3, <2>3 DEF Filled, Held, Where, tableVars, SectorsToWrite, Data
  <2> QED
    BY <1>1, <1>3, <2>0, <2>2, <2>4 DEF WholeInv, tableVars, Partition, Shaped
<1>6. CASE EntryFails
  <2>1. status' = "SUCCESS" => ~(target' = "device" \/ ~failed')
    BY <1>0, <1>6 DEF EntryFails, Unnoticed
  <2>2. PICK n \in {0, SectorsToWrite(entry) \div 2} :
          disk' = disk \/ disk' = Written(disk, entry, entry.lun, n)
    BY <1>4, <1>6 DEF EntryFails, Reached
  <2>3. PICK d : d = disk'
    OBVIOUS
  <2>4. n \in Int /\ Where(entry.lun) \in 0 .. Luns
    BY <1>1, <1>4 DEF Partition
  <2>5. Shaped(d)
    BY <1>1, <2>2, <2>3, <2>4, WrittenShaped
  <2> QED
    BY <1>1, <1>3, <2>1, <2>3, <2>5 DEF WholeInv, tableVars, Partition, Shaped
<1> QED
  BY <1>2, <1>5, <1>6

(* The chunk of a sparse file that is next, and what is left behind it.    *)
LEMMA NextChunk ==
  ASSUME NEW cs, NEW n, Rest(cs, n), cs # <<>>, file \in Files, WholeSparse,
         Head(cs).type # "unknown"
  PROVE  /\ n \in Nat /\ Head(cs).size \in Nat /\ Head(cs).size < Word
         /\ Rest(Tail(cs), n + Head(cs).size)
         /\ \A k \in n .. n + Head(cs).size - 1 : ExpandsTo(k) = Head(cs).type /\ k < file.sectors
         /\ Head(cs).type = "fill" /\ Tail(cs) # <<>> => n = 0
<1>1. PICK c, d \in Chunks :
        /\ file = [kind |-> "sparse", sectors |-> c.size + d.size, chunks |-> <<c, d>>]
        /\ c.size \in Nat /\ d.size \in Nat /\ c.size > 0 /\ d.size > 0
        /\ c.size < Word /\ d.size < Word
        /\ c.type \in {"raw", "fill", "dontcare"} /\ d.type \in {"raw", "fill", "dontcare"}
  BY SparseWidened
<1>2. /\ file.chunks = <<c, d>> /\ file.chunks[1] = c /\ file.chunks[2] = d
      /\ file.sectors = c.size + d.size
  BY <1>1
<1>3. CASE cs = <<c, d>> /\ n = 0
  <2>1. Head(cs) = c /\ Tail(cs) = <<d>> /\ n + c.size = c.size
    BY <1>1, <1>3
  <2>2. Rest(Tail(cs), n + Head(cs).size)
    BY <1>2, <2>1 DEF Rest
  <2>3. \A k \in n .. n + c.size - 1 : ExpandsTo(k) = c.type /\ k < file.sectors
    BY <1>1, <1>2, <1>3 DEF ExpandsTo
  <2> QED
    BY <1>1, <1>3, <2>1, <2>2, <2>3
<1>4. CASE cs = <<d>> /\ n = c.size
  <2>1. Head(cs) = d /\ Tail(cs) = <<>>
    BY <1>4
  <2>2. Rest(Tail(cs), n + Head(cs).size)
    BY <1>2, <1>4, <2>1 DEF Rest
  <2>3. \A k \in n .. n + d.size - 1 : ExpandsTo(k) = d.type /\ k < file.sectors
    BY <1>1, <1>2, <1>4 DEF ExpandsTo
  <2> QED
    BY <1>1, <1>4, <2>1, <2>2, <2>3
<1>5. cs # <<NoHeader>>
  BY DEF NoHeader
<1> QED
  BY <1>2, <1>3, <1>4, <1>5 DEF Rest

LEMMA BehindChunk ==
  ASSUME NEW cs, NEW n \in Int, NEW m \in Nat, m < Word, found.first \in Int,
         entry = SparseEntry(cs, n), chunk.size = m
  PROVE  /\ Size = m
         /\ Behind(entry) = SparseEntry(IF chunk.type = "fill" THEN Unread(Tail(cs)) ELSE Tail(cs), n + m)
<1>1. (found.first + n) + m = found.first + (n + m)
  OBVIOUS
<1>2. Size = m
  BY SmallMod, DiskAssumption DEF Size, DiskAssumption
<1> QED
  BY <1>1, <1>2 DEF SparseEntry, Behind, File

(* A chunk that is written or skipped.                                     *)
LEMMA ChunkDone ==
  ASSUME DoneInv, tool = "table", found # NotFound, WholeSparse,
         ChunkWritten, UNCHANGED tableVars
  PROVE  SparseInv'
<1>0. PICK cs, n, m : cs = entry.file.chunks /\ n = entry.from /\ m = Head(cs).size
  OBVIOUS
<1>1. /\ Partition(found) /\ Shaped(disk) /\ request # "dump"
      /\ entry = SparseEntry(cs, n) /\ Rest(cs, n) /\ (failed \/ Widened(n))
      /\ file \in Files
  BY <1>0 DEF DoneInv, SparseInv, FileInv, File, WholeSparse
<1>2. /\ cs # <<>> /\ Head(cs).type \in {"raw", "dontcare"} /\ pc = "entry" /\ pc' = "entry"
      /\ entry' = Behind(entry) /\ UNCHANGED target /\ chunk = Head(cs)
  BY <1>0 DEF ChunkWritten, Sparse, chunk
<1>3. /\ n \in Nat /\ m \in Nat /\ m < Word /\ Rest(Tail(cs), n + m)
      /\ \A k \in n .. n + m - 1 : ExpandsTo(k) = Head(cs).type /\ k < file.sectors
  BY <1>0, <1>1, <1>2, NextChunk
<1>4. entry' = SparseEntry(Tail(cs), n + m) /\ Size = m
  <2>1. found.first \in Int /\ n \in Int
    BY <1>1, <1>3 DEF Partition
  <2>2. chunk.size = m /\ chunk.type # "fill"
    BY <1>0, <1>2, Zenon
  <2> QED
    BY <1>1, <1>2, <1>3, <2>1, <2>2, BehindChunk
<1>5. /\ entry' = SparseEntry(entry.file.chunks, entry.from)'
      /\ Rest(entry.file.chunks, entry.from)'
  <2>1. entry'.file.chunks = Tail(cs) /\ entry'.from = n + m
    BY <1>4 DEF SparseEntry
  <2> QED
    BY <1>3, <1>4, <2>1 DEF SparseEntry, Rest, tableVars, Sectors
<1>6. PICK d : d = disk'
  OBVIOUS
<1>7. PICK e : /\ e = IF Head(cs).type = "raw" THEN entry ELSE [entry EXCEPT !.file.kind = "ZERO"]
               /\ \/ d = Written(disk, e, 0, m) /\ failed' = failed
                  \/ failed' = TRUE /\ d = disk
  BY <1>2, <1>4, <1>6 DEF ChunkWritten
<1>8. m \in Int /\ 0 \in 0 .. Luns /\ Where(0) = 0
  BY <1>3, DiskAssumption DEF DiskAssumption, Where
<1>9. Shaped(d)
  BY <1>1, <1>7, <1>8, WrittenShaped
<1>10. ASSUME ~failed', NEW k \in 0 .. n + m - 1, ExpandsTo(k) # "fill",
              found.first + k < DiskSectors
       PROVE  d[0][found.first + k] = IF ExpandsTo(k) = "raw" THEN k ELSE Zero
  <2>1. d = Written(disk, e, 0, m) /\ Widened(n)
    BY <1>1, <1>7, <1>10
  <2>2. /\ e.from = n /\ e.at = found.first + n /\ e.file.sectors = file.sectors
        /\ e.file.kind = IF Head(cs).type = "raw" THEN "sparse" ELSE "ZERO"
    BY <1>1, <1>7 DEF SparseEntry
  <2>3. /\ found.first \in Nat /\ found.first + n \in Int /\ Resolved(e.at) = found.first + n
        /\ found.first + k \in 0 .. DiskSectors - 1
    BY <1>1, <1>3, <1>10, <2>2, DiskAssumption DEF Partition, Resolved, DiskAssumption
  <2>4. PICK a, q : a = found.first + n /\ q = found.first + k
    OBVIOUS
  <2>5. /\ n <= k => d[0][q] = Data(e, n + (q - a))
        /\ k < n => d[0][q] = disk[0][q]
    <3>1. n <= k => a <= q /\ q < a + m
      BY <1>3, <2>3, <2>4
    <3>2. k < n => ~(a <= q)
      BY <1>3, <2>3, <2>4
    <3>3. a \in Int /\ Resolved(e.at) = a /\ q \in 0 .. DiskSectors - 1 /\ n \in Int
      BY <1>3, <2>3, <2>4
    <3> QED
      BY <1>1, <1>8, <2>1, <2>2, <3>1, <3>2, <3>3, WrittenSector
  <2>6. CASE k < n
    <3>1. k \in 0 .. n - 1
      BY <1>3, <2>6
    <3> QED
      BY <1>10, <2>1, <2>4, <2>5, <2>6, <3>1 DEF Widened
  <2>7. CASE n <= k
    <3>1. ExpandsTo(k) = Head(cs).type /\ k < file.sectors
      BY <1>3, <2>7
    <3>2. n + (q - a) = k
      BY <1>3, <2>3, <2>4
    <3>3. Data(e, k) = IF Head(cs).type = "raw" THEN k ELSE Zero
      BY <2>2, <3>1 DEF Data
    <3> QED
      BY <1>2, <2>4, <2>5, <2>7, <3>1, <3>2, <3>3
  <2> QED
    BY <1>3, <2>6, <2>7
<1>11. entry'.from = n + m
  BY <1>4 DEF SparseEntry
<1>12. failed' \/ Widened(entry.from)'
  <2>1. UNCHANGED <<file, found>>
    BY DEF tableVars
  <2> SUFFICES ASSUME ~failed' PROVE Widened(entry.from)'
    OBVIOUS
  <2>2. PICK t : t = n + m
    OBVIOUS
  <2>3. ASSUME NEW k \in 0 .. t - 1
        PROVE  (ExpandsTo(k) # "fill" /\ found.first + k < DiskSectors =>
                  disk[0][found.first + k] = IF ExpandsTo(k) = "raw" THEN k ELSE Zero)'
    <3>1. ASSUME ExpandsTo(k) # "fill", found.first + k < DiskSectors
          PROVE  disk'[0][found.first + k] = IF ExpandsTo(k) = "raw" THEN k ELSE Zero
      <4>1. k \in 0 .. n + m - 1
        BY <1>3, <2>2
      <4>2. d[0][found.first + k] = IF ExpandsTo(k) = "raw" THEN k ELSE Zero
        BY <1>10, <3>1, <4>1, Zenon
      <4> QED
        BY <1>6, <4>2
    <3> QED
      BY <2>1, <3>1 DEF ExpandsTo
  <2>4. entry'.from = t
    BY <1>11, <2>2
  <2> QED
    BY <2>3, <2>4, Zenon DEF Widened
<1> QED
  BY <1>1, <1>2, <1>5, <1>6, <1>9, <1>12 DEF SparseInv, WholeSparse, Partition, Shaped, tableVars

LEMMA FillDone ==
  ASSUME DoneInv, tool = "table", found # NotFound, WholeSparse,
         ChunkFill, UNCHANGED tableVars
  PROVE  SparseInv'
<1>0. PICK cs, n, m, ds :
        /\ cs = entry.file.chunks /\ n = entry.from /\ m = Head(cs).size
        /\ ds = Unread(Tail(cs))
  OBVIOUS
<1>1. /\ Partition(found) /\ Shaped(disk) /\ request # "dump"
      /\ entry = SparseEntry(cs, n) /\ Rest(cs, n) /\ (failed \/ Widened(n))
      /\ file \in Files
  BY <1>0 DEF DoneInv, SparseInv, FileInv, File, WholeSparse
<1>2. /\ cs # <<>> /\ Head(cs).type = "fill" /\ pc = "entry" /\ pc' = "entry"
      /\ entry' = Behind(entry) /\ chunk = Head(cs)
      /\ UNCHANGED <<target, disk, failed>>
  BY <1>0 DEF ChunkFill, Sparse, chunk
<1>3. /\ n \in Nat /\ m \in Nat /\ m < Word /\ Rest(Tail(cs), n + m)
      /\ \A k \in n .. n + m - 1 : ExpandsTo(k) = Head(cs).type /\ k < file.sectors
      /\ Tail(cs) # <<>> => n = 0
  BY <1>0, <1>1, <1>2, NextChunk
<1>4. entry' = SparseEntry(ds, n + m)
  <2>1. found.first \in Int /\ n \in Int
    BY <1>1, <1>3 DEF Partition
  <2>2. chunk.size = m /\ chunk.type = "fill"
    BY <1>0, <1>2, Zenon
  <2> QED
    BY <1>0, <1>1, <1>2, <1>3, <2>1, <2>2, BehindChunk
<1>5. Rest(ds, n + m)
  <2>1. CASE Tail(cs) = <<>>
    BY <1>0, <1>3, <2>1 DEF Unread
  <2>2. CASE Tail(cs) # <<>>
    <3>1. PICK c, d \in Chunks :
            /\ file = [kind |-> "sparse", sectors |-> c.size + d.size, chunks |-> <<c, d>>]
            /\ c.size \in Nat
      BY <1>1, SparseWidened
    <3>2. cs = <<c, d>>
      BY <1>1, <1>2, <1>3, <2>2, <3>1 DEF Rest, NoHeader
    <3> QED
      BY <1>0, <1>3, <2>2, <3>1, <3>2 DEF Rest, Unread, NoHeader
  <2> QED
    BY <2>1, <2>2
<1>6. entry'.file.chunks = ds /\ entry'.from = n + m
  BY <1>4 DEF SparseEntry
<1>7. UNCHANGED <<file, found, request>>
  BY DEF tableVars
<1>8. /\ entry' = SparseEntry(entry.file.chunks, entry.from)'
      /\ Rest(entry.file.chunks, entry.from)'
  BY <1>4, <1>5, <1>6, <1>7 DEF SparseEntry, Rest, Sectors
<1>9. failed' \/ Widened(entry.from)'
  <2>1. \A k \in 0 .. n + m - 1 : k \in 0 .. n - 1 \/ k \in n .. n + m - 1
    BY <1>3
  <2>2. failed \/ Widened(n + m)
    <3>1. \A k \in n .. n + m - 1 : ExpandsTo(k) = "fill"
      BY <1>2, <1>3
    <3>2. Widened(n) => Widened(n + m)
      BY <1>3, <2>1, <3>1 DEF Widened
    <3> QED
      BY <1>1, <3>2
  <2> QED
    BY <1>2, <1>6, <1>7, <2>2 DEF Widened, ExpandsTo
<1> QED
  BY <1>1, <1>2, <1>7, <1>8, <1>9 DEF SparseInv, WholeSparse, Partition, Shaped

LEMMA SparseDone ==
  ASSUME DoneInv, tool = "table", tool' = tool, found # NotFound, WholeSparse,
         ProgramPartitionEntry, UNCHANGED tableVars
  PROVE  SparseInv'
<1>1. entry.file.kind = "sparse" /\ SparseInv
  BY DEF DoneInv, SparseInv, SparseEntry
<1>2. ChunkWritten \/ ChunkFill \/ ChunkFails \/ ChunksEnd
  BY <1>1 DEF ProgramPartitionEntry, EntryCopied, EntryFails, Plain
<1>3. ASSUME ChunkFails \/ ChunksEnd PROVE SparseInv'
  <2>1. UNCHANGED <<entry, disk>> /\ pc' = "next"
    BY <1>3 DEF ChunkFails, ChunksEnd
  <2>4. failed => failed'
    BY <1>3, Zenon DEF ChunkFails, ChunksEnd
  <2>2. status' = "SUCCESS" => entry.file.chunks = <<>>
    BY <1>3 DEF ChunkFails, ChunksEnd, Sparse
  <2>3. failed' \/ Widened(entry.from)
    BY <1>1, <2>4 DEF SparseInv
  <2> QED
    BY <1>1, <2>1, <2>2, <2>3
       DEF SparseInv, WholeSparse, SparseEntry, Rest, Widened, ExpandsTo, Sectors, tableVars, Partition, Shaped
<1> QED
  BY <1>2, <1>3, ChunkDone, FillDone

LEMMA EntryDone ==
  ASSUME IInv, DoneInv, tool = "table", tool' = tool,
         ProgramPartitionEntry, UNCHANGED tableVars
  PROVE  DoneInv'
<1>1. pc = "entry" /\ pc' \in {"entry", "next"} /\ UNCHANGED <<request, file, found>>
  BY DEF ProgramPartitionEntry, EntryCopied, EntryFails, Plain,
         ChunkWritten, ChunkFill, ChunkFails, ChunksEnd, Sparse, tableVars
<1>2. FileInv'
  BY <1>1 DEF DoneInv, FileInv
<1>3. DumpInv'
  BY <1>1 DEF DoneInv, DumpInv
<1>4. WholeInv'
  BY <1>1, PlainDone DEF WholeInv
<1>5. SparseInv'
  <2> SUFFICES ASSUME found # NotFound, WholeSparse PROVE SparseInv'
    BY <1>1 DEF SparseInv, WholeSparse
  <2> QED
    BY SparseDone
<1> QED
  BY <1>2, <1>3, <1>4, <1>5 DEF DoneInv

LEMMA TableDoneInv ==
  ASSUME IInv, DoneInv, IInv', tool = "table", tool' = tool, TableNext
  PROVE  DoneInv'
<1>1. CASE Finds
  BY <1>1, FindsDone
<1>2. CASE FindsNot \/ GiveUp \/ AtGiven
  <2>1. found = NotFound /\ UNCHANGED <<file, found, request>>
    BY <1>2 DEF FindsNot, GiveUp, AtGiven, Missing, IInv, SearchInv, tableVars
  <2>2. pc' \in {"find", "dump", "entry", "done"}
    BY <1>2 DEF FindsNot, GiveUp, AtGiven, Missing
  <2> QED
    BY <2>1, <2>2 DEF DoneInv, FileInv, DumpInv, WholeInv, SparseInv
<1>3. CASE DumpDiskContents
  <2>1. pc = "dump" /\ pc' = "done" /\ UNCHANGED <<request, file, lun, found, entry, disk>>
    BY <1>3 DEF DumpDiskContents
  <2>2. status' = "SUCCESS" /\ ~failed' => out' = Copied(entry.num)
    BY <1>3 DEF DumpDiskContents
  <2>0. UNCHANGED target
    BY <1>3 DEF DumpDiskContents
  <2>3. FileInv'
    BY <2>1 DEF DoneInv, FileInv
  <2>4. DumpInv'
    <3> SUFFICES ASSUME found # NotFound, request = "dump"
                 PROVE  entry = EntryOf(found) /\ (status' = "SUCCESS" /\ ~failed' => out' = Copied(Sectors(found))')
      BY <2>1 DEF DumpInv, EntryOf, Sectors
    <3>1. entry = EntryOf(found)
      BY DEF DoneInv, DumpInv
    <3>2. entry.num = Sectors(found)
      BY <3>1 DEF EntryOf
    <3> QED
      BY <2>0, <2>1, <2>2, <3>1, <3>2 DEF Copied, Sectors, Where
  <2>5. found # NotFound /\ (file.kind # "sparse" \/ WholeSparse) => request = "dump"
    BY <2>1 DEF DoneInv, WholeInv, SparseInv
  <2> QED
    BY <2>1, <2>3, <2>4, <2>5 DEF DoneInv, WholeInv, SparseInv, WholeSparse
<1>4. CASE TableDone
  <2>1. pc = "next" /\ pc' = "done" /\ UNCHANGED <<tableVars, target, entry, disk, status, failed>>
    BY <1>4 DEF TableDone
  <2> QED
    BY <2>1 DEF tableVars, DoneInv, FileInv, DumpInv, WholeInv, SparseInv, SparseEntry, Rest,
                Widened, ExpandsTo, Sectors, EntryOf, Partition, Shaped, Filled, Held, Where, WholeSparse, Data, SectorsToWrite
<1>5. CASE ProgramPartitionEntry /\ UNCHANGED tableVars
  BY <1>5, EntryDone
<1> QED
  BY <1>1, <1>2, <1>3, <1>4, <1>5 DEF TableNext

LEMMA NextDone == IInv /\ DoneInv /\ [Next]_vars /\ IInv' => DoneInv'
<1> SUFFICES ASSUME IInv, DoneInv, [Next]_vars, IInv' PROVE DoneInv'
  OBVIOUS
<1>1. CASE tool = "table" /\ TableNext /\ UNCHANGED tool
  BY <1>1, TableDoneInv
<1>2. CASE tool # "table" /\ UNCHANGED <<tableVars, tool>>
  <2>1. found' = NotFound
    BY <1>2 DEF IInv, SearchInv, tableVars
  <2> QED
    BY <1>2, <2>1 DEF DoneInv, FileInv, DumpInv, WholeInv, SparseInv
<1>3. CASE UNCHANGED vars
  BY <1>3 DEF vars, entryVars, tableVars, DoneInv, FileInv, DumpInv, WholeInv, SparseInv, SparseEntry, Rest,
              Widened, ExpandsTo, Sectors, EntryOf, Partition, Shaped, Filled, Held, Where, WholeSparse, Data, SectorsToWrite, Copied
<1> QED
  BY <1>1, <1>2, <1>3 DEF Next

(* DumpDiskContents, WipeDiskContents and WriteGPT: success by name means  *)
(* that the partition that was found is zero or holds the file as far as   *)
(* there is room for it (on a local disk, if no read or write failed); if  *)
(* none failed it also means that the file that is dumped to holds the     *)
(* partition, in order, and that the partition holds what a sparse file on *)
(* disk 0 expands to, of two chunks shorter than 4 GB that are all there,  *)
(* but for its fill chunks.                                                *)
THEOREM NamedWhole == Spec => []NamedDone
<1>1. IInv /\ DoneInv => NamedDone
  <2> SUFFICES ASSUME IInv, DoneInv, pc = "done", status = "SUCCESS", found # NotFound
               PROVE  /\ request = "dump" /\ ~failed =>
                           out = [k \in 1 .. found.last - found.first + 1 |->
                                    <<Where(found.lun), found.first + k - 1>>]
                      /\ request # "dump" /\ (target = "device" \/ ~failed) =>
                           /\ file.kind = "raw" =>
                                \A k \in 0 .. file.sectors - 1 : k < Sectors(found) => Held(k) = k
                           /\ file.kind = "ZERO" =>
                                \A k \in 0 .. Sectors(found) - 1 : Held(k) = Zero
                           /\ WholeSparse /\ Where(found.lun) = 0 /\ ~failed =>
                                \A k \in 0 .. file.sectors - 1 :
                                  ExpandsTo(k) # "fill" /\ found.first + k < DiskSectors
                                    => Held(k) = IF ExpandsTo(k) = "raw" THEN k ELSE Zero
    BY DEF NamedDone
  <2>1. tool = "table"
    BY DEF IInv, SearchInv
  <2>2. CASE request = "dump"
    <3>0. CASE ~failed
      <4>1. out = Copied(Sectors(found)) /\ entry = EntryOf(found)
        BY <2>2, <3>0 DEF DoneInv, DumpInv
      <4>2. entry.at = found.first /\ entry.lun = found.lun
        BY <4>1 DEF EntryOf
      <4> QED
        BY <2>2, <4>1, <4>2 DEF Copied, Sectors
    <3> QED
      BY <2>2, <3>0
  <2>3. ASSUME request # "dump", file.kind \in {"raw", "ZERO"}, target = "device" \/ ~failed
        PROVE  /\ file.kind = "raw" =>
                    \A k \in 0 .. file.sectors - 1 : k < Sectors(found) => Held(k) = k
               /\ file.kind = "ZERO" =>
                    \A k \in 0 .. Sectors(found) - 1 : Held(k) = Zero
    <3>1. /\ Partition(found) /\ entry = EntryOf(found) /\ Filled(SectorsToWrite(entry))
      BY <2>3 DEF DoneInv, WholeInv
    <3>2. /\ entry.file = file /\ entry.num = Sectors(found) /\ Sectors(found) \in Nat \ {0}
      BY <3>1 DEF EntryOf, Partition, Sectors
    <3>3. CASE file.kind = "raw"
      <4>1. file.sectors \in Nat
        BY <2>1, <3>3 DEF IInv, SearchInv
      <4>2. \A k \in 0 .. file.sectors - 1 : k < Sectors(found) =>
              k \in 0 .. SectorsToWrite(entry) - 1 /\ Data(entry, k) = k
        BY <3>2, <3>3, <4>1 DEF SectorsToWrite, Data
      <4> QED
        BY <3>1, <3>3, <4>2 DEF Filled
    <3>4. CASE file.kind = "ZERO"
      <4>1. /\ SectorsToWrite(entry) \in Nat /\ SectorsToWrite(entry) >= Sectors(found)
            /\ \A k \in Int : Data(entry, k) = Zero
        BY <3>2, <3>4, Rounded DEF SectorsToWrite, Data
      <4> QED
        BY <3>1, <3>2, <3>4, <4>1 DEF Filled
    <3> QED
      BY <2>3, <3>3, <3>4
  <2>5. ASSUME WholeSparse, Where(found.lun) = 0, ~failed,
               NEW k \in 0 .. file.sectors - 1, ExpandsTo(k) # "fill", found.first + k < DiskSectors
        PROVE  Held(k) = IF ExpandsTo(k) = "raw" THEN k ELSE Zero
    <3>1. /\ entry.file.chunks = <<>> /\ Rest(<<>>, entry.from)
          /\ (failed \/ Widened(entry.from)) /\ file \in Files
      BY <2>1, <2>5 DEF DoneInv, SparseInv, FileInv, File, WholeSparse
    <3>2. \E c, d \in Chunks : file.chunks = <<c, d>>
      BY <2>5, <3>1, SparseChunks DEF WholeSparse
    <3>3. entry.from = file.sectors
      BY <3>1, <3>2 DEF Rest
    <3> QED
      BY <2>5, <3>1, <3>3 DEF Widened, Held
  <2> QED
    BY <2>2, <2>3, <2>5, Zenon
<1> QED
  BY <1>1, InitInv, NextInv, InitDone, NextDone, PTL DEF Spec

-----------------------------------------------------------------------------
Entries == [c : Programs \union Patches \union Others, nth : Nat, patch : BOOLEAN]

XmlTypes ==
  /\ target \in {"device", "disk"} /\ patching \in BOOLEAN
  /\ files \in Nat /\ nth \in 1 .. files
  /\ log \in Seq(Entries) /\ refused \subseteq 1 .. Len(log)
  /\ pc \in {"open", "next", "entry", "between", "done"}
  /\ patching => target = "device"

(* A command under way, or one that broke its file off, is the last.       *)
LastInv ==
  pc = "entry" \/ (pc = "next" /\ Broken) =>
    log # <<>> /\ log[Len(log)].nth = nth /\ log[Len(log)].patch = patching

(* The file of a refused command is not read any more; the invocation goes *)
(* on only behind a patch file or on a disk.                               *)
Passed(b) ==
  /\ log[b].nth <= nth
  /\ pc \in {"open", "next", "entry"} => log[b].nth < nth
  /\ b < Len(log) => log[b + 1].nth # log[b].nth
  /\ log[b].patch \/ target = "disk" \/ (b = Len(log) /\ pc = "done")

(* On a disk its status is that of the file, until the next file is read.  *)
Reported(b) ==
  /\ pc = "between" /\ target = "disk" /\ log[b].nth = nth => status # "SUCCESS"
  /\ pc = "done" /\ ~log[b].patch /\ (target = "device" \/ log[b].nth = files)
       => status # "SUCCESS"

RefusedInv == \A b \in refused : Passed(b) /\ Reported(b)

XmlInv ==
  /\ tool # "xml" => files = 0
  /\ tool = "xml" => XmlTypes /\ LastInv /\ RefusedInv

(* What is in the log has a number, and so has its file.                   *)
LEMMA EntryNumbers ==
  ASSUME XmlTypes, NEW b \in refused
  PROVE  b \in Nat /\ log[b].nth \in Nat
<1>1. b \in 1 .. Len(log) /\ Len(log) \in Nat
  BY DEF XmlTypes
<1>2. log[b] \in Entries
  BY <1>1 DEF XmlTypes
<1>3. QED
  BY <1>1, <1>2 DEF Entries

LEMMA InitXml == Init => XmlInv
<1> SUFFICES ASSUME Init PROVE XmlInv
  OBVIOUS
<1>1. CASE tool = "xml"
  <2>1. RawInit
    BY <1>1 DEF Init
  <2>2. XmlTypes
    <3>1. /\ target \in {"device", "disk"} /\ patching \in BOOLEAN
          /\ patching => target = "device"
      BY <2>1, Zenon DEF RawInit, Init
    <3>2. files \in Nat /\ nth \in 1 .. files
      BY <2>1, RawProgramAssumption DEF RawInit, RawProgramAssumption
    <3>3. log \in Seq(Entries) /\ refused \subseteq 1 .. Len(log)
      BY <2>1 DEF RawInit
    <3>4. QED
      BY <2>1, <3>1, <3>2, <3>3 DEF RawInit, XmlTypes
  <2>3. LastInv /\ RefusedInv
    BY <2>1 DEF RawInit, LastInv, RefusedInv
  <2>4. QED
    BY <1>1, <2>2, <2>3 DEF XmlInv
<1>2. CASE tool # "xml"
  BY <1>2 DEF Init, XmlInv
<1>3. QED
  BY <1>1, <1>2

(* A command is read when nothing is wrong: it is the last, and of another *)
(* file than any that was refused.                                         *)
LEMMA ReadsInv ==
  ASSUME XmlTypes, RefusedInv, NEW c \in Commands, Reads(c),
         pc' \in {"next", "entry"}, UNCHANGED target
  PROVE  XmlTypes' /\ LastInv' /\ RefusedInv'
<1> DEFINE e == [c |-> c, nth |-> nth, patch |-> patching]
<1>1. /\ pc = "next" /\ log' = Append(log, e) /\ refused' = refused
      /\ UNCHANGED <<target, files, nth, patching>>
  BY DEF Reads, Broken, Refused
<1>2. e \in Entries
  BY DEF Entries, Commands, XmlTypes
<1>3. /\ log' \in Seq(Entries) /\ Len(log') = Len(log) + 1 /\ Len(log) \in Nat
      /\ log'[Len(log')] = e
      /\ \A b \in 1 .. Len(log) : log'[b] = log[b]
  BY <1>1, <1>2 DEF XmlTypes
<1>4. XmlTypes'
  BY <1>1, <1>3 DEF XmlTypes
<1>5. LastInv'
  BY <1>1, <1>3 DEF LastInv
<1>6. ASSUME NEW b \in refused' PROVE (Passed(b) /\ Reported(b))'
  <2>1. b \in 1 .. Len(log) /\ Passed(b) /\ log[b].nth < nth
    BY <1>1, <1>6 DEF XmlTypes, RefusedInv, Passed
  <2>2. b < Len(log) => log[b + 1].nth # log[b].nth /\ log'[b + 1] = log[b + 1]
    BY <2>1, <1>3 DEF Passed
  <2>3. b = Len(log) => log'[b + 1].nth # log'[b].nth
    BY <2>1, <1>3 DEF XmlTypes
  <2>4. Passed(b)'
    BY <2>1, <2>2, <2>3, <1>1, <1>3 DEF Passed, XmlTypes
  <2>5. QED
    BY <2>4 DEF Reported
<1>7. QED
  BY <1>4, <1>5, <1>6 DEF RefusedInv

(* The end of a file, where a command becomes refused.                     *)
LEMMA EndsInv ==
  ASSUME XmlTypes, LastInv, RefusedInv, FileEnds
  PROVE  XmlTypes' /\ LastInv' /\ RefusedInv'
<1>1. /\ pc = "next" /\ refused' = Refused
      /\ UNCHANGED <<target, files, nth, log>>
      /\ pc' \in {"done", "open", "between"}
  BY DEF FileEnds
<1>2. Broken => Len(log) \in 1 .. Len(log) /\ log[Len(log)].nth = nth
                /\ log[Len(log)].patch = patching
  BY <1>1 DEF LastInv, XmlTypes
<1>3. XmlTypes'
  <2>1. refused' \subseteq 1 .. Len(log)
    BY <1>1, <1>2 DEF XmlTypes, Refused, Broken
  <2>2. patching' = patching \/ (patching' = TRUE /\ target = "device")
    BY Zenon DEF FileEnds
  <2>3. patching' \in BOOLEAN /\ (patching' => target' = "device")
    <3>1. patching \in BOOLEAN /\ (patching => target = "device")
      BY DEF XmlTypes
    <3>2. target' = target
      BY <1>1
    <3>3. CASE patching' = patching
      BY <3>1, <3>2, <3>3
    <3>4. CASE patching' = TRUE /\ target = "device"
      BY <3>2, <3>4, Zenon
    <3>5. QED
      BY <2>2, <3>3, <3>4
  <2>4. QED
    BY <1>1, <2>1, <2>3 DEF XmlTypes
<1>4. LastInv'
  BY <1>1 DEF LastInv
<1>5. ASSUME NEW b \in refused' PROVE (Passed(b) /\ Reported(b))'
  <2>1. CASE b \in refused
    <3>1. Passed(b) /\ log[b].nth < nth /\ (log[b].patch \/ target = "disk")
      BY <2>1, <1>1 DEF RefusedInv, Passed
    <3>2. b \in Nat /\ log[b].nth \in Nat
      BY <2>1, EntryNumbers
    <3>3. Passed(b)'
      BY <3>1, <3>2, <1>1 DEF Passed, XmlTypes
    <3>4. Reported(b)'
      BY <3>1, <3>2, <1>1 DEF Reported, XmlTypes, FileEnds
    <3>5. QED
      BY <3>3, <3>4
  <2>2. CASE b \notin refused
    <3>1. Broken /\ b = Len(log) /\ b \in Nat
      BY <2>2, <1>1 DEF Refused, Broken, XmlTypes
    <3>2. log[b].nth = nth /\ log[b].patch = patching
      BY <3>1, <1>2
    <3>3. pc' \in {"done", "between"}
      BY <3>1 DEF FileEnds
    <3>4. patching \/ target = "disk" \/ pc' = "done"
      BY <3>1 DEF FileEnds
    <3>5. Passed(b)'
      BY <3>1, <3>2, <3>3, <3>4, <1>1 DEF Passed, XmlTypes
    <3>6. target = "disk" \/ ~patching => status' # "SUCCESS"
      BY <3>1 DEF FileEnds, XmlTypes, Broken
    <3>7. Reported(b)'
      BY <3>2, <3>6, <1>1 DEF Reported, XmlTypes
    <3>8. QED
      BY <3>5, <3>7
  <2>3. QED
    BY <2>1, <2>2
<1>6. QED
  BY <1>3, <1>4, <1>5 DEF RefusedInv

(* The other steps read no command and refuse none.                        *)
LEMMA FilesInv ==
  ASSUME XmlTypes, RefusedInv, OpenFile \/ NextFile
  PROVE  XmlTypes' /\ LastInv' /\ RefusedInv'
<1>1. UNCHANGED <<target, files, log, refused>>
  BY DEF OpenFile, NextFile
<1>2. XmlTypes'
  <2>1. patching' = patching \/ patching' = FALSE
    BY Zenon DEF OpenFile, NextFile
  <2>2. nth' \in 1 .. files /\ pc' \in {"open", "next", "between", "done"}
    BY DEF OpenFile, NextFile, XmlTypes
  <2>3. patching' \in BOOLEAN /\ (patching' => target' = "device")
    <3>1. patching \in BOOLEAN /\ (patching => target = "device")
      BY DEF XmlTypes
    <3>2. target' = target
      BY <1>1
    <3>3. CASE patching' = patching
      BY <3>1, <3>2, <3>3
    <3>4. CASE patching' = FALSE
      BY <3>4, Zenon
    <3>5. QED
      BY <2>1, <3>3, <3>4
  <2>4. QED
    BY <1>1, <2>2, <2>3 DEF XmlTypes
<1>3. LastInv'
  BY DEF OpenFile, NextFile, LastInv, Broken
<1>4. ASSUME NEW b \in refused PROVE (Passed(b) /\ Reported(b))'
  <2>1. Passed(b) /\ Reported(b) /\ log[b].nth \in Nat /\ b \in Nat
    BY <1>4, EntryNumbers DEF RefusedInv
  <2>2. CASE OpenFile
    BY <2>1, <2>2, <1>1 DEF OpenFile, Passed, Reported, XmlTypes
  <2>3. CASE NextFile
    BY <2>1, <2>3, <1>1 DEF NextFile, Passed, Reported, XmlTypes
  <2>4. QED
    BY <2>2, <2>3
<1>5. QED
  BY <1>1, <1>2, <1>3, <1>4 DEF RefusedInv

LEMMA ProgramInv ==
  ASSUME XmlTypes, LastInv, RefusedInv, ProgramPartitionEntry, UNCHANGED rawVars
  PROVE  XmlTypes' /\ LastInv' /\ RefusedInv'
<1>0. UNCHANGED target
  BY DEF ProgramPartitionEntry, EntryCopied, EntryFails,
         ChunkWritten, ChunkFill, ChunkFails, ChunksEnd
<1>1. pc = "entry" /\ pc' \in {"entry", "next"}
  BY DEF ProgramPartitionEntry, EntryCopied, EntryFails, Plain,
         ChunkWritten, ChunkFill, ChunkFails, ChunksEnd, Sparse
<1>2. QED
  BY <1>1, <1>0 DEF XmlTypes, LastInv, RefusedInv, Passed, Reported, rawVars

LEMMA NextXml == XmlInv /\ [Next]_vars => XmlInv'
<1> SUFFICES ASSUME XmlInv, [Next]_vars PROVE XmlInv'
  OBVIOUS
<1>1. CASE tool # "xml" /\ UNCHANGED <<rawVars, tool>>
  BY <1>1 DEF XmlInv, rawVars
<1>2. CASE UNCHANGED vars
  BY <1>2 DEF vars, rawVars, entryVars, XmlInv, XmlTypes, LastInv, Broken,
              RefusedInv, Passed, Reported
<1>3. CASE tool = "xml" /\ RawNext /\ UNCHANGED tool
  <2>1. XmlTypes /\ LastInv /\ RefusedInv
    BY <1>3 DEF XmlInv
  <2>2. CASE OpenFile \/ NextFile
    BY <1>3, <2>1, <2>2, FilesInv DEF XmlInv
  <2>3. CASE FileEnds
    BY <1>3, <2>1, <2>3, EndsInv DEF XmlInv
  <2>4. CASE ProgramPartitionEntry /\ UNCHANGED rawVars
    BY <1>3, <2>1, <2>4, ProgramInv DEF XmlInv
  <2>5. CASE ProgramCommand \/ PatchCommand \/ OtherCommand \/ NoCommand
    <3>1. /\ pc' \in {pc, "entry"} /\ UNCHANGED target
          /\ \E c \in Commands : Reads(c)
      BY <2>5 DEF ProgramCommand, PatchCommand, OtherCommand, NoCommand, entryVars
    <3>2. PICK c \in Commands : Reads(c) /\ pc' \in {"next", "entry"}
      BY <3>1 DEF Reads
    <3>3. QED
      BY <1>3, <2>1, <3>1, <3>2, ReadsInv DEF XmlInv
  <2>6. QED
    BY <1>3, <2>2, <2>3, <2>4, <2>5 DEF RawNext
<1>4. QED
  BY <1>1, <1>2, <1>3 DEF Next

(* ProgramImage and its callers: behind a command that is refused its file *)
(* is not read on, the invocation ends or goes to the next file as the     *)
(* target has it, and what is reported is not success.                     *)
THEOREM RefusalHeeded == Spec => []RefusalEnds
<1>1. XmlInv => RefusalEnds
  <2> SUFFICES ASSUME XmlInv, files > 0, NEW b \in refused
               PROVE  /\ b < Len(log) =>
                           /\ log[b + 1].nth # log[b].nth
                           /\ log[b].patch \/ target = "disk"
                      /\ pc = "done" /\ ~log[b].patch
                         /\ (target = "device" \/ log[b].nth = files)
                           => status # "SUCCESS"
    BY DEF RefusalEnds
  <2>1. XmlTypes /\ Passed(b) /\ Reported(b)
    BY DEF XmlInv, RefusedInv
  <2>2. b \in Nat /\ Len(log) \in Nat
    BY <2>1 DEF XmlTypes
  <2>3. QED
    BY <2>1, <2>2 DEF Passed, Reported
<1>2. QED
  BY <1>1, InitXml, NextXml, PTL DEF Spec
-----------------------------------------------------------------------------
(* What an image is: the first location of each descriptor is its own, and *)
(* only the first descriptor has a second one, at the end.                 *)
Blk(im, s, m) == im[s].blocks[m][1]

ImageOK(im) ==
  /\ Len(im) \in 1 .. Stores
  /\ \A s \in 1 .. Len(im) :
       /\ Len(im[s].blocks) \in 1 .. Descriptors /\ im[s].lun \in 0 .. Unknown
       /\ s < Len(im) => Len(im[s].blocks) = 1
       /\ \A m \in 1 .. Len(im[s].blocks) :
            \/ Len(im[s].blocks[m]) = 1 /\ Blk(im, s, m) \in Blocks \union {End}
            \/ /\ Len(im[s].blocks[m]) = 2 /\ m = 1
               /\ Blk(im, s, m) \in Blocks /\ im[s].blocks[m][2] = End
       /\ \A m, l \in 1 .. Len(im[s].blocks) : Blk(im, s, m) = Blk(im, s, l) => m = l

(* Where the data of a descriptor begins in the file, and the file.        *)
From(s, m) == First + BlockSectors * (s - 1) + BlockSectors * (m - 1)
FileOf(im) ==
  File("raw", First + BlockSectors * (Len(im) - 1) + BlockSectors * Len(im[Len(im)].blocks), <<>>)

Locations(im, s) ==
  {p \in (1 .. Len(im[s].blocks)) \X {1, 2} : p[2] <= Len(im[s].blocks[p[1]])}
PlaceOf(im, s, p) == im[s].blocks[p[1]][p[2]]
Ends(im, s) == {p \in Locations(im, s) : PlaceOf(im, s, p) = End}

(* Sector n of store s's disk may hold v of the file: what belongs there,  *)
(* or, at the end and not owed, what was taken for it.                     *)
Own(im, s, m, n, v) ==
  /\ Blk(im, s, m) # End
  /\ n - BlockSectors * Blk(im, s, m) \in 0 .. BlockSectors - 1
  /\ v - From(s, m) = n - BlockSectors * Blk(im, s, m)

AtEnd(im, s, n, v) ==
  /\ n \in DiskSectors - BlockSectors .. DiskSectors - 1 /\ Ends(im, s) # {}
  /\ Ends(im, s) = {<<1, 2>>} => v - From(s, 1) = n - (DiskSectors - BlockSectors)

Claim(im, s, n, v) ==
  /\ n \in Int /\ v \in Nat
  /\ (\E m \in 1 .. Len(im[s].blocks) : Own(im, s, m, n, v)) \/ AtEnd(im, s, n, v)

(* A run, or what is left of it, that may be written.                      *)
SoundFor(im, r, s) ==
  /\ r.lun = im[s].lun /\ r.num > 0
  /\ r.from >= First /\ r.from + r.num <= FileOf(im).sectors
  /\ r.at >= 0 \/ r.at + r.num <= 0
  /\ \A k \in 0 .. r.num - 1 : Claim(im, s, Resolved(r.at) + k, r.from + k)

Sound(im, r) == \E s \in 1 .. Len(im) : SoundFor(im, r, s)

Runs(im) ==
  {r \in [file : {FileOf(im)}, from : Int, at : Int, num : Int, lun : Int] : Sound(im, r)}

Reaches(r, s, n) ==
  r.lun = image[s].lun /\ Resolved(r.at) <= n /\ n < Resolved(r.at) + r.num

(* Where the gathering is: blocks start + 1 .. hi are pending.             *)
hi == IF j = 1 THEN i - 1 ELSE i

WalkInv ==
  /\ ImageOK(image) /\ split \in BOOLEAN
  /\ store \in 1 .. Len(image) /\ i \in Nat
  /\ pc \in {"gpt", "blocks", "last", "next", "entry", "done"}
  /\ pc = "blocks" =>
       /\ i \in 1 .. Len(blocks) + 1 /\ count = i - 1 /\ j \in 1 .. 3
       /\ i <= Len(blocks) => j <= Len(blocks[i]) + 1
       /\ i > Len(blocks) => j = 1
       /\ start \in 0 .. count /\ (i = 1 /\ j = 1 => ~pending)
  /\ pc = "blocks" /\ pending =>
       /\ j <= 2 /\ start < hi
       /\ at = BlockSectors * Blk(image, store, start + 1)
       /\ next = Blk(image, store, hi) + 1
       /\ \A m \in start + 1 .. hi :
            /\ Blk(image, store, m) # End
            /\ Blk(image, store, m) = Blk(image, store, start + 1) + (m - (start + 1))
  /\ pc \in {"last", "next", "entry", "done"} /\ ~failed => store = Len(image) /\ i > Len(blocks)

RunsInv ==
  /\ todo \in Seq(Runs(image)) /\ xml \in Seq(Runs(image))
  /\ pc = "entry" => entry \in Runs(image)
  /\ ~split => xml = <<>> /\ pc \notin {"entry", "next"}
  /\ split => pc # "last"
  /\ failed \in BOOLEAN /\ (failed \/ status = "SUCCESS")
  /\ pc = "done" /\ ~failed => todo = <<>> /\ xml = <<>>

(* Every store has the disk it is for.                                     *)
Addr(im) == \A s \in 1 .. Len(im) : im[s].lun = s - 1 /\ Where(s - 1) = s - 1

Placed(im, d) ==
  /\ Shaped(d)
  /\ Addr(im) => \A n \in 0 .. Luns, k \in 0 .. DiskSectors - 1 :
       d[n][k] = Blank \/ (n < Len(im) /\ Claim(im, n + 1, k, d[n][k]))

(* What has been visited is on the disk, or is on its way there.           *)
Visited(s, p) ==
  s < store \/ (s = store /\ pc # "gpt" /\ (p[1] < i \/ (p[1] = i /\ p[2] < j)))

Pending(s, n) ==
  /\ pc = "blocks" /\ pending /\ s = store
  /\ at <= n /\ n < at + BlockSectors * (hi - start)

Kept(s, n) ==
  \/ disk[s - 1][n] # Blank
  \/ \E m \in 1 .. Len(todo) : Reaches(todo[m], s, n)
  \/ \E m \in 1 .. Len(xml) : Reaches(xml[m], s, n)
  \/ pc = "entry" /\ Reaches(entry, s, n)
  \/ Pending(s, n)

KeptInv ==
  ~failed /\ Addr(image) =>
    \A s \in 1 .. Len(image) : \A p \in Locations(image, s), k \in 0 .. BlockSectors - 1 :
      Visited(s, p) => Kept(s, Resolved(BlockSectors * PlaceOf(image, s, p)) + k)

FfuInv ==
  tool = "ffu" => WalkInv /\ RunsInv /\ Placed(image, disk) /\ KeptInv


LEMMA LeastOf ==
  ASSUME NEW S, S \subseteq Nat, S # {}
  PROVE  \E n \in S : \A m \in S : n <= m
<1>1. PICK n \in S : \A m \in S : <<m, n>> \notin OpToRel(<, Nat)
  BY NatLessThanWellFounded, WFMin
<1>2. \A m \in S : ~(m < n)
  BY <1>1 DEF OpToRel
<1> QED
  BY <1>2

LEMMA Sizes ==
  /\ DiskSectors \in Nat \ {0} /\ Luns \in Nat
  /\ BlockSectors \in Nat \ {0} /\ Chunk \in Nat \ {0} /\ First \in Nat
  /\ Stores \in Nat \ {0} /\ Descriptors \in Nat \ {0}
  /\ Stores <= Luns + 1 /\ BlockSectors <= DiskSectors
  /\ \A b \in Blocks : b \in Nat /\ BlockSectors * b \in Nat
                       /\ BlockSectors * b + 2 * BlockSectors <= DiskSectors
<1>1. /\ DiskSectors \in Nat \ {0} /\ Luns \in Nat
      /\ BlockSectors \in Nat \ {0} /\ Chunk \in Nat \ {0} /\ First \in Nat
      /\ Stores \in Nat \ {0} /\ Descriptors \in Nat \ {0}
      /\ Stores <= Luns + 1 /\ BlockSectors <= DiskSectors
  BY DiskAssumption, FfuAssumption, FfuFits DEF DiskAssumption, FfuAssumption, FfuFits
<1>2. ASSUME NEW b \in Blocks
      PROVE  /\ b \in Nat /\ BlockSectors * b \in Nat
             /\ BlockSectors * b + 2 * BlockSectors <= DiskSectors
  <2>1. b \in Nat /\ (b + 2) * BlockSectors <= DiskSectors
    BY FfuAssumption, FfuFits DEF FfuAssumption, FfuFits
  <2>2. (b + 2) * BlockSectors = BlockSectors * b + 2 * BlockSectors
    BY <1>1, <2>1
  <2>3. BlockSectors * b \in Nat
    BY <1>1, <2>1
  <2> QED
    BY <2>1, <2>2, <2>3
<1> QED
  BY <1>1, <1>2

(* A sector is in one block.                                               *)
LEMMA OneBlock ==
  ASSUME NEW a \in Int, NEW b \in Int, NEW x \in 0 .. BlockSectors - 1, NEW y \in 0 .. BlockSectors - 1,
         BlockSectors * a + x = BlockSectors * b + y
  PROVE  a = b /\ x = y
<1>1. BlockSectors \in Nat \ {0}
  BY Sizes
<1>2. ASSUME NEW c \in Int, NEW d \in Int, c < d
      PROVE  BlockSectors * c + BlockSectors <= BlockSectors * d
  <2>1. d - c - 1 \in Nat
    BY <1>2
  <2>2. BlockSectors * (d - c - 1) \in Nat
    BY <1>1, <2>1
  <2>3. BlockSectors * (d - c - 1) = BlockSectors * d - BlockSectors * c - BlockSectors
    BY <1>1
  <2>4. BlockSectors * c \in Int /\ BlockSectors * d \in Int
    BY <1>1
  <2> QED
    BY <1>1, <2>2, <2>3, <2>4
<1>3. BlockSectors * a \in Int /\ BlockSectors * b \in Int
  BY <1>1
<1>4. ~(a < b)
  BY <1>1, <1>2, <1>3
<1>5. ~(b < a)
  BY <1>1, <1>2, <1>3
<1>6. a = b
  BY <1>4, <1>5
<1> QED
  BY <1>1, <1>3, <1>6

(* A run of blocks is sector by sector in them.                            *)
LEMMA BlockOf ==
  ASSUME NEW k \in Nat, NEW c \in Nat, k < BlockSectors * c
  PROVE  \E q \in 0 .. c - 1, x \in 0 .. BlockSectors - 1 : k = BlockSectors * q + x
<1>1. BlockSectors \in Nat \ {0}
  BY Sizes
<1>2. PICK q, x : q = k \div BlockSectors /\ x = k % BlockSectors
  OBVIOUS
<1>3. q \in Nat /\ x \in 0 .. BlockSectors - 1 /\ k = BlockSectors * q + x
  BY <1>1, <1>2
<1>4. q < c
  <2> SUFFICES ASSUME c <= q PROVE FALSE
    BY <1>3
  <2>1. BlockSectors * (q - c) \in Nat
    BY <1>1, <1>3
  <2>2. BlockSectors * (q - c) = BlockSectors * q - BlockSectors * c
    BY <1>1, <1>3
  <2>3. BlockSectors * q \in Int /\ BlockSectors * c \in Int
    BY <1>1, <1>3
  <2> QED
    BY <1>1, <1>3, <2>1, <2>2, <2>3
<1> QED
  BY <1>3, <1>4

(* The payload of store s begins behind one block of each store before.    *)
LEMMA PayloadAt ==
  ASSUME ImageOK(image)
  PROVE  /\ \A s \in 1 .. Len(image) : PayloadDataStart[s] = First + BlockSectors * (s - 1)
         /\ Ffu = FileOf(image)
<1> DEFINE S == 1 .. Len(image)
           Next1(f) == [s \in S |-> IF s = 1 THEN First
                                    ELSE f[s - 1] + BlockSectors * Len(image[s - 1].blocks)]
           g == [s \in S |-> First + BlockSectors * (s - 1)]
<1>0. BlockSectors \in Nat \ {0} /\ First \in Nat /\ Len(image) \in Nat \ {0}
  BY Sizes DEF ImageOK
<1>1. \A s \in S : s # 1 => Len(image[s - 1].blocks) = 1 /\ s - 1 \in S
  BY <1>0 DEF ImageOK
<1>2. g = Next1(g)
  <2>1. ASSUME NEW s \in S, s # 1
        PROVE  First + BlockSectors * (s - 1) = g[s - 1] + BlockSectors * Len(image[s - 1].blocks)
    <3>1. g[s - 1] = First + BlockSectors * (s - 1 - 1) /\ Len(image[s - 1].blocks) = 1
      BY <1>1, <2>1
    <3> QED
      BY <1>0, <3>1
  <2>2. ASSUME NEW s \in S, s = 1 PROVE First + BlockSectors * (s - 1) = First
    BY <1>0, <2>2
  <2> QED
    BY <2>1, <2>2
<1>3. PayloadDataStart = CHOOSE f : f = Next1(f)
  BY DEF PayloadDataStart
<1>4. PICK f : f = PayloadDataStart /\ f = Next1(f)
  <2> HIDE DEF g, Next1
  <2> QED
    BY <1>2, <1>3
<1>5. ASSUME NEW s \in S, f[s] # First + BlockSectors * (s - 1)
      PROVE  FALSE
  <2> DEFINE T == {t \in S : f[t] # First + BlockSectors * (t - 1)}
  <2>1. PICK t \in T : \A r \in T : t <= r
    <3>1. T \subseteq Nat /\ T # {}
      BY <1>5
    <3> QED
      BY <3>1, LeastOf
  <2>2. t # 1
    BY <1>0, <1>4, <2>1
  <2>3. f[t - 1] = First + BlockSectors * (t - 1 - 1) /\ Len(image[t - 1].blocks) = 1
    BY <1>0, <1>1, <2>1, <2>2
  <2>4. f[t] = f[t - 1] + BlockSectors * Len(image[t - 1].blocks)
    BY <1>4, <2>1, <2>2
  <2> QED
    BY <1>0, <2>1, <2>3, <2>4
<1>6. \A s \in S : PayloadDataStart[s] = First + BlockSectors * (s - 1)
  BY <1>4, <1>5
<1>7. Ffu = FileOf(image)
  <2>1. Len(image) \in S
    BY <1>0
  <2> QED
    BY <1>6, <2>1 DEF Ffu, FileOf
<1> QED
  BY <1>6, <1>7


(* A location is a block of its own or the end.                            *)
LEMMA LocationKind ==
  ASSUME NEW im, ImageOK(im), NEW s \in 1 .. Len(im), NEW p \in Locations(im, s)
  PROVE  /\ p[1] \in 1 .. Len(im[s].blocks) /\ p = <<p[1], p[2]>>
         /\ \/ p[2] = 1 /\ PlaceOf(im, s, p) = Blk(im, s, p[1]) /\ PlaceOf(im, s, p) \in Blocks \union {End}
            \/ p[2] = 2 /\ p[1] = 1 /\ PlaceOf(im, s, p) = End
<1>1. p[1] \in 1 .. Len(im[s].blocks) /\ p[2] \in {1, 2} /\ p = <<p[1], p[2]>>
      /\ p[2] <= Len(im[s].blocks[p[1]])
  BY DEF Locations
<1>2. \/ Len(im[s].blocks[p[1]]) = 1 /\ Blk(im, s, p[1]) \in Blocks \union {End}
      \/ /\ Len(im[s].blocks[p[1]]) = 2 /\ p[1] = 1
         /\ Blk(im, s, p[1]) \in Blocks /\ im[s].blocks[p[1]][2] = End
  BY <1>1 DEF ImageOK
<1>3. CASE p[2] = 1
  BY <1>1, <1>2, <1>3 DEF PlaceOf, Blk
<1>4. CASE p[2] = 2
  BY <1>1, <1>2, <1>4 DEF PlaceOf
<1> QED
  BY <1>1, <1>3, <1>4

LEMMA BlockKind ==
  ASSUME NEW im, ImageOK(im), NEW s \in 1 .. Len(im), NEW m \in 1 .. Len(im[s].blocks),
         Blk(im, s, m) # End
  PROVE  Blk(im, s, m) \in Blocks /\ <<m, 1>> \in Locations(im, s)
<1>1. Len(im[s].blocks[m]) \in {1, 2} /\ Blk(im, s, m) \in Blocks
  BY DEF ImageOK
<1>2. PICK p : p = <<m, 1>>
  OBVIOUS
<1>3. p \in (1 .. Len(im[s].blocks)) \X {1, 2} /\ p[1] = m /\ p[2] = 1
  BY <1>2
<1>4. p[2] <= Len(im[s].blocks[p[1]])
  <2>1. PICK c : c = Len(im[s].blocks[m])
    OBVIOUS
  <2>2. c \in {1, 2}
    BY <1>1, <2>1, Zenon
  <2>3. 1 <= c
    BY <2>2
  <2> QED
    BY <1>3, <2>1, <2>3
<1> QED
  BY <1>1, <1>2, <1>3, <1>4 DEF Locations

(* Where a location is on the disk.                                        *)
LEMMA LocationAt ==
  ASSUME NEW im, ImageOK(im), NEW s \in 1 .. Len(im), NEW p \in Locations(im, s)
  PROVE  /\ PlaceOf(im, s, p) # End =>
              /\ PlaceOf(im, s, p) \in Blocks
              /\ Resolved(BlockSectors * PlaceOf(im, s, p)) = BlockSectors * PlaceOf(im, s, p)
              /\ BlockSectors * PlaceOf(im, s, p) \in Nat
              /\ BlockSectors * PlaceOf(im, s, p) + 2 * BlockSectors <= DiskSectors
         /\ PlaceOf(im, s, p) = End =>
              Resolved(BlockSectors * PlaceOf(im, s, p)) = DiskSectors - BlockSectors
<1>1. PlaceOf(im, s, p) # End => PlaceOf(im, s, p) \in Blocks
  BY LocationKind
<1>2. PlaceOf(im, s, p) = End => BlockSectors * PlaceOf(im, s, p) = -BlockSectors
  BY Sizes DEF End
<1> QED
  BY <1>1, <1>2, Sizes DEF Resolved

LEMMA FromTyped ==
  ASSUME NEW im, ImageOK(im), NEW s \in 1 .. Len(im), NEW m \in 1 .. Len(im[s].blocks)
  PROVE  /\ From(s, m) \in Nat /\ From(s, m) >= First
         /\ From(s, m) + BlockSectors <= FileOf(im).sectors
         /\ FileOf(im).sectors \in Nat /\ FileOf(im).kind = "raw"
<1> DEFINE l == Len(im[Len(im)].blocks)
           S == Len(im)
           B == BlockSectors
<1>1. /\ S \in Nat /\ s \in 1 .. S /\ l \in Nat /\ l >= 1 /\ B \in Nat \ {0} /\ First \in Nat
      /\ Len(im[s].blocks) \in Nat
      /\ s < S => Len(im[s].blocks) = 1
      /\ S \in 1 .. S
  BY Sizes DEF ImageOK
<1>2. /\ From(s, m) = First + B * (s - 1) + B * (m - 1)
      /\ FileOf(im).sectors = First + B * (S - 1) + B * l /\ FileOf(im).kind = "raw"
  BY DEF From, FileOf, File
<1>3. /\ m \in Nat /\ m >= 1 /\ (s < S => m = 1) /\ (s = S => m <= l)
  <2>1. PICK c : c = Len(im[s].blocks)
    OBVIOUS
  <2>2. c \in Nat /\ m \in 1 .. c /\ (s < S => c = 1) /\ (s = S => c = l)
    BY <1>1, <2>1
  <2> QED
    BY <2>2
<1> HIDE DEF l, S, B
<1>4. B * (s - 1) \in Nat /\ B * (m - 1) \in Nat /\ B * (S - 1) \in Nat /\ B * l \in Nat
  BY <1>1, <1>3
<1>5. B * (s - 1) + B * (m - 1) + B <= B * (S - 1) + B * l
  <2>1. CASE s < S
    <3>1. B * (S - s) \in Nat /\ B * (l - 1) \in Nat
      BY <1>1, <2>1
    <3>2. B * (S - 1) + B * l - (B * (s - 1) + B * (m - 1) + B) = B * (S - s) + B * (l - 1)
      BY <1>1, <1>3, <2>1
    <3> QED
      BY <1>1, <1>4, <3>1, <3>2
  <2>2. CASE s = S
    <3>1. B * (l - m) \in Nat
      BY <1>1, <1>3, <2>2
    <3>2. B * l - (B * (m - 1) + B) = B * (l - m)
      BY <1>1, <1>3
    <3> QED
      BY <1>1, <1>4, <2>2, <3>1, <3>2
  <2> QED
    BY <1>1, <2>1, <2>2
<1> QED
  BY <1>1, <1>2, <1>4, <1>5 DEF B

LEMMA ClaimRange ==
  ASSUME NEW im, ImageOK(im), NEW s \in 1 .. Len(im), NEW n, NEW v, Claim(im, s, n, v)
  PROVE  n \in 0 .. DiskSectors - 1 /\ v \in Nat
<1>1. CASE AtEnd(im, s, n, v)
  BY <1>1, Sizes DEF AtEnd, Claim
<1>2. CASE \E m \in 1 .. Len(im[s].blocks) : Own(im, s, m, n, v)
  <2>1. PICK m \in 1 .. Len(im[s].blocks) : Own(im, s, m, n, v)
    BY <1>2
  <2>2. Blk(im, s, m) \in Blocks
    BY <2>1, BlockKind DEF Own
  <2> QED
    BY <2>1, <2>2, Sizes DEF Own, Claim
<1> QED
  BY <1>1, <1>2 DEF Claim

(* A sector that is claimed is one of a location.                          *)
LEMMA ClaimPlaced ==
  ASSUME NEW im, ImageOK(im), NEW s \in 1 .. Len(im), NEW n, NEW v, Claim(im, s, n, v)
  PROVE  \E p \in Locations(im, s), k \in 0 .. BlockSectors - 1 :
           n = Resolved(BlockSectors * PlaceOf(im, s, p)) + k
<1>1. n \in Int
  BY DEF Claim
<1>2. CASE AtEnd(im, s, n, v)
  <2>1. PICK p \in Locations(im, s) : PlaceOf(im, s, p) = End
    BY <1>2 DEF AtEnd, Ends
  <2>2. PICK k : k = n - (DiskSectors - BlockSectors)
    OBVIOUS
  <2>3. k \in 0 .. BlockSectors - 1 /\ n = (DiskSectors - BlockSectors) + k
    BY <1>1, <1>2, <2>2, Sizes DEF AtEnd
  <2> QED
    BY <2>1, <2>3, LocationAt
<1>3. CASE \E m \in 1 .. Len(im[s].blocks) : Own(im, s, m, n, v)
  <2>1. PICK m \in 1 .. Len(im[s].blocks) : Own(im, s, m, n, v)
    BY <1>3
  <2>2. PICK p, k : p = <<m, 1>> /\ k = n - BlockSectors * Blk(im, s, m)
    OBVIOUS
  <2>3. Blk(im, s, m) \in Blocks /\ p \in Locations(im, s) /\ Blk(im, s, m) # End
    BY <2>1, <2>2, BlockKind DEF Own
  <2>4. PlaceOf(im, s, p) = Blk(im, s, m)
    BY <2>2 DEF PlaceOf, Blk
  <2>5. k \in 0 .. BlockSectors - 1 /\ n = BlockSectors * Blk(im, s, m) + k
    BY <1>1, <2>1, <2>2, <2>3, Sizes DEF Own
  <2> QED
    BY <2>3, <2>4, <2>5, LocationAt
<1> QED
  BY <1>2, <1>3 DEF Claim

(* At a location whose block is owed only that block may be.               *)
LEMMA ClaimOwed ==
  ASSUME NEW im, ImageOK(im), NEW s \in 1 .. Len(im), NEW p \in Locations(im, s),
         NEW k \in 0 .. BlockSectors - 1,
         PlaceOf(im, s, p) # End \/ (p[2] = 2 /\ Ends(im, s) = {p}),
         NEW v, Claim(im, s, Resolved(BlockSectors * PlaceOf(im, s, p)) + k, v)
  PROVE  v = From(s, p[1]) + k
<1>1. PICK n : n = Resolved(BlockSectors * PlaceOf(im, s, p)) + k
  OBVIOUS
<1>2. Claim(im, s, n, v) /\ v \in Nat
  BY <1>1 DEF Claim
<1>3. p[1] \in 1 .. Len(im[s].blocks) /\ From(s, p[1]) \in Nat
  BY LocationKind, FromTyped
<1>4. CASE PlaceOf(im, s, p) # End
  <2>1. /\ PlaceOf(im, s, p) \in Blocks /\ n = BlockSectors * PlaceOf(im, s, p) + k
        /\ PlaceOf(im, s, p) = Blk(im, s, p[1])
    BY <1>1, <1>4, LocationAt, LocationKind
  <2>2. ~AtEnd(im, s, n, v)
    BY <2>1, Sizes DEF AtEnd
  <2>3. PICK m \in 1 .. Len(im[s].blocks) : Own(im, s, m, n, v)
    BY <1>2, <2>2 DEF Claim
  <2>4. PICK x : x = n - BlockSectors * Blk(im, s, m)
    OBVIOUS
  <2>5. /\ Blk(im, s, m) \in Blocks /\ x \in 0 .. BlockSectors - 1
        /\ n = BlockSectors * Blk(im, s, m) + x
    <3>1. Blk(im, s, m) \in Blocks
      BY <2>3, BlockKind DEF Own
    <3>2. BlockSectors * Blk(im, s, m) \in Nat /\ n \in Int
      BY <2>1, <3>1, Sizes
    <3> QED
      BY <2>3, <2>4, <3>1, <3>2 DEF Own
  <2>6. Blk(im, s, m) = Blk(im, s, p[1]) /\ x = k
    <3>1. PICK a, b : a = Blk(im, s, m) /\ b = Blk(im, s, p[1])
      OBVIOUS
    <3>2. a \in Int /\ b \in Int /\ BlockSectors * a + x = BlockSectors * b + k
      BY <2>1, <2>5, <3>1, Sizes
    <3>3. a = b /\ x = k
      BY <2>5, <3>2, OneBlock
    <3> QED
      BY <3>1, <3>3
  <2>7. m = p[1]
    BY <1>3, <2>6 DEF ImageOK
  <2>8. v - From(s, m) = x
    BY <2>3, <2>4 DEF Own
  <2> QED
    BY <1>2, <1>3, <2>6, <2>7, <2>8
<1>5. CASE PlaceOf(im, s, p) = End
  <2>1. /\ p = <<1, 2>> /\ Ends(im, s) = {<<1, 2>>} /\ p[1] = 1
        /\ n = DiskSectors - BlockSectors + k
    BY <1>1, <1>5, LocationAt, LocationKind
  <2>2. ASSUME NEW m \in 1 .. Len(im[s].blocks), Own(im, s, m, n, v) PROVE FALSE
    <3>1. Blk(im, s, m) \in Blocks
      BY <2>2, BlockKind DEF Own
    <3> QED
      BY <2>1, <2>2, <3>1, Sizes DEF Own
  <2>3. AtEnd(im, s, n, v)
    BY <1>2, <2>2 DEF Claim
  <2>4. v - From(s, 1) = n - (DiskSectors - BlockSectors)
    BY <2>1, <2>3 DEF AtEnd
  <2> QED
    BY <1>2, <1>3, <2>1, <2>4, Sizes
<1> QED
  BY <1>4, <1>5


(* A run of the gathering, field by field.                                 *)
LEMMA RunFields ==
  ASSUME ImageOK(image), store \in 1 .. Len(image), NEW a \in Nat, NEW t, NEW c \in Int
  PROVE  RunOf(a, t, c) = [file |-> FileOf(image), from |-> From(store, a + 1), at |-> t,
                           num |-> BlockSectors * c, lun |-> image[store].lun]
<1>1. /\ BlockSectors \in Nat /\ First \in Nat /\ store \in Nat
      /\ Ffu = FileOf(image) /\ PayloadDataStart[store] = First + BlockSectors * (store - 1)
  <2>1. store \in Nat
    <3>1. Len(image) \in 1 .. Stores
      BY DEF ImageOK
    <3> QED
      BY <3>1, Sizes
  <2> QED
    BY <2>1, Sizes, PayloadAt
<1>2. From(store, a + 1) = First + BlockSectors * (store - 1) + a * BlockSectors
  BY <1>1 DEF From
<1>3. c * BlockSectors = BlockSectors * c
  BY <1>1
<1> QED
  BY <1>1, <1>2, <1>3 DEF RunOf

(* Blocks that follow each other are a run that may be written.            *)
LEMMA RunSound ==
  ASSUME ImageOK(image), store \in 1 .. Len(image),
         NEW a \in Nat, NEW h \in Nat, a < h, h <= Len(image[store].blocks),
         \A m \in a + 1 .. h : /\ Blk(image, store, m) # End
                               /\ Blk(image, store, m) = Blk(image, store, a + 1) + (m - (a + 1))
  PROVE  RunOf(a, BlockSectors * Blk(image, store, a + 1), h - a) \in Runs(image)
<1>1. PICK s, b, t, f, l, c :
        /\ s = store /\ b = Blk(image, s, a + 1) /\ t = BlockSectors * b /\ f = From(s, a + 1)
        /\ l = Len(image[s].blocks) /\ c = h - a
  OBVIOUS
<1>2. /\ l \in Nat /\ h <= l /\ c \in Nat /\ c >= 1 /\ a + 1 \in 1 .. l /\ h \in 1 .. l
      /\ BlockSectors \in Nat \ {0} /\ s \in 1 .. Len(image) /\ s \in Nat /\ Len(image) \in Nat
  <2>1. s \in 1 .. Len(image) /\ Len(image) \in Nat /\ BlockSectors \in Nat \ {0}
    BY <1>1, Sizes DEF ImageOK
  <2>2. l \in Nat
    BY <1>1, <2>1, Sizes DEF ImageOK
  <2>3. h <= l
    BY <1>1
  <2> QED
    BY <1>1, <2>1, <2>2, <2>3
<1>3. b \in Blocks /\ b \in Nat /\ t \in Nat /\ t >= 0
  <2>1. b # End
    BY <1>1, <1>2
  <2>2. b \in Blocks
    BY <1>1, <1>2, <2>1, BlockKind
  <2> QED
    BY <1>1, <2>2, Sizes
<1>4. PICK r : r = RunOf(a, t, c)
  OBVIOUS
<1>5. r = [file |-> FileOf(image), from |-> f, at |-> t, num |-> BlockSectors * c, lun |-> image[s].lun]
  BY <1>1, <1>2, <1>4, RunFields
<1>6. /\ f \in Nat /\ f >= First /\ First \in Nat
      /\ From(s, h) \in Nat /\ From(s, h) + BlockSectors <= FileOf(image).sectors
      /\ FileOf(image).sectors \in Nat
  BY <1>1, <1>2, FromTyped, Sizes
<1>7. \A m \in a + 1 .. h : From(s, m) = f + BlockSectors * (m - (a + 1))
  BY <1>1, <1>2, Sizes DEF From
<1>8. BlockSectors * c \in Nat \ {0} /\ f + BlockSectors * c = From(s, h) + BlockSectors
  <2>1. From(s, h) = f + BlockSectors * (h - (a + 1))
    BY <1>2, <1>7
  <2>2. BlockSectors * (h - (a + 1)) + BlockSectors = BlockSectors * c
    BY <1>1, <1>2
  <2>3. BlockSectors * (h - (a + 1)) \in Nat
    BY <1>2
  <2> QED
    BY <1>2, <1>6, <2>1, <2>2, <2>3
<1>9. ASSUME NEW k \in 0 .. BlockSectors * c - 1
      PROVE  Claim(image, s, t + k, f + k)
  <2>1. k \in Nat /\ k < BlockSectors * c
    BY <1>8
  <2>2. PICK q \in 0 .. c - 1, x \in 0 .. BlockSectors - 1 : k = BlockSectors * q + x
    BY <1>2, <2>1, BlockOf
  <2>3. PICK m : m = a + 1 + q
    OBVIOUS
  <2>4. m \in a + 1 .. h /\ m \in 1 .. l /\ m - (a + 1) = q /\ q \in Nat /\ x \in Nat
    BY <1>1, <1>2, <2>2, <2>3
  <2>5. Blk(image, s, m) # End /\ Blk(image, s, m) = b + q
    BY <1>1, <2>4
  <2>6. From(s, m) = f + BlockSectors * q
    BY <1>7, <2>4
  <2>7. BlockSectors * (b + q) = t + BlockSectors * q /\ BlockSectors * q \in Nat
    BY <1>1, <1>2, <1>3, <2>4
  <2>8. PICK z, n, v : z = BlockSectors * q /\ n = t + k /\ v = f + k
    OBVIOUS
  <2>9. /\ z \in Nat /\ k = z + x /\ From(s, m) = f + z
        /\ BlockSectors * Blk(image, s, m) = t + z
    BY <2>2, <2>5, <2>6, <2>7, <2>8
  <2>10. n - (t + z) = x /\ v - (f + z) = x /\ n \in Int /\ v \in Nat
    <3>1. k \in Nat /\ x \in Nat /\ z \in Nat /\ k = z + x /\ n = t + k /\ v = f + k
      BY <2>1, <2>4, <2>8, <2>9
    <3> QED
      BY <1>3, <1>6, <3>1
  <2>11. Own(image, s, m, n, v)
    BY <2>2, <2>5, <2>9, <2>10 DEF Own
  <2>12. \E o \in 1 .. Len(image[s].blocks) : Own(image, s, o, n, v)
    BY <1>1, <2>4, <2>11
  <2> QED
    BY <2>8, <2>10, <2>12 DEF Claim
<1>10. Sound(image, r)
  <2>1. Resolved(t) = t
    BY <1>3 DEF Resolved
  <2>3. \A k \in 0 .. r.num - 1 : Claim(image, s, Resolved(r.at) + k, r.from + k)
    BY <1>5, <1>9, <2>1
  <2>4. SoundFor(image, r, s)
    BY <1>3, <1>5, <1>6, <1>8, <2>3 DEF SoundFor
  <2> QED
    BY <1>2, <2>4 DEF Sound
<1>11. r \in [file : {FileOf(image)}, from : Int, at : Int, num : Int, lun : Int]
  <2>1. image[s].lun \in Int
    BY <1>2, Sizes DEF ImageOK, Unknown
  <2> QED
    BY <1>2, <1>3, <1>5, <1>6, <1>8, <2>1
<1> QED
  BY <1>1, <1>4, <1>10, <1>11 DEF Runs

(* So is what is written at the end.                                       *)
LEMMA EndSound ==
  ASSUME ImageOK(image), store \in 1 .. Len(image),
         NEW a \in Nat, a < Len(image[store].blocks),
         Ends(image, store) # {}, Ends(image, store) = {<<1, 2>>} => a = 0
  PROVE  RunOf(a, -BlockSectors, 1) \in Runs(image)
<1>1. PICK s, f, l : s = store /\ f = From(s, a + 1) /\ l = Len(image[s].blocks)
  OBVIOUS
<1>2. /\ l \in Nat /\ a + 1 \in 1 .. l /\ BlockSectors \in Nat \ {0} /\ DiskSectors \in Nat
      /\ s \in 1 .. Len(image) /\ s \in Nat /\ Len(image) \in Nat
  BY <1>1, Sizes DEF ImageOK
<1>3. PICK r : r = RunOf(a, -BlockSectors, 1)
  OBVIOUS
<1>4. r = [file |-> FileOf(image), from |-> f, at |-> -BlockSectors, num |-> BlockSectors, lun |-> image[s].lun]
  BY <1>1, <1>2, <1>3, RunFields
<1>5. /\ f \in Nat /\ f >= First /\ f + BlockSectors <= FileOf(image).sectors
      /\ a = 0 => f = From(s, 1)
  BY <1>1, <1>2, FromTyped
<1>6. ASSUME NEW k \in 0 .. BlockSectors - 1
      PROVE  Claim(image, s, Resolved(-BlockSectors) + k, f + k)
  <2>1. Resolved(-BlockSectors) = DiskSectors - BlockSectors
    BY <1>2 DEF Resolved
  <2>2. PICK n, v : n = Resolved(-BlockSectors) + k /\ v = f + k
    OBVIOUS
  <2>3. n \in DiskSectors - BlockSectors .. DiskSectors - 1 /\ v - f = k
        /\ n - (DiskSectors - BlockSectors) = k
    BY <1>2, <1>5, <2>1, <2>2
  <2>4. AtEnd(image, s, n, v)
    BY <1>1, <1>5, <2>3 DEF AtEnd
  <2>5. n \in Int /\ v \in Nat
    BY <1>2, <1>5, <2>1, <2>2
  <2> QED
    BY <2>2, <2>4, <2>5 DEF Claim
<1>7. Sound(image, r)
  <2>1. SoundFor(image, r, s)
    BY <1>2, <1>4, <1>5, <1>6 DEF SoundFor
  <2> QED
    BY <1>2, <2>1 DEF Sound
<1>8. r \in [file : {FileOf(image)}, from : Int, at : Int, num : Int, lun : Int]
  <2>1. image[s].lun \in Int
    BY <1>2, Sizes DEF ImageOK, Unknown
  <2> QED
    BY <1>2, <1>4, <1>5, <2>1
<1> QED
  BY <1>3, <1>7, <1>8 DEF Runs

LEMMA RunTyped ==
  ASSUME NEW im, ImageOK(im), NEW r \in Runs(im)
  PROVE  /\ r.file = FileOf(im) /\ r.from \in Int /\ r.at \in Int /\ r.num \in Nat \ {0}
         /\ r.lun \in 0 .. Unknown /\ Unknown \in Nat /\ Sound(im, r)
         /\ r.from >= First /\ r.from + r.num <= r.file.sectors
         /\ r.file.kind = "raw" /\ r.file.sectors \in Nat
         /\ Resolved(r.at) \in Nat /\ Resolved(r.at) + r.num <= DiskSectors
         /\ Addr(im) => /\ r.lun \in 0 .. Luns /\ r.lun + 1 \in 1 .. Len(im)
                        /\ Where(r.lun) = r.lun /\ SoundFor(im, r, r.lun + 1)
<1>1. /\ r \in [file : {FileOf(im)}, from : Int, at : Int, num : Int, lun : Int] /\ Sound(im, r)
  BY DEF Runs
<1>2. PICK s \in 1 .. Len(im) : SoundFor(im, r, s)
  BY <1>1 DEF Sound
<1>3. /\ r.file = FileOf(im) /\ r.from \in Int /\ r.at \in Int /\ r.num \in Nat \ {0}
  BY <1>1, <1>2 DEF SoundFor
<1>4. r.lun \in 0 .. Unknown /\ Unknown \in Nat
  BY <1>2, Sizes DEF SoundFor, ImageOK, Unknown
<1>5. r.file.kind = "raw" /\ r.file.sectors \in Nat
  <2>1. 1 \in 1 .. Len(im[s].blocks)
    BY Sizes DEF ImageOK
  <2> QED
    BY <1>3, <2>1, FromTyped
<1>6. r.from >= First /\ r.from + r.num <= r.file.sectors
  BY <1>2, <1>3 DEF SoundFor
<1>7. Resolved(r.at) \in Int
  BY <1>3, Sizes DEF Resolved
<1>8. /\ Resolved(r.at) + 0 \in 0 .. DiskSectors - 1
      /\ Resolved(r.at) + (r.num - 1) \in 0 .. DiskSectors - 1
  <2>1. 0 \in 0 .. r.num - 1 /\ r.num - 1 \in 0 .. r.num - 1
    BY <1>3
  <2>2. /\ Claim(im, s, Resolved(r.at) + 0, r.from + 0)
        /\ Claim(im, s, Resolved(r.at) + (r.num - 1), r.from + (r.num - 1))
    BY <1>2, <2>1 DEF SoundFor
  <2> QED
    BY <2>2, ClaimRange
<1>9. ASSUME Addr(im)
      PROVE  /\ r.lun \in 0 .. Luns /\ r.lun + 1 \in 1 .. Len(im)
             /\ Where(r.lun) = r.lun /\ SoundFor(im, r, r.lun + 1)
  <2>1. r.lun = s - 1 /\ Where(s - 1) = s - 1
    BY <1>2, <1>9 DEF Addr, SoundFor
  <2>2. Len(im) \in Nat /\ Len(im) <= Luns + 1 /\ s \in Nat
    BY Sizes DEF ImageOK
  <2>3. s - 1 + 1 = s /\ s - 1 \in 0 .. Luns
    BY <2>2, Sizes
  <2> QED
    BY <1>2, <2>1, <2>3
<1>10. Resolved(r.at) \in Nat /\ Resolved(r.at) + r.num <= DiskSectors
  BY <1>3, <1>7, <1>8, Sizes
<1> QED
  BY <1>1, <1>3, <1>4, <1>5, <1>6, <1>9, <1>10

(* Writing of a run what belongs there, and nothing is lost.               *)
LEMMA RunWritten ==
  ASSUME ImageOK(image), NEW d, Placed(image, d), NEW r \in Runs(image), NEW num \in 0 .. r.num,
         Where(r.lun) \in 0 .. Luns
  PROVE  /\ Placed(image, Written(d, r, r.lun, num))
         /\ Addr(image) => \A s \in 1 .. Len(image), n \in 0 .. DiskSectors - 1 :
              /\ d[s - 1][n] # Blank => Written(d, r, r.lun, num)[s - 1][n] # Blank
              /\ Reaches(r, s, n) /\ n < Resolved(r.at) + num
                   => Written(d, r, r.lun, num)[s - 1][n] # Blank
<1>1. PICK w, a, f, l :
        w = Written(d, r, r.lun, num) /\ a = Resolved(r.at) /\ f = r.from /\ l = r.lun
  OBVIOUS
<1>2. /\ a \in Int /\ f \in Int /\ num \in Int /\ num <= r.num /\ r.num \in Nat
      /\ Len(image) \in Nat /\ Len(image) <= Luns + 1
      /\ r.file = FileOf(image) /\ Shaped(d) /\ Where(l) \in 0 .. Luns
      /\ f + r.num <= FileOf(image).sectors /\ FileOf(image).sectors \in Nat
      /\ FileOf(image).kind = "raw"
      /\ Addr(image) => /\ l \in 0 .. Luns /\ l + 1 \in 1 .. Len(image)
                        /\ Where(l) = l /\ SoundFor(image, r, l + 1)
  <2>1. Len(image) \in Nat /\ Len(image) <= Luns + 1
    <3>1. Len(image) \in 1 .. Stores
      BY DEF ImageOK
    <3> QED
      BY <3>1, Sizes
  <2>2. Shaped(d)
    BY DEF Placed
  <2>3. /\ r.file = FileOf(image) /\ r.from \in Int /\ r.num \in Nat \ {0}
        /\ r.from + r.num <= r.file.sectors
        /\ r.file.kind = "raw" /\ r.file.sectors \in Nat /\ Resolved(r.at) \in Nat
    BY RunTyped
  <2>4. a \in Int /\ f \in Int /\ num \in Int /\ num <= r.num /\ r.num \in Nat
    BY <1>1, <2>3
  <2>5. /\ f + r.num <= FileOf(image).sectors /\ FileOf(image).sectors \in Nat
        /\ FileOf(image).kind = "raw"
    BY <1>1, <2>3
  <2>6. Addr(image) => /\ l \in 0 .. Luns /\ l + 1 \in 1 .. Len(image)
                       /\ Where(l) = l /\ SoundFor(image, r, l + 1)
    BY <1>1, RunTyped
  <2> QED
    BY <1>1, <2>1, <2>2, <2>3, <2>4, <2>5, <2>6
<1>3. Shaped(w)
  BY <1>1, <1>2, WrittenShaped
<1>4. ASSUME Addr(image), NEW n \in 0 .. Luns, NEW k \in 0 .. DiskSectors - 1
      PROVE  /\ n = l /\ a <= k /\ k < a + num =>
                  w[n][k] = f + (k - a) /\ Claim(image, n + 1, k, w[n][k])
             /\ ~(n = l /\ a <= k /\ k < a + num) => w[n][k] = d[n][k]
  <2>1. /\ n = l /\ a <= k /\ k < a + num => w[n][k] = Data(r, f + (k - a))
        /\ ~(n = l /\ a <= k /\ k < a + num) => w[n][k] = d[n][k]
    <3>1. w = Written(d, r, l, num) /\ r.from = f /\ Resolved(r.at) = a
      BY <1>1
    <3>2. /\ f \in Int /\ a \in Int /\ Where(l) = l /\ Where(l) \in 0 .. Luns
          /\ num \in Int /\ Shaped(d)
      BY <1>2, <1>4
    <3>3. /\ n = Where(l) /\ a <= k /\ k < a + num => w[n][k] = Data(r, f + (k - a))
          /\ ~(n = Where(l) /\ a <= k /\ k < a + num) => w[n][k] = d[n][k]
      BY <3>1, <3>2, WrittenSector
    <3> QED
      BY <3>2, <3>3
  <2>2. ASSUME n = l, a <= k, k < a + num
        PROVE  Data(r, f + (k - a)) = f + (k - a) /\ Claim(image, n + 1, k, f + (k - a))
    <3>1. PICK x : x = k - a
      OBVIOUS
    <3>2. x \in 0 .. r.num - 1 /\ a + x = k /\ x < r.num
      <4>1. /\ a \in Int /\ num \in Int /\ num <= r.num /\ r.num \in Nat /\ k \in Int
        BY <1>2, Sizes
      <4> QED
        BY <2>2, <3>1, <4>1
    <3>3. Claim(image, l + 1, a + x, f + x)
      BY <1>1, <1>2, <1>4, <3>2 DEF SoundFor
    <3>4. f + x < FileOf(image).sectors
      BY <1>2, <3>2
    <3>5. Data(r, f + x) = f + x
      BY <1>2, <3>4 DEF Data
    <3> QED
      BY <2>2, <3>1, <3>2, <3>3, <3>5
  <2> QED
    BY <2>1, <2>2
<1>5. Placed(image, w)
  <2>1. ASSUME Addr(image), NEW n \in 0 .. Luns, NEW k \in 0 .. DiskSectors - 1
        PROVE  w[n][k] = Blank \/ (n < Len(image) /\ Claim(image, n + 1, k, w[n][k]))
    <3>1. CASE n = l /\ a <= k /\ k < a + num
      BY <1>2, <1>4, <2>1, <3>1
    <3>2. CASE ~(n = l /\ a <= k /\ k < a + num)
      BY <1>4, <2>1, <3>2 DEF Placed
    <3> QED
      BY <3>1, <3>2
  <2> QED
    BY <1>3, <2>1 DEF Placed
<1>6. ASSUME Addr(image), NEW s \in 1 .. Len(image), NEW n \in 0 .. DiskSectors - 1
      PROVE  /\ d[s - 1][n] # Blank => w[s - 1][n] # Blank
             /\ Reaches(r, s, n) /\ n < Resolved(r.at) + num => w[s - 1][n] # Blank
  <2>1. s - 1 \in 0 .. Luns /\ s - 1 + 1 = s
    BY <1>2, Sizes
  <2>2. s - 1 = l /\ a <= n /\ n < a + num => w[s - 1][n] # Blank
    <3>1. Claim(image, s - 1 + 1, n, w[s - 1][n]) => w[s - 1][n] # Blank
      BY DEF Claim, Blank
    <3> QED
      BY <1>4, <1>6, <2>1, <3>1
  <2>3. ~(s - 1 = l /\ a <= n /\ n < a + num) => w[s - 1][n] = d[s - 1][n]
    BY <1>4, <1>6, <2>1
  <2>4. Reaches(r, s, n) => s - 1 = l /\ a <= n
    BY <1>1, <1>6 DEF Reaches, Addr
  <2> QED
    BY <1>1, <2>2, <2>3, <2>4
<1> QED
  BY <1>1, <1>5, <1>6

(* The rest of a run may be written, and reaches the rest.                 *)
LEMMA RestSound ==
  ASSUME NEW im, ImageOK(im), NEW r \in Runs(im), NEW n \in Nat, n < r.num,
         NEW q, q = [r EXCEPT !.from = @ + n, !.at = @ + n, !.num = @ - n]
  PROVE  /\ q \in Runs(im)
         /\ \A s, k \in Int : Reaches(r, s, k) => Reaches(q, s, k) \/ k < Resolved(r.at) + n
<1>1. /\ r \in [file : {FileOf(im)}, from : Int, at : Int, num : Int, lun : Int] /\ Sound(im, r)
      /\ r.num \in Nat
  BY RunTyped DEF Runs
<1>0. r = [file |-> r.file, from |-> r.from, at |-> r.at, num |-> r.num, lun |-> r.lun]
  BY <1>1
<1>10. q = [file |-> r.file, from |-> r.from + n, at |-> r.at + n, num |-> r.num - n, lun |-> r.lun]
  BY <1>0
<1>11. PICK t \in 1 .. Len(im) : SoundFor(im, r, t)
  BY <1>1 DEF Sound
<1>12. r.from \in Int /\ r.at \in Int /\ r.num \in Nat
  BY <1>1
<1>2. /\ q \in [file : {FileOf(im)}, from : Int, at : Int, num : Int, lun : Int]
      /\ q.from = r.from + n /\ q.at = r.at + n /\ q.num = r.num - n /\ q.lun = r.lun
  BY <1>1, <1>10
<1>3. Resolved(q.at) = Resolved(r.at) + n /\ Resolved(r.at) \in Int
  <2>1. r.at >= 0 \/ r.at + r.num <= 0
    BY <1>11 DEF SoundFor
  <2>2. q.at = r.at + n /\ DiskSectors \in Nat /\ n < r.num
    BY <1>2, Sizes
  <2> QED
    BY <1>12, <2>1, <2>2 DEF Resolved
<1>4. ASSUME NEW k \in 0 .. q.num - 1
      PROVE  Claim(im, t, Resolved(q.at) + k, q.from + k)
  <2>1. PICK x : x = n + k
    OBVIOUS
  <2>2. x \in 0 .. r.num - 1 /\ Resolved(q.at) + k = Resolved(r.at) + x /\ q.from + k = r.from + x
    <3>1. PICK c, g, z, u : c = r.num /\ g = r.from /\ z = Resolved(r.at) /\ u = Resolved(q.at)
      OBVIOUS
    <3>2. q.num = c - n /\ q.from = g + n
      BY <1>2, <3>1
    <3>3. c \in Nat /\ g \in Int /\ z \in Int /\ u = z + n
      BY <1>3, <1>12, <3>1
    <3>4. k \in 0 .. c - n - 1
      BY <3>2
    <3>5. x \in 0 .. c - 1 /\ u + k = z + x /\ g + n + k = g + x
      BY <2>1, <3>3, <3>4
    <3> QED
      BY <3>1, <3>2, <3>5
  <2>3. Claim(im, t, Resolved(r.at) + x, r.from + x)
    BY <1>11, <2>2 DEF SoundFor
  <2> QED
    BY <1>2, <2>2, <2>3
<1>5. Sound(im, q)
  <2>1. q.lun = im[t].lun /\ q.num > 0
    BY <1>1, <1>2, <1>11 DEF SoundFor
  <2>2. q.from >= First /\ q.from + q.num = r.from + r.num
    <3>1. r.from >= First
      BY <1>11 DEF SoundFor
    <3>2. PICK c, g : c = r.num /\ g = r.from
      OBVIOUS
    <3>3. q.num = c - n /\ q.from = g + n /\ c \in Nat /\ g \in Int
      BY <1>2, <1>12, <3>2
    <3>4. g + n >= First /\ g + n + (c - n) = g + c
      BY <3>1, <3>2, <3>3, Sizes
    <3> QED
      BY <3>2, <3>3, <3>4
  <2>3. q.at >= 0 \/ q.at + q.num <= 0
    BY <1>1, <1>2, <1>11 DEF SoundFor
  <2>4. SoundFor(im, q, t)
    BY <1>4, <1>11, <2>1, <2>2, <2>3 DEF SoundFor
  <2> QED
    BY <2>4 DEF Sound
<1>6. ASSUME NEW s, NEW k \in Int, Reaches(r, s, k)
      PROVE  Reaches(q, s, k) \/ k < Resolved(r.at) + n
  BY <1>1, <1>2, <1>3, <1>6 DEF Reaches
<1> QED
  BY <1>2, <1>5, <1>6 DEF Runs

(* A start from the end is the same sector, evaluated or not.              *)
LEMMA EntrySound ==
  ASSUME ImageOK(image), NEW r \in Runs(image),
         NEW q, q = [r EXCEPT !.at = ParseXMLEvaluate(@)]
  PROVE  /\ q \in Runs(image)
         /\ \A s, k \in Int : Reaches(r, s, k) => Reaches(q, s, k)
<1>1. /\ r \in [file : {FileOf(image)}, from : Int, at : Int, num : Int, lun : Int] /\ Sound(image, r)
      /\ r.num \in Nat \ {0} /\ Resolved(r.at) \in Nat
  BY RunTyped DEF Runs
<1>2. PICK t : t = ParseXMLEvaluate(r.at)
  OBVIOUS
<1>3. /\ t \in Int /\ Resolved(t) = Resolved(r.at)
      /\ t = r.at \/ t >= 0
  BY <1>1, <1>2, Sizes DEF ParseXMLEvaluate, Known, Resolved
<1>4. /\ q \in [file : {FileOf(image)}, from : Int, at : Int, num : Int, lun : Int]
      /\ q.from = r.from /\ q.at = t /\ q.num = r.num /\ q.lun = r.lun
  BY <1>1, <1>2, <1>3
<1>5. Sound(image, q)
  <2>1. PICK s \in 1 .. Len(image) : SoundFor(image, r, s)
    BY <1>1 DEF Sound
  <2>2. SoundFor(image, q, s)
    BY <1>1, <1>3, <1>4, <2>1 DEF SoundFor
  <2> QED
    BY <2>2 DEF Sound
<1>6. ASSUME NEW s, NEW k \in Int, Reaches(r, s, k) PROVE Reaches(q, s, k)
  BY <1>3, <1>4, <1>6 DEF Reaches
<1> QED
  BY <1>4, <1>5, <1>6 DEF Runs

(* What is true of the first and the other descriptors.                    *)
LEMMA StoreKind ==
  ASSUME NEW n \in Nat \ {0}, NEW b \in StoresOf(n)
  PROVE  /\ Len(b) = n
         /\ \A m \in 1 .. n :
              \/ Len(b[m]) = 1 /\ b[m][1] \in Blocks \union {End}
              \/ Len(b[m]) = 2 /\ m = 1 /\ b[m][1] \in Blocks /\ b[m][2] = End
         /\ \A m, l \in 1 .. n : b[m][1] = b[l][1] => m = l
<1> DEFINE One == {<<c>> : c \in Blocks \union {End}}
           Two == {<<c, End>> : c \in Blocks}
<1>1. /\ b \in [1 .. n -> One \union Two]
      /\ \A k \in 2 .. n : Len(b[k]) = 1
      /\ \A k, l \in 1 .. n : b[k][1] = b[l][1] => k = l
  BY DEF StoresOf
<1>2. Len(b) = n
  BY <1>1
<1>3. ASSUME NEW m \in 1 .. n
      PROVE  \/ Len(b[m]) = 1 /\ b[m][1] \in Blocks \union {End}
             \/ Len(b[m]) = 2 /\ m = 1 /\ b[m][1] \in Blocks /\ b[m][2] = End
  <2>1. CASE b[m] \in One
    <3>1. PICK c \in Blocks \union {End} : b[m] = <<c>>
      BY <2>1
    <3> QED
      BY <3>1
  <2>2. CASE b[m] \in Two
    <3>1. PICK c \in Blocks : b[m] = <<c, End>>
      BY <2>2
    <3>2. Len(b[m]) = 2 /\ b[m][1] \in Blocks /\ b[m][2] = End
      BY <3>1
    <3>3. m = 1
      <4>1. m \in 2 .. n => Len(b[m]) = 1
        BY <1>1
      <4> QED
        BY <3>2, <4>1
    <3> QED
      BY <3>2, <3>3
  <2> QED
    BY <1>1, <2>1, <2>2
<1> QED
  BY <1>1, <1>2, <1>3

LEMMA InitFfu == Init => FfuInv
<1> SUFFICES ASSUME Init, tool = "ffu"
             PROVE  WalkInv /\ RunsInv /\ Placed(image, disk) /\ KeptInv
  BY DEF FfuInv
<1>1. /\ FfuInit /\ Fresh /\ pc = "gpt" /\ todo = <<>> /\ xml = <<>> /\ store = 1 /\ i = 1
      /\ status = "SUCCESS" /\ failed = FALSE
      /\ disk = [n \in 0 .. Luns |-> [k \in 0 .. DiskSectors - 1 |-> Blank]]
  BY DEF Init, FfuInit, Fresh
<1>2. ImageOK(image)
  <2>1. PICK n \in 1 .. Stores, g \in Tables, m \in 1 .. Descriptors :
          \E b \in StoresOf(m), c \in StoresOf(1), stray \in {0, n} :
            image = [s \in 1 .. n |-> [blocks |-> IF s = n THEN b ELSE c, gpt |-> g,
                                      lun |-> IF s = stray THEN Unknown ELSE s - 1]]
    BY <1>1 DEF FfuInit
  <2>2. PICK b \in StoresOf(m), c \in StoresOf(1), stray \in {0, n} :
            image = [s \in 1 .. n |-> [blocks |-> IF s = n THEN b ELSE c, gpt |-> g,
                                      lun |-> IF s = stray THEN Unknown ELSE s - 1]]
    BY <2>1
  <2>3. /\ Stores \in Nat /\ Descriptors \in Nat /\ n \in Nat \ {0} /\ m \in Nat \ {0}
        /\ 1 \in Nat \ {0} /\ 1 <= Descriptors
    BY Sizes
  <2>4. Len(image) = n
    BY <2>2, <2>3
  <2>5. ASSUME NEW s \in 1 .. n
        PROVE  /\ Len(image[s].blocks) \in 1 .. Descriptors
               /\ s < n => Len(image[s].blocks) = 1
               /\ \A l \in 1 .. Len(image[s].blocks) :
                    \/ Len(image[s].blocks[l]) = 1 /\ image[s].blocks[l][1] \in Blocks \union {End}
                    \/ /\ Len(image[s].blocks[l]) = 2 /\ l = 1
                       /\ image[s].blocks[l][1] \in Blocks /\ image[s].blocks[l][2] = End
               /\ \A k, l \in 1 .. Len(image[s].blocks) :
                    image[s].blocks[k][1] = image[s].blocks[l][1] => k = l
    <3>1. CASE s = n
      <4>1. image[s].blocks = b
        BY <2>2, <3>1
      <4> QED
        BY <2>3, <3>1, <4>1, StoreKind
    <3>2. CASE s # n
      <4>1. image[s].blocks = c
        BY <2>2, <3>2
      <4>3. c \in StoresOf(1) /\ 1 \in Nat \ {0}
        BY <2>2
      <4>2. Len(c) = 1 /\ 1 \in 1 .. Descriptors
        <5>1. Len(c) = 1
          BY <4>3, StoreKind
        <5> QED
          BY <2>3, <5>1
      <4>4. \A l \in 1 .. 1 :
              \/ Len(c[l]) = 1 /\ c[l][1] \in Blocks \union {End}
              \/ Len(c[l]) = 2 /\ l = 1 /\ c[l][1] \in Blocks /\ c[l][2] = End
        BY <4>3, StoreKind
      <4>5. \A k, l \in 1 .. 1 : c[k][1] = c[l][1] => k = l
        OBVIOUS
      <4> QED
        BY <4>1, <4>2, <4>4, <4>5
    <3> QED
      BY <3>1, <3>2
  <2>6. ASSUME NEW s \in 1 .. n PROVE image[s].lun \in 0 .. Unknown
    <3>1. image[s].lun = IF s = stray THEN Unknown ELSE s - 1
      BY <2>2
    <3>2. Unknown \in Nat /\ s - 1 \in 0 .. Unknown
      BY <2>3, Sizes DEF Unknown
    <3> QED
      BY <3>1, <3>2
  <2> QED
    BY <2>4, <2>5, <2>6 DEF ImageOK, Blk
<1>3. WalkInv
  <2>1. Len(image) \in Nat \ {0}
    BY <1>2, Sizes DEF ImageOK
  <2> QED
    BY <1>1, <1>2, <2>1 DEF WalkInv, FfuInit
<1>4. RunsInv
  <2>1. <<>> \in Seq(Runs(image))
    OBVIOUS
  <2>2. todo \in Seq(Runs(image)) /\ xml \in Seq(Runs(image))
    BY <1>1, <2>1
  <2> QED
    BY <1>1, <2>2 DEF RunsInv
<1>5. Placed(image, disk)
  BY <1>1 DEF Placed, Shaped
<1>6. KeptInv
  <2>1. ASSUME NEW s \in 1 .. Len(image), NEW p \in Locations(image, s) PROVE ~Visited(s, p)
    BY <1>1, <1>2 DEF Visited, ImageOK
  <2> QED
    BY <2>1 DEF KeptInv
<1> QED
  BY <1>3, <1>4, <1>5, <1>6

(* What was kept is kept, and what is visited now.                         *)
LEMMA KeptStep ==
  ASSUME KeptInv, image' = image, target' = target, failed' = FALSE => failed = FALSE,
         ImageOK(image), failed \in BOOLEAN, failed' \in BOOLEAN,
         \A s \in 1 .. Len(image), n \in 0 .. DiskSectors - 1 :
           ~failed /\ Addr(image) /\ Kept(s, n) => Kept(s, n)',
         \A s \in 1 .. Len(image) : \A p \in Locations(image, s), k \in 0 .. BlockSectors - 1 :
           Visited(s, p)' => Visited(s, p) \/ Kept(s, Resolved(BlockSectors * PlaceOf(image, s, p)) + k)'
  PROVE  KeptInv'
<1>1. ASSUME NEW s \in 1 .. Len(image), NEW p \in Locations(image, s), NEW k \in 0 .. BlockSectors - 1,
             ~failed', Addr(image), Visited(s, p)'
      PROVE  Kept(s, Resolved(BlockSectors * PlaceOf(image, s, p)) + k)'
  <2>1. PICK n : n = Resolved(BlockSectors * PlaceOf(image, s, p)) + k
    OBVIOUS
  <2>2. n \in 0 .. DiskSectors - 1
    <3>1. CASE PlaceOf(image, s, p) # End
      BY <2>1, <3>1, LocationAt, Sizes
    <3>2. CASE PlaceOf(image, s, p) = End
      BY <2>1, <3>2, LocationAt, Sizes
    <3> QED
      BY <3>1, <3>2
  <2>3. CASE Visited(s, p)
    <3>1. ~failed /\ Addr(image)
      BY <1>1
    <3>2. Kept(s, n)
      BY <2>1, <2>3, <3>1 DEF KeptInv
    <3>3. Kept(s, n)'
      BY <2>2, <3>1, <3>2
    <3> QED
      BY <2>1, <3>3
  <2>4. CASE ~Visited(s, p)
    BY <1>1, <2>4
  <2> QED
    BY <2>3, <2>4
<1>2. Addr(image)' <=> Addr(image)
  BY DEF Addr, Where
<1> QED
  BY <1>1, <1>2 DEF KeptInv

LEMMA WalkTyped ==
  ASSUME WalkInv, pc = "blocks"
  PROVE  /\ ImageOK(image) /\ store \in 1 .. Len(image) /\ store \in Nat /\ Len(image) \in Nat
         /\ Len(blocks) \in Nat \ {0} /\ i \in Nat \ {0} /\ i <= Len(blocks) + 1 /\ count = i - 1
         /\ j \in Nat \ {0} /\ start \in Nat /\ start <= count
         /\ hi \in Nat /\ (j = 1 => hi = i - 1) /\ (j # 1 => hi = i)
         /\ i <= Len(blocks) =>
              /\ i \in 1 .. Len(blocks) /\ Len(blocks[i]) \in {1, 2} /\ j <= Len(blocks[i]) + 1
              /\ j <= Len(blocks[i]) =>
                   /\ <<i, j>> \in Locations(image, store)
                   /\ PlaceOf(image, store, <<i, j>>) = blocks[i][j]
<1>1. /\ ImageOK(image) /\ store \in 1 .. Len(image) /\ Len(image) \in Nat
      /\ Len(blocks) \in Nat \ {0}
  BY Sizes DEF WalkInv, ImageOK, blocks
<1>2. /\ i \in Nat \ {0} /\ i <= Len(blocks) + 1 /\ count = i - 1
      /\ j \in Nat \ {0} /\ start \in Nat /\ start <= count
      /\ i <= Len(blocks) => j <= Len(blocks[i]) + 1
  BY <1>1 DEF WalkInv
<1>3. i <= Len(blocks) => i \in 1 .. Len(blocks) /\ Len(blocks[i]) \in {1, 2}
  <2>1. i <= Len(blocks) => i \in 1 .. Len(blocks)
    BY <1>1, <1>2
  <2>2. \A m \in 1 .. Len(blocks) : Len(blocks[m]) \in {1, 2}
    BY <1>1 DEF ImageOK, blocks
  <2> QED
    BY <2>1, <2>2
<1>4. ASSUME i <= Len(blocks), j <= Len(blocks[i])
      PROVE  /\ <<i, j>> \in Locations(image, store)
             /\ PlaceOf(image, store, <<i, j>>) = blocks[i][j]
  <2>1. PICK l, p : l = Len(blocks[i]) /\ p = <<i, j>>
    OBVIOUS
  <2>2. l \in {1, 2} /\ j <= l /\ j \in {1, 2}
    <3>1. l \in {1, 2}
      BY <1>3, <1>4, <2>1, Zenon
    <3>2. j <= l
      BY <1>4, <2>1
    <3> QED
      BY <1>2, <3>1, <3>2
  <2>3. p[1] = i /\ p[2] = j /\ p \in (1 .. Len(blocks)) \X {1, 2}
    BY <1>3, <1>4, <2>1, <2>2
  <2>4. p[2] <= Len(blocks[p[1]])
    BY <2>1, <2>2, <2>3
  <2> QED
    BY <2>1, <2>3, <2>4 DEF Locations, PlaceOf, blocks
<1>5. hi \in Nat /\ (j = 1 => hi = i - 1) /\ (j # 1 => hi = i)
  BY <1>2 DEF hi
<1> QED
  BY <1>1, <1>2, <1>3, <1>4, <1>5

(* What is pending can be written, and is then on its way.                 *)
LEMMA FlushSound ==
  ASSUME WalkInv, pc = "blocks", pending, NEW h, h = hi
  PROVE  /\ Run(h) = <<RunOf(start, at, h - start)>>
         /\ RunOf(start, at, h - start) \in Runs(image)
         /\ \A s, n : Pending(s, n) => Reaches(RunOf(start, at, h - start), s, n)
<1>1. PICK b : b = Blk(image, store, start + 1)
  OBVIOUS
<1>2. /\ ImageOK(image) /\ store \in 1 .. Len(image) /\ store \in Nat /\ Len(image) \in Nat
      /\ Len(blocks) \in Nat \ {0} /\ start \in Nat /\ h \in Nat /\ start < h
      /\ h <= Len(image[store].blocks)
  <2>1. start < h
    BY DEF WalkInv
  <2>2. h <= Len(blocks)
    BY WalkTyped DEF WalkInv
  <2> QED
    BY <2>1, <2>2, WalkTyped DEF blocks
<1>3. /\ at = BlockSectors * b
      /\ \A m \in start + 1 .. h :
            /\ Blk(image, store, m) # End
            /\ Blk(image, store, m) = b + (m - (start + 1))
  BY <1>1 DEF WalkInv
<1>4. RunOf(start, at, h - start) \in Runs(image)
  BY <1>1, <1>2, <1>3, RunSound
<1>5. at \in Nat
  <2>1. b # End /\ start + 1 \in 1 .. Len(image[store].blocks)
    <3>1. start + 1 \in start + 1 .. h
      BY <1>2
    <3> QED
      BY <1>1, <1>2, <1>3, <3>1 DEF blocks
  <2>2. b \in Blocks
    BY <1>1, <1>2, <2>1, BlockKind
  <2> QED
    BY <1>3, <2>2, Sizes
<1>6. ASSUME NEW s, NEW n, Pending(s, n) PROVE Reaches(RunOf(start, at, h - start), s, n)
  <2>1. PICK r : r = RunOf(start, at, h - start)
    OBVIOUS
  <2>2. r = [file |-> FileOf(image), from |-> From(store, start + 1), at |-> at,
             num |-> BlockSectors * (h - start), lun |-> image[store].lun]
    BY <1>2, <2>1, RunFields
  <2>3. Resolved(at) = at
    BY <1>5 DEF Resolved
  <2>4. s = store /\ at <= n /\ n < at + BlockSectors * (h - start)
    BY <1>6 DEF Pending
  <2> QED
    BY <2>1, <2>2, <2>3, <2>4 DEF Reaches
<1> QED
  BY <1>4, <1>6 DEF Run

(* A step of the gathering: what was on its way before is still.           *)
LEMMA GatherKept ==
  ASSUME UNCHANGED <<disk, xml, image>>, todo = <<>>, pc # "entry", NEW s, NEW n, Kept(s, n),
         ~Pending(s, n)
  PROVE  Kept(s, n)'
BY DEF Kept, Reaches, Resolved

LEMMA OnItsWay ==
  ASSUME image' = image, NEW m \in 1 .. Len(todo'), NEW s, NEW n, Reaches(todo'[m], s, n)
  PROVE  Kept(s, n)'
BY DEF Kept, Reaches, Resolved

LEMMA ReadFfu ==
  ASSUME FfuInv, tool = "ffu", tool' = tool, ReadGPT \/ ReadGPTFails
  PROVE  FfuInv'
<1>1. WalkInv /\ RunsInv /\ Placed(image, disk) /\ KeptInv
  BY DEF FfuInv
<1>2. /\ UNCHANGED <<target, split, image, store, todo, xml, disk>> /\ pc = "gpt" /\ todo = <<>>
      /\ pc' \in {"blocks", "done"} /\ (pc' = "done" => failed')
      /\ pc' = "blocks" => /\ i' = 1 /\ j' = 1 /\ pending' = FALSE /\ count' = 0 /\ start' = 0
                           /\ UNCHANGED <<status, failed>>
      /\ failed' \in BOOLEAN /\ (failed' \/ (~failed /\ status' = status)) /\ i' \in Nat
  <2>1. (failed = TRUE \/ failed = FALSE) /\ i \in Nat
    BY <1>1 DEF RunsInv, WalkInv
  <2>2. CASE ReadGPT
    BY <2>1, <2>2 DEF ReadGPT
  <2>3. CASE ReadGPTFails
    BY <2>1, <2>3 DEF ReadGPTFails, ffuVars, run
  <2> QED
    BY <2>2, <2>3
<1>3. /\ ImageOK(image) /\ store \in 1 .. Len(image) /\ store \in Nat /\ Len(image) \in Nat
      /\ Len(blocks) \in Nat \ {0} /\ Len(blocks[1]) \in {1, 2} /\ 1 \in 1 .. Len(blocks)
  <2>1. ImageOK(image) /\ store \in 1 .. Len(image) /\ Len(image) \in Nat
    BY <1>1, Sizes DEF WalkInv, ImageOK
  <2>2. Len(blocks) \in Nat \ {0}
    BY <2>1, Sizes DEF ImageOK, blocks
  <2>3. 1 \in 1 .. Len(blocks)
    BY <2>2
  <2>4. Len(blocks[1]) \in {1, 2}
    BY <2>1, <2>3 DEF ImageOK, blocks
  <2> QED
    BY <2>1, <2>2, <2>3, <2>4
<1>4. WalkInv'
  <2>1. blocks' = blocks
    BY <1>2 DEF blocks
  <2>2. PICK l, c : l = Len(blocks) /\ c = Len(blocks[1])
    OBVIOUS
  <2>3. l \in Nat \ {0} /\ c \in {1, 2}
    BY <1>3, <2>2
  <2>4. pc' = "blocks" => i' \in 1 .. Len(blocks') + 1
                          /\ (i' <= Len(blocks') => j' <= Len(blocks'[i']) + 1)
                          /\ (i' > Len(blocks') => j' = 1)
    BY <1>2, <2>1, <2>2, <2>3
  <2> QED
    BY <1>1, <1>2, <2>4 DEF WalkInv
<1>5. RunsInv'
  BY <1>1, <1>2 DEF RunsInv
<1>6. KeptInv'
  <2>1. CASE failed'
    BY <2>1 DEF KeptInv
  <2>2. CASE ~failed'
    <3>1. failed \in BOOLEAN /\ failed' \in BOOLEAN /\ ~failed /\ pc' = "blocks"
      BY <1>1, <1>2, <2>2 DEF RunsInv
    <3>2. ASSUME NEW s \in 1 .. Len(image), NEW n \in 0 .. DiskSectors - 1, Kept(s, n)
          PROVE  Kept(s, n)'
      BY <1>2, <3>2, GatherKept DEF Pending
    <3>3. ASSUME NEW s \in 1 .. Len(image), NEW p \in Locations(image, s), Visited(s, p)'
          PROVE  Visited(s, p)
      <4>1. p[1] \in Nat \ {0} /\ p[2] \in {1, 2}
        BY DEF Locations
      <4> QED
        BY <1>2, <1>3, <3>1, <3>3, <4>1 DEF Visited
    <3> QED
      BY <1>1, <1>2, <1>3, <3>1, <3>2, <3>3, KeptStep
  <2> QED
    BY <2>1, <2>2
<1> QED
  BY <1>1, <1>2, <1>4, <1>5, <1>6 DEF FfuInv, Placed, Addr, Where

(* A block begins a run, and the one before it is written, or goes on.     *)
LEMMA BeginFfu ==
  ASSUME FfuInv, tool = "ffu", tool' = tool, LocationBegin
  PROVE  FfuInv'
<1>1. WalkInv /\ RunsInv /\ Placed(image, disk) /\ KeptInv
  BY DEF FfuInv
<1>2. /\ UNCHANGED <<target, pc, entry, disk, status, failed, split, image, store, i, count, xml>>
      /\ pc = "blocks" /\ todo = <<>> /\ i <= Len(blocks)
      /\ j <= Len(blocks[i]) /\ blocks[i][j] # End /\ j' = j + 1 /\ next' = blocks[i][j] + 1
  BY DEF LocationBegin, Dumping, entryVars
<1>3. PICK b, s, h, l : b = blocks[i][j] /\ s = store /\ h = hi /\ l = Len(blocks)
  OBVIOUS
<1>4. /\ ImageOK(image) /\ s \in 1 .. Len(image) /\ s \in Nat /\ Len(image) \in Nat
      /\ l \in Nat \ {0} /\ i \in 1 .. l /\ count = i - 1 /\ start \in Nat /\ start <= count
      /\ <<i, j>> \in Locations(image, s) /\ PlaceOf(image, s, <<i, j>>) = b
      /\ j \in Nat \ {0} /\ Len(blocks[i]) \in {1, 2} /\ l = Len(image[s].blocks)
  <2>1. blocks = image[s].blocks
    BY <1>3 DEF blocks
  <2> QED
    BY <1>1, <1>2, <1>3, <2>1, WalkTyped
<1>5. /\ j = 1 /\ b = Blk(image, s, i) /\ b \in Blocks /\ b \in Nat /\ BlockSectors * b \in Nat
      /\ b # End /\ h = count
  <2>1. /\ \/ j = 1 /\ b = Blk(image, s, i) /\ b \in Blocks \union {End}
           \/ b = End
    BY <1>4, LocationKind
  <2>2. j = 1 /\ b = Blk(image, s, i) /\ b \in Blocks /\ b # End
    BY <1>2, <1>3, <2>1
  <2> QED
    BY <1>1, <1>2, <1>3, <1>4, <2>2, WalkTyped, Sizes
<1>6. \/ /\ todo' = Run(count) /\ at' = BlockSectors * b /\ start' = count /\ pending' = TRUE
      \/ UNCHANGED <<todo, at, start, pending>> /\ b = next /\ pending
  <2>1. b * BlockSectors = BlockSectors * b
    BY <1>5, Sizes
  <2> QED
    BY <1>3, <2>1 DEF LocationBegin
<1>7. hi' = i /\ j' = 2 /\ blocks' = blocks
  BY <1>2, <1>5 DEF hi, blocks
<1>8. ASSUME NEW p \in Locations(image, s), Visited(s, p)', ~Visited(s, p)
      PROVE  PlaceOf(image, s, p) = b /\ p = <<i, 1>>
  <2>1. p[1] \in Nat /\ p[2] \in {1, 2} /\ p = <<p[1], p[2]>>
    BY DEF Locations
  <2>2. p[1] = i /\ p[2] = 1
    BY <1>2, <1>3, <1>4, <1>5, <1>8, <2>1 DEF Visited
  <2> QED
    BY <1>4, <1>5, <2>1, <2>2
<1>9. CASE /\ todo' = Run(count) /\ at' = BlockSectors * b /\ start' = count /\ pending' = TRUE
  <2>1. pending => /\ Run(h) = <<RunOf(start, at, h - start)>>
                   /\ RunOf(start, at, h - start) \in Runs(image)
                   /\ \A t, n : Pending(t, n) => Reaches(RunOf(start, at, h - start), t, n)
    BY <1>1, <1>2, <1>3, FlushSound
  <2>2. todo' \in Seq(Runs(image))
    <3>1. CASE pending
      <4>1. PICK r : r = RunOf(start, at, h - start)
        OBVIOUS
      <4>2. r \in Runs(image) /\ todo' = <<r>>
        BY <1>5, <1>9, <2>1, <3>1, <4>1
      <4> QED
        BY <4>2
    <3>2. CASE ~pending
      BY <1>9, <3>2 DEF Run
    <3> QED
      BY <3>1, <3>2
  <2>3. WalkInv'
    <3>1. /\ start' \in 0 .. count' /\ start' < hi' /\ start' + 1 = i /\ hi' = i /\ j' = 2
          /\ i' = i /\ count' = i - 1
      <4>1. i' = i /\ count' = count /\ j' = 2 /\ hi' = i /\ start' = count /\ count = i - 1 /\ i \in Nat \ {0}
        BY <1>2, <1>4, <1>7, <1>9
      <4> QED
        BY <4>1
    <3>2. \A m \in i .. i : Blk(image, s, m) # End /\ Blk(image, s, m) = Blk(image, s, i) + (m - i)
      <4>1. \A m \in i .. i : m = i
        BY <1>4
      <4> QED
        BY <1>4, <1>5, <4>1
    <3>3. /\ store' = s /\ image' = image /\ at' = BlockSectors * Blk(image, s, i)
          /\ next' = Blk(image, s, i) + 1
      BY <1>2, <1>3, <1>5, <1>9
    <3>4. j' <= Len(blocks'[i']) + 1 /\ i' <= Len(blocks')
      <4>1. PICK c : c = Len(blocks[i])
        OBVIOUS
      <4>2. c \in {1, 2} /\ j' = 2 /\ Len(blocks'[i']) = c /\ Len(blocks') = l /\ i' = i
        BY <1>2, <1>3, <1>4, <1>7, <4>1
      <4> QED
        BY <1>4, <4>2
    <3>5. \A m \in start' + 1 .. hi' :
            /\ Blk(image', store', m) # End
            /\ Blk(image', store', m) = Blk(image', store', start' + 1) + (m - (start' + 1))
      BY <3>1, <3>2, <3>3
    <3>6. /\ at' = BlockSectors * Blk(image', store', start' + 1)
          /\ next' = Blk(image', store', hi') + 1
      BY <3>1, <3>3
    <3>7. /\ ImageOK(image') /\ split' \in BOOLEAN
          /\ store' \in 1 .. Len(image') /\ pc' = "blocks"
      BY <1>1, <1>2 DEF WalkInv
    <3>8. i' \in 1 .. Len(blocks') + 1 /\ i' \in Nat \ {0} /\ Len(blocks') \in Nat
      <4>1. i' = i /\ Len(blocks') = l
        BY <1>2, <1>3, <1>7
      <4> QED
        BY <1>4, <4>1
    <3>9. start' < hi' /\ j' = 2 /\ count' = i' - 1 /\ start' \in 0 .. count'
      BY <3>1
    <3>10. 2 <= Len(blocks'[i']) + 1 /\ i' <= Len(blocks')
      BY <3>1, <3>4
    <3>11. /\ i' \in 1 .. Len(blocks') + 1 /\ count' = i' - 1 /\ j' \in 1 .. 3
           /\ i' <= Len(blocks') => j' <= Len(blocks'[i']) + 1
           /\ i' > Len(blocks') => j' = 1
           /\ start' \in 0 .. count' /\ (i' = 1 /\ j' = 1 => ~pending')
      <4>1. PICK m, c : m = Len(blocks') /\ c = Len(blocks'[i'])
        OBVIOUS
      <4>2. m \in Nat /\ i' \in Nat \ {0} /\ i' <= m /\ 2 <= c + 1 /\ j' = 2
        BY <3>8, <3>9, <3>10, <4>1
      <4>3. i' \in 1 .. m + 1 /\ j' \in 1 .. 3 /\ j' <= c + 1 /\ ~(i' > m)
        BY <4>2
      <4>4. ~(i' = 1 /\ j' = 1)
        BY <4>2
      <4> QED
        BY <3>9, <4>1, <4>3, <4>4
    <3>12. j' <= 2 /\ start' < hi'
      BY <3>9
    <3>13. i' \in Nat
      BY <3>8
    <3> QED
      BY <3>5, <3>6, <3>7, <3>11, <3>12, <3>13 DEF WalkInv
  <2>4. RunsInv'
    BY <1>1, <1>2, <2>2 DEF RunsInv
  <2>5. ASSUME NEW t \in 1 .. Len(image), NEW n \in 0 .. DiskSectors - 1, Kept(t, n)
        PROVE  Kept(t, n)'
    <3>1. CASE Pending(t, n)
      <4>1. pending
        BY <3>1 DEF Pending
      <4>2. todo' = <<RunOf(start, at, h - start)>> /\ Reaches(RunOf(start, at, h - start), t, n)
        BY <1>5, <1>9, <2>1, <3>1, <4>1
      <4>3. 1 \in 1 .. Len(todo') /\ Reaches(todo'[1], t, n)
        BY <4>2
      <4> QED
        BY <1>2, <4>3, OnItsWay
    <3>2. CASE ~Pending(t, n)
      BY <1>2, <2>5, <3>2, GatherKept
    <3> QED
      BY <3>1, <3>2
  <2>6. ASSUME NEW t \in 1 .. Len(image), NEW p \in Locations(image, t),
               NEW k \in 0 .. BlockSectors - 1, Visited(t, p)', ~Visited(t, p)
        PROVE  Kept(t, Resolved(BlockSectors * PlaceOf(image, t, p)) + k)'
    <3>1. t = s
      BY <1>2, <1>3, <2>6 DEF Visited
    <3>2. PICK n : n = Resolved(BlockSectors * PlaceOf(image, t, p)) + k
      OBVIOUS
    <3>3. n = BlockSectors * b + k /\ n \in Nat
      <4>1. PlaceOf(image, s, p) = b
        BY <1>8, <2>6, <3>1
      <4> QED
        BY <1>5, <3>1, <3>2, <4>1, Sizes DEF Resolved
    <3>4. PICK z : z = BlockSectors * b
      OBVIOUS
    <3>5. at' <= n /\ n < at' + BlockSectors * (hi' - start')
      <4>1. hi' - start' = 1
        BY <1>4, <1>7, <1>9
      <4>2. BlockSectors * (hi' - start') = BlockSectors
        BY <4>1, Sizes
      <4>3. at' = z /\ n = z + k /\ z \in Nat
        BY <1>5, <1>9, <3>3, <3>4
      <4> QED
        BY <4>2, <4>3, Sizes
    <3>6. pc' = "blocks" /\ pending' /\ t = store'
      BY <1>2, <1>3, <1>9, <3>1
    <3>7. Pending(t, n)'
      BY <3>5, <3>6 DEF Pending
    <3> QED
      BY <1>2, <3>2, <3>7 DEF Kept
  <2>7. KeptInv'
    <3>1. failed \in BOOLEAN /\ failed' = failed
      BY <1>1, <1>2 DEF RunsInv
    <3> QED
      BY <1>1, <1>2, <1>4, <2>5, <2>6, <3>1, KeptStep
  <2> QED
    BY <1>1, <1>2, <2>3, <2>4, <2>7 DEF FfuInv, Placed, Addr, Where
<1>10. CASE UNCHANGED <<todo, at, start, pending>> /\ b = next /\ pending
  <2>1. PICK a : a = Blk(image, s, start + 1)
    OBVIOUS
  <2>2. /\ start < h /\ at = BlockSectors * a /\ b = Blk(image, s, h) + 1
        /\ \A m \in start + 1 .. h : Blk(image, s, m) # End /\ Blk(image, s, m) = a + (m - (start + 1))
    BY <1>1, <1>2, <1>3, <1>10, <2>1 DEF WalkInv
  <2>3. h \in start + 1 .. h /\ start + 1 \in start + 1 .. h
    BY <1>4, <1>5, <2>2
  <2>4. a \in Nat /\ BlockSectors * a \in Nat
    <3>1. a # End /\ start + 1 \in 1 .. Len(image[s].blocks)
      BY <1>4, <1>5, <2>1, <2>2, <2>3
    <3>2. a \in Blocks
      BY <1>4, <2>1, <3>1, BlockKind
    <3> QED
      BY <3>2, Sizes
  <2>5. b = a + (i - (start + 1))
    <3>1. Blk(image, s, h) = a + (h - (start + 1))
      BY <2>2, <2>3
    <3> QED
      BY <1>4, <1>5, <2>2, <2>4, <3>1
  <2>6. WalkInv'
    <3>1. \A m \in start + 1 .. i : Blk(image, s, m) # End /\ Blk(image, s, m) = a + (m - (start + 1))
      <4>1. \A m \in start + 1 .. i : m = i \/ m \in start + 1 .. h
        BY <1>4, <1>5
      <4> QED
        BY <1>5, <2>2, <2>5, <4>1
    <3>2. /\ store' = s /\ image' = image /\ at' = BlockSectors * a /\ start' = start
          /\ next' = Blk(image, s, i) + 1 /\ i' = i /\ count' = i - 1 /\ start' \in 0 .. count'
          /\ hi' = i /\ start' < hi' /\ j' = 2
      BY <1>2, <1>3, <1>4, <1>5, <1>7, <1>10, <2>2
    <3>3. j' <= Len(blocks'[i']) + 1 /\ i' <= Len(blocks')
      <4>1. PICK c : c = Len(blocks[i])
        OBVIOUS
      <4>2. c \in {1, 2} /\ j' = 2 /\ Len(blocks'[i']) = c /\ Len(blocks') = l /\ i' = i
        BY <1>2, <1>3, <1>4, <1>7, <4>1
      <4> QED
        BY <1>4, <4>2
    <3> QED
      BY <1>1, <1>2, <1>7, <2>1, <3>1, <3>2, <3>3 DEF WalkInv
  <2>7. RunsInv'
    BY <1>1, <1>2, <1>10 DEF RunsInv
  <2>8. PICK c, x : c = i - (start + 1) /\ x = BlockSectors * c
    OBVIOUS
  <2>9. c \in Nat /\ x \in Nat /\ BlockSectors * b = at + x
        /\ BlockSectors * (h - start) = x
        /\ BlockSectors * (i - start) = x + BlockSectors
    <3>1. c \in Nat /\ h - start = c /\ i - start = c + 1 /\ b = a + c
      BY <1>4, <1>5, <2>2, <2>5, <2>8
    <3>2. /\ BlockSectors * (c + 1) = BlockSectors * c + BlockSectors
          /\ BlockSectors * (a + c) = BlockSectors * a + BlockSectors * c
          /\ BlockSectors * c \in Nat
      BY <2>4, <3>1, Sizes
    <3> QED
      BY <2>2, <2>8, <3>1, <3>2
  <2>10. ASSUME NEW t \in 1 .. Len(image), NEW n \in 0 .. DiskSectors - 1, Kept(t, n)
         PROVE  Kept(t, n)'
    <3>1. CASE Pending(t, n)
      <4>1. pc = "blocks" /\ t = s /\ at <= n /\ n < at + x
        BY <1>3, <2>9, <3>1 DEF Pending
      <4>2. pc' = "blocks" /\ pending' /\ t = store'
        BY <1>2, <1>3, <1>10, <4>1
      <4>3. at' <= n /\ n < at' + BlockSectors * (hi' - start')
        <5>1. BlockSectors * (hi' - start') = x + BlockSectors /\ at' = at /\ at \in Nat
          BY <1>7, <1>10, <2>2, <2>4, <2>9
        <5> QED
          BY <2>9, <4>1, <5>1, Sizes
      <4>4. Pending(t, n)'
        BY <4>2, <4>3 DEF Pending
      <4> QED
        BY <4>4 DEF Kept
    <3>2. CASE ~Pending(t, n)
      BY <1>2, <2>10, <3>2, GatherKept
    <3> QED
      BY <3>1, <3>2
  <2>11. ASSUME NEW t \in 1 .. Len(image), NEW p \in Locations(image, t),
               NEW k \in 0 .. BlockSectors - 1, Visited(t, p)', ~Visited(t, p)
        PROVE  Kept(t, Resolved(BlockSectors * PlaceOf(image, t, p)) + k)'
    <3>1. t = s
      BY <1>2, <1>3, <2>11 DEF Visited
    <3>2. PICK n : n = Resolved(BlockSectors * PlaceOf(image, t, p)) + k
      OBVIOUS
    <3>3. n = at + x + k /\ n \in Nat
      <4>1. PlaceOf(image, s, p) = b
        BY <1>8, <2>11, <3>1
      <4>2. n = BlockSectors * b + k
        BY <1>5, <3>1, <3>2, <4>1, Sizes DEF Resolved
      <4> QED
        BY <2>2, <2>4, <2>9, <4>2, Sizes
    <3>4. at' <= n /\ n < at' + BlockSectors * (hi' - start')
      <4>1. BlockSectors * (hi' - start') = x + BlockSectors /\ at' = at /\ at \in Nat
        BY <1>7, <1>10, <2>2, <2>4, <2>9
      <4> QED
        BY <2>9, <3>3, <4>1, Sizes
    <3>5. pc' = "blocks" /\ pending' /\ t = store'
      BY <1>2, <1>3, <1>10, <3>1
    <3>6. Pending(t, n)'
      BY <3>4, <3>5 DEF Pending
    <3> QED
      BY <1>2, <3>2, <3>6 DEF Kept
  <2>12. KeptInv'
    <3>1. failed \in BOOLEAN /\ failed' = failed
      BY <1>1, <1>2 DEF RunsInv
    <3> QED
      BY <1>1, <1>2, <1>4, <2>10, <2>11, <3>1, KeptStep
  <2> QED
    BY <1>1, <1>2, <2>6, <2>7, <2>12 DEF FfuInv, Placed, Addr, Where
<1> QED
  BY <1>6, <1>9, <1>10

LEMMA AppendTwo ==
  ASSUME NEW S, NEW a \in S, NEW b \in S
  PROVE  <<a>> \o <<b>> = <<a, b>>
<1>1. PICK q, t, u : q = <<a>> /\ t = <<b>> /\ u = q \o t
  OBVIOUS
<1>2. q \in Seq(S) /\ t \in Seq(S) /\ Len(q) = 1 /\ Len(t) = 1 /\ q[1] = a /\ t[1] = b
  BY <1>1
<1>3. /\ u \in Seq(S) /\ Len(u) = Len(q) + Len(t)
      /\ \A m \in 1 .. Len(q) + Len(t) : u[m] = IF m <= Len(q) THEN q[m] ELSE t[m - Len(q)]
  BY <1>1, <1>2, ConcatProperties
<1>4. u \in Seq(S) /\ Len(u) = 2 /\ u[1] = a /\ u[2] = b
  BY <1>2, <1>3
<1>5. u = <<a, b>>
  BY <1>4
<1> QED
  BY <1>1, <1>5

(* The end of the disk: the run before it is written, and the block too.   *)
LEMMA EndFfu ==
  ASSUME FfuInv, tool = "ffu", tool' = tool, LocationEnd
  PROVE  FfuInv'
<1>1. WalkInv /\ RunsInv /\ Placed(image, disk) /\ KeptInv
  BY DEF FfuInv
<1>2. /\ UNCHANGED <<target, pc, entry, disk, status, failed, split, image, store, i, next, count, start, xml>>
      /\ pc = "blocks" /\ todo = <<>> /\ i <= Len(blocks)
      /\ j <= Len(blocks[i]) /\ blocks[i][j] = End /\ j' = j + 1 /\ pending' = FALSE
      /\ todo' = Run(IF i = 1 THEN 1 ELSE i - 1) \o <<RunOf(start, -BlockSectors, 1)>>
  BY DEF LocationEnd, Dumping, entryVars
<1>3. PICK s, h, l, c : s = store /\ h = hi /\ l = Len(blocks) /\ c = Len(blocks[i])
  OBVIOUS
<1>4. /\ ImageOK(image) /\ s \in 1 .. Len(image) /\ s \in Nat /\ Len(image) \in Nat
      /\ l \in Nat \ {0} /\ i \in 1 .. l /\ count = i - 1 /\ start \in Nat /\ start <= count
      /\ <<i, j>> \in Locations(image, s) /\ PlaceOf(image, s, <<i, j>>) = End
      /\ j \in Nat \ {0} /\ c \in {1, 2} /\ l = Len(image[s].blocks) /\ j <= c
  <2>1. blocks = image[s].blocks
    BY <1>3 DEF blocks
  <2> QED
    BY <1>1, <1>2, <1>3, <2>1, WalkTyped
<1>5. /\ pending => h = IF i = 1 THEN 1 ELSE i - 1
      /\ j = 1 \/ (j = 2 /\ i = 1)
  <2>1. j = 1 \/ (j = 2 /\ i = 1)
    BY <1>4, LocationKind
  <2>2. (j = 1 => h = i - 1) /\ (j # 1 => h = i)
    BY <1>1, <1>2, <1>3, WalkTyped
  <2>3. i = 1 /\ j = 1 => ~pending
    BY <1>1, <1>2 DEF WalkInv
  <2> QED
    BY <2>1, <2>2, <2>3
<1>6. PICK e : e = RunOf(start, -BlockSectors, 1)
  OBVIOUS
<1>7. e \in Runs(image)
  <2>1. <<i, j>> \in Ends(image, s)
    BY <1>4 DEF Ends
  <2>2. Ends(image, s) # {}
    BY <2>1
  <2>3. ASSUME Ends(image, s) = {<<1, 2>>} PROVE start = 0
    <3>1. i = 1
      BY <2>1, <2>3
    <3> QED
      BY <1>4, <3>1
  <2>4. start < Len(image[s].blocks)
    BY <1>4
  <2> QED
    BY <1>3, <1>4, <1>6, <2>2, <2>3, <2>4, EndSound
<1>8. PICK r : r = RunOf(start, at, h - start)
  OBVIOUS
<1>9. pending => /\ todo' = <<r, e>> /\ r \in Runs(image)
                 /\ \A t, n : Pending(t, n) => Reaches(r, t, n)
  <2>1. ASSUME pending
        PROVE  /\ Run(h) = <<r>> /\ r \in Runs(image)
               /\ \A t, n : Pending(t, n) => Reaches(r, t, n)
    BY <1>1, <1>2, <1>3, <1>8, <2>1, FlushSound
  <2>2. ASSUME pending PROVE todo' = <<r>> \o <<e>>
    BY <1>2, <1>5, <1>6, <2>1, <2>2
  <2>3. ASSUME pending PROVE <<r>> \o <<e>> = <<r, e>>
    <3>1. r \in Runs(image) /\ e \in Runs(image)
      BY <1>7, <2>1, <2>3
    <3> QED
      BY <3>1, AppendTwo
  <2> QED
    BY <2>1, <2>2, <2>3
<1>10. ~pending => todo' = <<e>>
  <2>1. ASSUME ~pending PROVE todo' = <<>> \o <<e>>
    BY <1>2, <1>6, <2>1 DEF Run
  <2>2. <<>> \o <<e>> = <<e>>
    OBVIOUS
  <2> QED
    BY <2>1, <2>2
<1>11. /\ todo' \in Seq(Runs(image)) /\ Len(todo') \in 1 .. Len(todo')
       /\ todo'[Len(todo')] = e
  <2>1. CASE pending
    <3>1. todo' = <<r, e>> /\ r \in Runs(image)
      BY <1>9, <2>1
    <3> QED
      BY <1>7, <3>1
  <2>2. CASE ~pending
    <3>1. todo' = <<e>>
      BY <1>10, <2>2
    <3> QED
      BY <1>7, <3>1
  <2> QED
    BY <2>1, <2>2
<1>12. WalkInv'
  <2>1. /\ i' = i /\ count' = count /\ start' = start /\ j' = j + 1 /\ pc' = "blocks"
        /\ blocks' = blocks /\ pending' = FALSE
    BY <1>2 DEF blocks
  <2>2. i' \in 1 .. Len(blocks') + 1 /\ i' <= Len(blocks')
    <3>1. i \in 1 .. l + 1 /\ i <= l
      BY <1>4
    <3>2. Len(blocks') = l /\ i' = i
      BY <1>3, <2>1
    <3> QED
      BY <3>1, <3>2
  <2>3. j' \in 1 .. 3 /\ j' <= Len(blocks'[i']) + 1
    <3>1. j + 1 \in 1 .. 3 /\ j + 1 <= c + 1
      BY <1>4
    <3> QED
      BY <1>3, <2>1, <3>1
  <2>4. ~(i' > Len(blocks')) /\ start' \in 0 .. count' /\ count' = i' - 1
    <3>1. ~(i > l) /\ start \in 0 .. count /\ count = i - 1
      BY <1>4
    <3>2. Len(blocks') = l
      BY <1>3, <2>1
    <3> QED
      BY <2>1, <3>1, <3>2
  <2>5. /\ ImageOK(image') /\ split' \in BOOLEAN
        /\ store' \in 1 .. Len(image') /\ pc' = "blocks"
    BY <1>1, <1>2 DEF WalkInv
  <2> QED
    BY <2>1, <2>2, <2>3, <2>4, <2>5 DEF WalkInv
<1>13. RunsInv'
  BY <1>1, <1>2, <1>11 DEF RunsInv
<1>14. ASSUME NEW t \in 1 .. Len(image), NEW n \in 0 .. DiskSectors - 1, Kept(t, n)
       PROVE  Kept(t, n)'
  <2>1. CASE Pending(t, n)
    <3>1. todo' = <<r, e>> /\ Reaches(r, t, n)
      BY <1>9, <2>1 DEF Pending
    <3>2. 1 \in 1 .. Len(todo') /\ Reaches(todo'[1], t, n)
      BY <3>1
    <3> QED
      BY <1>2, <3>2, OnItsWay
  <2>2. CASE ~Pending(t, n)
    BY <1>2, <1>14, <2>2, GatherKept
  <2> QED
    BY <2>1, <2>2
<1>15. ASSUME NEW t \in 1 .. Len(image), NEW p \in Locations(image, t),
              NEW k \in 0 .. BlockSectors - 1, Visited(t, p)', ~Visited(t, p)
       PROVE  Kept(t, Resolved(BlockSectors * PlaceOf(image, t, p)) + k)'
  <2>1. t = s
    BY <1>2, <1>3, <1>15 DEF Visited
  <2>2. p[1] \in Nat /\ p[2] \in {1, 2} /\ p = <<p[1], p[2]>>
    BY DEF Locations
  <2>3. p[1] = i /\ p[2] = j
    BY <1>2, <1>3, <1>4, <1>15, <2>1, <2>2 DEF Visited
  <2>4. PlaceOf(image, t, p) = End
    BY <1>4, <2>1, <2>2, <2>3
  <2>5. PICK n : n = Resolved(BlockSectors * PlaceOf(image, t, p)) + k
    OBVIOUS
  <2>6. n = DiskSectors - BlockSectors + k
    BY <1>4, <2>1, <2>4, <2>5, LocationAt
  <2>7. e = [file |-> FileOf(image), from |-> From(store, start + 1), at |-> -BlockSectors,
             num |-> BlockSectors * 1, lun |-> image[store].lun]
    BY <1>3, <1>4, <1>6, RunFields
  <2>8. Resolved(-BlockSectors) = DiskSectors - BlockSectors
    BY Sizes DEF Resolved
  <2>9. Reaches(e, t, n)
    BY <1>3, <2>1, <2>6, <2>7, <2>8, Sizes DEF Reaches
  <2>10. Kept(t, n)'
    BY <1>2, <1>11, <2>9, OnItsWay
  <2> QED
    BY <1>2, <2>5, <2>10
<1>16. KeptInv'
  <2>1. failed \in BOOLEAN /\ failed' = failed
    BY <1>1, <1>2 DEF RunsInv
  <2> QED
    BY <1>1, <1>2, <1>4, <1>14, <1>15, <2>1, KeptStep
<1> QED
  BY <1>1, <1>2, <1>12, <1>13, <1>16 DEF FfuInv, Placed, Addr, Where

LEMMA NextDescriptorFfu ==
  ASSUME FfuInv, tool = "ffu", tool' = tool, NextDescriptor
  PROVE  FfuInv'
<1>1. WalkInv /\ RunsInv /\ Placed(image, disk) /\ KeptInv
  BY DEF FfuInv
<1>2. /\ UNCHANGED <<target, pc, entry, disk, status, failed, split, image, store, pending, next, start, at, todo, xml>>
      /\ pc = "blocks" /\ todo = <<>> /\ i <= Len(blocks)
      /\ j > Len(blocks[i]) /\ i' = i + 1 /\ j' = 1 /\ count' = count + 1
  BY DEF NextDescriptor, Dumping, entryVars
<1>3. PICK s, h, l, c : s = store /\ h = hi /\ l = Len(blocks) /\ c = Len(blocks[i])
  OBVIOUS
<1>4. /\ ImageOK(image) /\ s \in 1 .. Len(image) /\ s \in Nat /\ Len(image) \in Nat
      /\ l \in Nat \ {0} /\ i \in 1 .. l /\ count = i - 1 /\ start \in Nat /\ start <= count
      /\ j \in Nat \ {0} /\ c \in {1, 2} /\ l = Len(image[s].blocks) /\ j > c /\ j <= c + 1
      /\ j # 1 => h = i
  <2>1. blocks = image[s].blocks
    BY <1>3 DEF blocks
  <2> QED
    BY <1>1, <1>2, <1>3, <2>1, WalkTyped
<1>5. h = i /\ hi' = i /\ hi = i
  <2>1. j # 1
    BY <1>4
  <2>2. i + 1 - 1 = i
    BY <1>4
  <2>3. hi' = i
    <3>1. j' = 1 /\ i' = i + 1 /\ i \in Nat
      BY <1>2, <1>4
    <3>2. hi' = i' - 1
      BY <3>1 DEF hi
    <3> QED
      BY <3>1, <3>2
  <2> QED
    BY <1>3, <1>4, <2>1, <2>3
<1>6. /\ store' = s /\ image' = image /\ start' = start /\ at' = at /\ next' = next /\ pending' = pending
      /\ i' = i + 1 /\ j' = 1 /\ count' = i /\ pc' = "blocks" /\ blocks' = blocks
  BY <1>2, <1>3, <1>4 DEF blocks
<1>7. WalkInv'
  <2>1. i' \in 1 .. Len(blocks') + 1 /\ count' = i' - 1 /\ start' \in 0 .. count' /\ ~(i' = 1)
    <3>1. i + 1 \in 1 .. l + 1 /\ i = i + 1 - 1 /\ start \in 0 .. i /\ ~(i + 1 = 1)
      BY <1>4
    <3>2. Len(blocks') = l
      BY <1>3, <1>6
    <3>3. i' = i + 1 /\ count' = i /\ start' = start /\ i \in Nat
      BY <1>4, <1>6
    <3> QED
      BY <3>1, <3>2, <3>3
  <2>2. ASSUME i' <= Len(blocks') PROVE j' <= Len(blocks'[i']) + 1
    <3>1. i + 1 \in 1 .. Len(image[s].blocks)
      <4>1. i + 1 <= l
        BY <1>3, <1>6, <2>2
      <4>2. i + 1 \in 1 .. l
        BY <1>4, <4>1
      <4> QED
        BY <1>4, <4>2
    <3>2. Len(image[s].blocks[i + 1]) \in {1, 2}
      BY <1>4, <3>1 DEF ImageOK
    <3>3. PICK m : m = Len(blocks'[i'])
      OBVIOUS
    <3>4. m \in {1, 2}
      BY <1>3, <1>6, <3>2, <3>3 DEF blocks
    <3> QED
      BY <1>6, <3>3, <3>4
  <2>3. ASSUME pending'
        PROVE  /\ j' <= 2 /\ start' < hi'
               /\ at' = BlockSectors * Blk(image', store', start' + 1)
               /\ next' = Blk(image', store', hi') + 1
               /\ \A m \in start' + 1 .. hi' :
                    /\ Blk(image', store', m) # End
                    /\ Blk(image', store', m) = Blk(image', store', start' + 1) + (m - (start' + 1))
    <3>1. /\ start < hi
          /\ at = BlockSectors * Blk(image, store, start + 1)
          /\ next = Blk(image, store, hi) + 1
          /\ \A m \in start + 1 .. hi :
               /\ Blk(image, store, m) # End
               /\ Blk(image, store, m) = Blk(image, store, start + 1) + (m - (start + 1))
      BY <1>1, <1>2, <1>6, <2>3 DEF WalkInv
    <3> QED
      BY <1>3, <1>5, <1>6, <3>1
  <2>4. /\ ImageOK(image') /\ split' \in BOOLEAN
        /\ store' \in 1 .. Len(image') /\ pc' = "blocks"
    BY <1>1, <1>2 DEF WalkInv
  <2>5. j' \in 1 .. 3 /\ j' = 1
    BY <1>6
  <2>6. i' \in Nat
    BY <1>4, <1>6
  <2> QED
    BY <2>1, <2>2, <2>3, <2>4, <2>5, <2>6 DEF WalkInv
<1>8. RunsInv'
  BY <1>1, <1>2 DEF RunsInv
<1>9. ASSUME NEW t \in 1 .. Len(image), NEW n \in 0 .. DiskSectors - 1, Kept(t, n)
      PROVE  Kept(t, n)'
  <2>1. CASE Pending(t, n)
    <3>1. t = s /\ at <= n /\ n < at + BlockSectors * (i - start) /\ pending
      BY <1>3, <1>5, <2>1 DEF Pending
    <3>2. Pending(t, n)'
      BY <1>5, <1>6, <3>1 DEF Pending
    <3> QED
      BY <3>2 DEF Kept
  <2>2. CASE ~Pending(t, n)
    BY <1>2, <1>9, <2>2, GatherKept
  <2> QED
    BY <2>1, <2>2
<1>10. ASSUME NEW t \in 1 .. Len(image), NEW p \in Locations(image, t), Visited(t, p)'
       PROVE  Visited(t, p)
  <2>1. CASE t < store
    BY <2>1 DEF Visited
  <2>2. CASE ~(t < store)
    <3>1. t = s /\ t = store
      BY <1>3, <1>6, <1>10, <2>2 DEF Visited
    <3>2. p[1] \in Nat /\ p[2] \in {1, 2} /\ p[2] <= Len(blocks[p[1]])
      BY <3>1 DEF Locations, blocks
    <3>3. p[1] < i + 1 \/ (p[1] = i + 1 /\ p[2] < 1)
      BY <1>3, <1>6, <1>10, <2>2, <3>1 DEF Visited
    <3>4. p[1] < i \/ (p[1] = i /\ p[2] < j)
      <4>1. p[1] < i \/ p[1] = i
        BY <1>4, <3>2, <3>3
      <4>2. ASSUME p[1] = i PROVE p[2] < j
        <5>1. p[2] <= c
          BY <1>3, <3>2, <4>2
        <5> QED
          BY <1>4, <3>2, <5>1
      <4> QED
        BY <4>1, <4>2
    <3> QED
      BY <1>2, <3>1, <3>4 DEF Visited
  <2> QED
    BY <2>1, <2>2
<1>11. KeptInv'
  <2>1. failed \in BOOLEAN /\ failed' = failed
    BY <1>1, <1>2 DEF RunsInv
  <2> QED
    BY <1>1, <1>2, <1>4, <1>9, <1>10, <2>1, KeptStep
<1> QED
  BY <1>1, <1>2, <1>7, <1>8, <1>11 DEF FfuInv, Placed, Addr, Where

(* A store ends: what is pending is written.                               *)
LEMMA StoreEndsFfu ==
  ASSUME FfuInv, tool = "ffu", tool' = tool, StoreEnds
  PROVE  FfuInv'
<1>1. WalkInv /\ RunsInv /\ Placed(image, disk) /\ KeptInv
  BY DEF FfuInv
<1>2. /\ UNCHANGED <<target, split, image, i, j, pending, next, count, start, at, xml, entry, disk, status, failed>>
      /\ pc = "blocks" /\ todo = <<>> /\ i > Len(blocks) /\ todo' = Run(count)
      /\ \/ store < Len(image) /\ store' = store + 1 /\ pc' = "gpt"
         \/ ~(store < Len(image)) /\ store' = store /\ pc' = IF split THEN "next" ELSE "last"
  BY DEF StoreEnds, run
<1>3. PICK s, h, l, r : s = store /\ h = hi /\ l = Len(blocks) /\ r = RunOf(start, at, h - start)
  OBVIOUS
<1>4. /\ ImageOK(image) /\ s \in 1 .. Len(image) /\ s \in Nat /\ Len(image) \in Nat
      /\ l \in Nat \ {0} /\ i = l + 1 /\ count = i - 1 /\ l = Len(image[s].blocks)
      /\ j = 1 => h = i - 1
  <2>1. blocks = image[s].blocks
    BY <1>3 DEF blocks
  <2> QED
    BY <1>1, <1>2, <1>3, <2>1, WalkTyped
<1>5. h = count
  <2>1. j = 1
    BY <1>1, <1>2 DEF WalkInv
  <2> QED
    BY <1>4, <2>1
<1>6. pending => /\ todo' = <<r>> /\ r \in Runs(image)
                 /\ \A t, n : Pending(t, n) => Reaches(r, t, n)
  BY <1>1, <1>2, <1>3, <1>5, FlushSound
<1>7. todo' \in Seq(Runs(image))
  <2>1. CASE pending
    <3>1. todo' = <<r>> /\ r \in Runs(image)
      BY <1>6, <2>1
    <3> QED
      BY <3>1
  <2>2. CASE ~pending
    BY <1>2, <2>2 DEF Run
  <2> QED
    BY <2>1, <2>2
<1>8. WalkInv'
  <2>1. /\ ImageOK(image') /\ split' \in BOOLEAN
    BY <1>1, <1>2 DEF WalkInv
  <2>2. store' \in 1 .. Len(image') /\ pc' \in {"gpt", "next", "last"}
    BY <1>2, <1>3, <1>4
  <2>3. ASSUME pc' \in {"next", "last"} PROVE store' = Len(image') /\ i' > Len(blocks')
    BY <1>2, <1>3, <1>4, <2>3 DEF blocks
  <2>4. i' \in Nat
    BY <1>1, <1>2 DEF WalkInv
  <2> QED
    BY <2>1, <2>2, <2>3, <2>4 DEF WalkInv
<1>9. RunsInv'
  <2>1. split = TRUE \/ split = FALSE
    BY <1>1 DEF WalkInv
  <2> QED
    BY <1>1, <1>2, <1>7, <2>1 DEF RunsInv
<1>10. ASSUME NEW t \in 1 .. Len(image), NEW n \in 0 .. DiskSectors - 1, Kept(t, n)
       PROVE  Kept(t, n)'
  <2>1. CASE Pending(t, n)
    <3>1. todo' = <<r>> /\ Reaches(r, t, n)
      BY <1>6, <2>1 DEF Pending
    <3>2. 1 \in 1 .. Len(todo') /\ Reaches(todo'[1], t, n)
      BY <3>1
    <3> QED
      BY <1>2, <3>2, OnItsWay
  <2>2. CASE ~Pending(t, n)
    BY <1>2, <1>10, <2>2, GatherKept
  <2> QED
    BY <2>1, <2>2
<1>11. ASSUME NEW t \in 1 .. Len(image), NEW p \in Locations(image, t), Visited(t, p)'
       PROVE  Visited(t, p)
  <2>1. CASE t < store
    BY <2>1 DEF Visited
  <2>2. CASE ~(t < store)
    <3>1. t = s
      BY <1>2, <1>3, <1>4, <1>11, <2>2 DEF Visited
    <3>2. p[1] \in 1 .. l
      BY <1>4, <3>1 DEF Locations
    <3> QED
      BY <1>2, <1>3, <1>4, <3>1, <3>2 DEF Visited
  <2> QED
    BY <2>1, <2>2
<1>12. KeptInv'
  <2>1. failed \in BOOLEAN /\ failed' = failed
    BY <1>1, <1>2 DEF RunsInv
  <2> QED
    BY <1>1, <1>2, <1>4, <1>10, <1>11, <2>1, KeptStep
<1> QED
  BY <1>1, <1>2, <1>8, <1>9, <1>12 DEF FfuInv, Placed, Addr, Where

LEMMA Ahead ==
  ASSUME NEW S, NEW s \in Seq(S), s # <<>>
  PROVE  /\ Len(s) \in Nat \ {0} /\ 1 \in 1 .. Len(s) /\ Head(s) = s[1] /\ Head(s) \in S
         /\ Tail(s) \in Seq(S)
         /\ \A m \in 2 .. Len(s) : m - 1 \in 1 .. Len(Tail(s)) /\ Tail(s)[m - 1] = s[m]
<1>1. Len(s) \in Nat \ {0} /\ 1 \in 1 .. Len(s) /\ Head(s) = s[1] /\ Head(s) \in S
  BY EmptySeq
<1>2. /\ Tail(s) \in Seq(S) /\ Len(Tail(s)) = Len(s) - 1
      /\ \A m \in 1 .. Len(s) - 1 : Tail(s)[m] = s[m + 1]
  BY HeadTailProperties
<1>3. ASSUME NEW m \in 2 .. Len(s)
      PROVE  m - 1 \in 1 .. Len(Tail(s)) /\ Tail(s)[m - 1] = s[m]
  <2>1. PICK l, k : l = Len(s) /\ k = m - 1
    OBVIOUS
  <2>2. k \in 1 .. l - 1 /\ k + 1 = m
    BY <1>1, <2>1
  <2>3. Tail(s)[k] = s[k + 1]
    BY <1>2, <2>1, <2>2
  <2> QED
    BY <1>2, <2>1, <2>2, <2>3
<1> QED
  BY <1>1, <1>2, <1>3

LEMMA InFront ==
  ASSUME NEW S, NEW t \in Seq(S), NEW q \in S, NEW u, u = <<q>> \o t
  PROVE  /\ u \in Seq(S) /\ 1 \in 1 .. Len(u) /\ u[1] = q
         /\ \A m \in 1 .. Len(t) : m + 1 \in 1 .. Len(u) /\ u[m + 1] = t[m]
<1>1. PICK o, l : o = <<q>> /\ l = Len(t)
  OBVIOUS
<1>2. o \in Seq(S) /\ Len(o) = 1 /\ o[1] = q /\ l \in Nat
  BY <1>1
<1>3. /\ u \in Seq(S) /\ Len(u) = Len(o) + l
      /\ \A m \in 1 .. Len(o) + l : u[m] = IF m <= Len(o) THEN o[m] ELSE t[m - Len(o)]
  BY <1>1, <1>2, ConcatProperties
<1>4. Len(u) = 1 + l /\ \A m \in 1 .. 1 + l : u[m] = IF m <= 1 THEN o[m] ELSE t[m - 1]
  BY <1>2, <1>3
<1>5. 1 \in 1 .. 1 + l /\ u[1] = q
  BY <1>2, <1>4
<1>6. ASSUME NEW m \in 1 .. l PROVE m + 1 \in 1 .. 1 + l /\ u[m + 1] = t[m]
  <2>1. m + 1 \in 1 .. 1 + l /\ ~(m + 1 <= 1) /\ m + 1 - 1 = m
    BY <1>2
  <2> QED
    BY <1>4, <2>1
<1> QED
  BY <1>1, <1>3, <1>4, <1>5, <1>6

(* What is kept elsewhere than in todo, if nothing but todo changes.       *)
LEMMA StillKept ==
  ASSUME UNCHANGED <<pc, xml, entry, store, i, j, pending, start, at>>,
         NEW s, NEW n, disk[s - 1][n] # Blank => disk'[s - 1][n] # Blank,
         image' = image, Kept(s, n), ~(\E m \in 1 .. Len(todo) : Reaches(todo[m], s, n))
  PROVE  Kept(s, n)'
<1>1. Pending(s, n) => Pending(s, n)'
  BY DEF Pending, hi
<1> QED
  BY <1>1 DEF Kept, Reaches, Resolved

LEMMA StillWalks ==
  ASSUME WalkInv, UNCHANGED <<target, split, image, store, i, j, run, pc>>, (failed' = failed) \/ failed'
  PROVE  WalkInv'
BY DEF WalkInv, blocks, run, hi

(* A piece of the run is written, or is not.                               *)
LEMMA WriteFfu ==
  ASSUME FfuInv, tool = "ffu", tool' = tool, WriteDataEntry
  PROVE  FfuInv'
<1>1. WalkInv /\ RunsInv /\ Placed(image, disk) /\ KeptInv /\ ImageOK(image)
  BY DEF FfuInv, WalkInv
<1>2. PICK r, n, q : /\ r = Head(todo) /\ n = (IF r.num < Chunk THEN r.num ELSE Chunk)
                     /\ q = [r EXCEPT !.from = @ + n, !.at = @ + n, !.num = @ - n]
  OBVIOUS
<1>3. /\ UNCHANGED <<target, split, image, store, i, j, run, xml, pc, entry, status>>
      /\ ~split /\ todo # <<>>
      /\ \/ /\ Where(r.lun) \in 0 .. Luns /\ disk' = Written(disk, r, r.lun, n)
            /\ UNCHANGED failed
         \/ n = 0
         \/ n > 0 /\ failed' = TRUE /\ UNCHANGED disk
      /\ todo' = IF q.num = 0 THEN Tail(todo) ELSE <<q>> \o Tail(todo)
  BY <1>2 DEF WriteDataEntry, Accepted
<1>4. /\ todo \in Seq(Runs(image)) /\ r \in Runs(image) /\ r = todo[1]
      /\ Tail(todo) \in Seq(Runs(image)) /\ Len(todo) \in Nat \ {0}
      /\ \A m \in 2 .. Len(todo) : m - 1 \in 1 .. Len(Tail(todo)) /\ Tail(todo)[m - 1] = todo[m]
  <2>1. todo \in Seq(Runs(image)) /\ todo # <<>>
    BY <1>1, <1>3 DEF RunsInv
  <2> QED
    BY <1>2, <2>1, Ahead
<1>5. /\ n \in Nat \ {0} /\ n <= r.num /\ r.num \in Nat \ {0} /\ q.num = r.num - n
      /\ Resolved(r.at) \in Nat
  <2>1. r.num \in Nat \ {0} /\ Resolved(r.at) \in Nat
    BY <1>1, <1>4, RunTyped
  <2>2. n \in Nat \ {0} /\ n <= r.num
    BY <1>2, <2>1, Sizes
  <2>3. r \in [file : {FileOf(image)}, from : Int, at : Int, num : Int, lun : Int]
    BY <1>4 DEF Runs
  <2>4. r = [file |-> r.file, from |-> r.from, at |-> r.at, num |-> r.num, lun |-> r.lun]
    BY <2>3
  <2>5. q.num = r.num - n
    BY <1>2, <2>4
  <2> QED
    BY <2>1, <2>2, <2>5
<1>6. n < r.num =>
        /\ q \in Runs(image)
        /\ \A s, k \in Int : Reaches(r, s, k) => Reaches(q, s, k) \/ k < Resolved(r.at) + n
  BY <1>1, <1>2, <1>4, <1>5, RestSound
<1>7. n < r.num =>
        /\ todo' \in Seq(Runs(image)) /\ 1 \in 1 .. Len(todo') /\ todo'[1] = q
        /\ \A m \in 1 .. Len(Tail(todo)) : m + 1 \in 1 .. Len(todo') /\ todo'[m + 1] = Tail(todo)[m]
  <2> SUFFICES ASSUME n < r.num
               PROVE  /\ todo' \in Seq(Runs(image)) /\ 1 \in 1 .. Len(todo') /\ todo'[1] = q
                      /\ \A m \in 1 .. Len(Tail(todo)) : m + 1 \in 1 .. Len(todo') /\ todo'[m + 1] = Tail(todo)[m]
    OBVIOUS
  <2>1. q.num # 0
    BY <1>5
  <2>2. PICK t, u : t = Tail(todo) /\ u = <<q>> \o t
    OBVIOUS
  <2>3. todo' = u /\ t \in Seq(Runs(image)) /\ q \in Runs(image)
    BY <1>3, <1>4, <1>6, <2>1, <2>2
  <2>4. /\ u \in Seq(Runs(image)) /\ 1 \in 1 .. Len(u) /\ u[1] = q
        /\ \A m \in 1 .. Len(t) : m + 1 \in 1 .. Len(u) /\ u[m + 1] = t[m]
    BY <2>2, <2>3, InFront
  <2> QED
    BY <2>2, <2>3, <2>4
<1>8. n = r.num => todo' = Tail(todo)
  BY <1>3, <1>5
<1>9. todo' \in Seq(Runs(image))
  <2>1. CASE n < r.num
    BY <1>7, <2>1
  <2>2. CASE n = r.num
    BY <1>4, <1>8, <2>2
  <2> QED
    BY <1>5, <2>1, <2>2
<1>11. /\ failed' \in BOOLEAN
       /\ \/ /\ failed' = failed /\ disk' = Written(disk, r, r.lun, n)
             /\ Where(r.lun) \in 0 .. Luns
          \/ failed' /\ disk' = disk
  <2>1. failed \in BOOLEAN /\ n # 0
    BY <1>1, <1>5 DEF RunsInv
  <2> QED
    BY <1>3, <2>1
<1>10. WalkInv'
  <2>1. (failed' = failed) \/ failed'
    BY <1>11
  <2> QED
    BY <1>1, <1>3, <2>1, StillWalks
<1>12. RunsInv'
  <2>1. ASSUME pc = "done", ~failed' PROVE FALSE
    <3>1. ~failed
      BY <1>11, <2>1
    <3> QED
      BY <1>1, <1>3, <2>1, <3>1 DEF RunsInv
  <2>2. failed' \/ status = "SUCCESS"
    BY <1>1, <1>11 DEF RunsInv
  <2> QED
    BY <1>1, <1>3, <1>9, <1>11, <2>1, <2>2 DEF RunsInv
<1>13. n \in 0 .. r.num
  BY <1>5
<1>14. PICK w : w = Written(disk, r, r.lun, n)
  OBVIOUS
<1>15. Where(r.lun) \in 0 .. Luns =>
         /\ Placed(image, w)
         /\ Addr(image) => \A s \in 1 .. Len(image), k \in 0 .. DiskSectors - 1 :
              /\ disk[s - 1][k] # Blank => w[s - 1][k] # Blank
              /\ Reaches(r, s, k) /\ k < Resolved(r.at) + n => w[s - 1][k] # Blank
  BY <1>1, <1>4, <1>13, <1>14, RunWritten
<1>16. Placed(image, disk)'
  <2>1. disk' = disk \/ (disk' = w /\ Placed(image, w))
    BY <1>11, <1>14, <1>15
  <2>2. Placed(image, disk')
    BY <1>1, <2>1
  <2> QED
    BY <1>3, <2>2 DEF Placed, Shaped, Addr, Where
<1>17. KeptInv'
  <2>1. CASE failed'
    BY <2>1 DEF KeptInv
  <2>2. CASE ~failed'
    <3>1. /\ disk' = w /\ failed \in BOOLEAN /\ ~failed /\ failed' \in BOOLEAN
          /\ Where(r.lun) \in 0 .. Luns
      BY <1>1, <1>11, <1>14, <2>2 DEF RunsInv
    <3>2. ASSUME NEW s \in 1 .. Len(image), NEW k \in 0 .. DiskSectors - 1, Addr(image),
                 Kept(s, k)
          PROVE  Kept(s, k)'
      <4>1. CASE \E m \in 1 .. Len(todo) : Reaches(todo[m], s, k)
        <5>1. PICK m \in 1 .. Len(todo) : Reaches(todo[m], s, k)
          BY <4>1
        <5>2. CASE m = 1
          <6>1. Reaches(r, s, k)
            BY <1>4, <5>1, <5>2
          <6>2. CASE k < Resolved(r.at) + n
            <7>1. disk'[s - 1][k] # Blank
              BY <1>15, <3>1, <3>2, <6>1, <6>2
            <7> QED
              BY <7>1 DEF Kept
          <6>3. CASE ~(k < Resolved(r.at) + n)
            <7>1. n < r.num
              BY <1>5, <6>1, <6>3 DEF Reaches
            <7>2. Reaches(q, s, k)
              <8>1. ImageOK(image) /\ s \in Int /\ k \in Int
                BY <1>1
              <8> QED
                BY <1>6, <6>1, <6>3, <7>1, <8>1
            <7>3. 1 \in 1 .. Len(todo') /\ Reaches(todo'[1], s, k)
              BY <1>7, <7>1, <7>2
            <7> QED
              BY <1>3, <7>3, OnItsWay
          <6> QED
            BY <6>2, <6>3
        <5>3. CASE m # 1
          <6>1. PICK l : l = m - 1
            OBVIOUS
          <6>2. m \in 2 .. Len(todo) /\ l \in Nat
            BY <1>4, <5>3, <6>1
          <6>3. l \in 1 .. Len(Tail(todo)) /\ Tail(todo)[l] = todo[m]
            BY <1>4, <6>1, <6>2
          <6>4. CASE n < r.num
            <7>1. l + 1 \in 1 .. Len(todo') /\ todo'[l + 1] = todo[m]
              BY <1>7, <6>3, <6>4
            <7>2. Reaches(todo'[l + 1], s, k)
              BY <5>1, <7>1
            <7> QED
              BY <1>3, <7>1, <7>2, OnItsWay
          <6>5. CASE n = r.num
            <7>1. l \in 1 .. Len(todo') /\ Reaches(todo'[l], s, k)
              BY <1>8, <5>1, <6>3, <6>5
            <7> QED
              BY <1>3, <7>1, OnItsWay
          <6> QED
            BY <1>5, <6>4, <6>5
        <5> QED
          BY <5>2, <5>3
      <4>2. CASE ~(\E m \in 1 .. Len(todo) : Reaches(todo[m], s, k))
        <5>1. disk[s - 1][k] # Blank => disk'[s - 1][k] # Blank
          BY <1>15, <3>1, <3>2
        <5>2. UNCHANGED <<pc, xml, entry, store, i, j, pending, start, at>>
          BY <1>3 DEF run
        <5> QED
          BY <1>3, <3>2, <4>2, <5>1, <5>2, StillKept
      <4> QED
        BY <4>1, <4>2
    <3>3. ASSUME NEW s, NEW p, Visited(s, p)' PROVE Visited(s, p)
      BY <1>3, <3>3 DEF Visited
    <3> QED
      BY <1>1, <1>3, <3>1, <3>2, <3>3, KeptStep
  <2> QED
    BY <2>1, <2>2
<1> QED
  BY <1>10, <1>12, <1>16, <1>17 DEF FfuInv

LEMMA WriteFailsFfu ==
  ASSUME FfuInv, tool = "ffu", tool' = tool, WriteDataEntryFails
  PROVE  FfuInv'
<1>1. WalkInv /\ RunsInv /\ Placed(image, disk)
  BY DEF FfuInv
<1>2. /\ UNCHANGED <<target, split, image, store, i, j, run, xml, pc, entry, disk, status>>
      /\ todo # <<>> /\ todo' = Tail(todo) /\ failed' = TRUE
  BY DEF WriteDataEntryFails
<1>3. WalkInv'
  BY <1>1, <1>2, StillWalks
<1>4. todo' \in Seq(Runs(image))
  <2>1. todo \in Seq(Runs(image))
    BY <1>1 DEF RunsInv
  <2> QED
    BY <1>2, <2>1, Ahead
<1>5. RunsInv'
  BY <1>1, <1>2, <1>4 DEF RunsInv
<1>6. KeptInv'
  BY <1>2 DEF KeptInv
<1> QED
  BY <1>1, <1>2, <1>3, <1>5, <1>6 DEF FfuInv, Placed, Addr, Where

(* The run becomes an entry of the file, or does not.                      *)
LEMMA AddFfu ==
  ASSUME FfuInv, tool = "ffu", tool' = tool, AddEntryToRawProgram
  PROVE  FfuInv'
<1>1. WalkInv /\ RunsInv /\ Placed(image, disk) /\ KeptInv /\ ImageOK(image)
  BY DEF FfuInv, WalkInv
<1>2. /\ UNCHANGED <<target, split, image, store, i, j, run, pc, entry, disk, status>>
      /\ split /\ todo # <<>> /\ todo' = Tail(todo)
      /\ \/ xml' = Append(xml, Head(todo)) /\ UNCHANGED failed
         \/ failed' = TRUE /\ UNCHANGED xml
  BY DEF AddEntryToRawProgram
<1>3. PICK r, l : r = Head(todo) /\ l = Len(xml)
  OBVIOUS
<1>4. /\ todo \in Seq(Runs(image)) /\ xml \in Seq(Runs(image)) /\ l \in Nat
      /\ r \in Runs(image) /\ r = todo[1]
      /\ Tail(todo) \in Seq(Runs(image)) /\ Len(todo) \in Nat \ {0}
      /\ \A m \in 2 .. Len(todo) : m - 1 \in 1 .. Len(Tail(todo)) /\ Tail(todo)[m - 1] = todo[m]
  <2>1. todo \in Seq(Runs(image)) /\ todo # <<>> /\ xml \in Seq(Runs(image))
    BY <1>1, <1>2 DEF RunsInv
  <2>2. l \in Nat
    BY <1>3, <2>1
  <2> QED
    BY <1>3, <2>1, <2>2, Ahead
<1>5. /\ Append(xml, r) \in Seq(Runs(image)) /\ Len(Append(xml, r)) = l + 1
      /\ Append(xml, r)[l + 1] = r
      /\ \A m \in 1 .. l : Append(xml, r)[m] = xml[m]
  <2>1. /\ Append(xml, r) \in Seq(Runs(image)) /\ Len(Append(xml, r)) = Len(xml) + 1
        /\ Append(xml, r)[Len(xml) + 1] = r
        /\ \A m \in 1 .. Len(xml) : Append(xml, r)[m] = xml[m]
    BY <1>4, AppendProperties
  <2> QED
    BY <1>3, <2>1
<1>6. failed' \in BOOLEAN /\ (failed' \/ (failed' = failed /\ xml' = Append(xml, r)))
      /\ xml' \in Seq(Runs(image))
  <2>1. CASE xml' = Append(xml, Head(todo)) /\ UNCHANGED failed
    BY <1>1, <1>3, <1>5, <2>1 DEF RunsInv
  <2>2. CASE failed' = TRUE /\ UNCHANGED xml
    BY <1>1, <2>2 DEF RunsInv
  <2> QED
    BY <1>2, <2>1, <2>2
<1>7. WalkInv'
  <2>1. (failed' = failed) \/ failed'
    BY <1>2
  <2> QED
    BY <1>1, <1>2, <2>1, StillWalks
<1>8. RunsInv'
  <2>1. ASSUME pc = "done", ~failed' PROVE FALSE
    <3>1. ~failed
      BY <1>6, <2>1
    <3> QED
      BY <1>1, <1>2, <2>1, <3>1 DEF RunsInv
  <2>2. failed' \/ status = "SUCCESS"
    BY <1>1, <1>6 DEF RunsInv
  <2>3. todo' \in Seq(Runs(image)) /\ split' /\ image' = image
    BY <1>2, <1>4
  <2>4. (pc' = "entry" => entry' \in Runs(image')) /\ pc' # "last"
    BY <1>1, <1>2 DEF RunsInv
  <2>5. pc' = "done" => failed'
    BY <1>2, <2>1
  <2> QED
    BY <1>2, <1>6, <2>2, <2>3, <2>4, <2>5 DEF RunsInv
<1>9. KeptInv'
  <2>1. CASE failed'
    BY <2>1 DEF KeptInv
  <2>2. CASE ~failed'
    <3>1. xml' = Append(xml, r) /\ failed \in BOOLEAN /\ ~failed /\ failed' \in BOOLEAN
      BY <1>1, <1>6, <2>2 DEF RunsInv
    <3>2. ASSUME NEW s \in 1 .. Len(image), NEW k \in 0 .. DiskSectors - 1, Kept(s, k)
          PROVE  Kept(s, k)'
      <4>1. CASE \E m \in 1 .. Len(todo) : Reaches(todo[m], s, k)
        <5>1. PICK m \in 1 .. Len(todo) : Reaches(todo[m], s, k)
          BY <4>1
        <5>2. CASE m = 1
          <6>1. Reaches(r, s, k)
            BY <1>4, <5>1, <5>2
          <6>2. l + 1 \in 1 .. Len(xml') /\ Reaches(xml'[l + 1], s, k)
            BY <1>4, <1>5, <3>1, <6>1
          <6> QED
            BY <1>2, <6>2 DEF Kept, Reaches, Resolved
        <5>3. CASE m # 1
          <6>1. m \in 2 .. Len(todo)
            BY <1>4, <5>3
          <6>2. m - 1 \in 1 .. Len(todo') /\ Reaches(todo'[m - 1], s, k)
            BY <1>2, <1>4, <5>1, <6>1
          <6> QED
            BY <1>2, <6>2, OnItsWay
        <5> QED
          BY <5>2, <5>3
      <4>2. CASE \E m \in 1 .. Len(xml) : Reaches(xml[m], s, k)
        <5>1. PICK m \in 1 .. Len(xml) : Reaches(xml[m], s, k)
          BY <4>2
        <5>2. m \in 1 .. l
          BY <1>3, <5>1
        <5>3. m \in 1 .. Len(xml') /\ Reaches(xml'[m], s, k)
          BY <1>4, <1>5, <3>1, <5>1, <5>2
        <5> QED
          BY <1>2, <5>3 DEF Kept, Reaches, Resolved
      <4>3. CASE /\ ~(\E m \in 1 .. Len(todo) : Reaches(todo[m], s, k))
                 /\ ~(\E m \in 1 .. Len(xml) : Reaches(xml[m], s, k))
        <5>1. Pending(s, k) => Pending(s, k)'
          BY <1>2 DEF Pending, hi, run
        <5> QED
          BY <1>2, <3>2, <4>3, <5>1 DEF Kept, Reaches, Resolved
      <4> QED
        BY <4>1, <4>2, <4>3
    <3>3. ASSUME NEW s, NEW p, Visited(s, p)' PROVE Visited(s, p)
      BY <1>2, <3>3 DEF Visited
    <3> QED
      BY <1>1, <1>2, <3>1, <3>2, <3>3, KeptStep
  <2> QED
    BY <2>1, <2>2
<1> QED
  BY <1>1, <1>2, <1>7, <1>8, <1>9 DEF FfuInv, Placed, Addr, Where

(* The next entry of the file; where it starts is evaluated.               *)
LEMMA NextEntryFfu ==
  ASSUME FfuInv, tool = "ffu", tool' = tool, NextEntry
  PROVE  FfuInv'
<1>1. WalkInv /\ RunsInv /\ Placed(image, disk) /\ KeptInv /\ ImageOK(image)
  BY DEF FfuInv, WalkInv
<1>2. /\ UNCHANGED <<target, split, image, store, i, j, run, todo, disk, status, failed>>
      /\ split /\ pc = "next" /\ todo = <<>> /\ xml # <<>>
      /\ xml' = Tail(xml) /\ pc' = "entry"
      /\ entry' = [Head(xml) EXCEPT !.at = ParseXMLEvaluate(@)]
  BY DEF NextEntry
<1>3. PICK r, q : r = Head(xml) /\ q = [r EXCEPT !.at = ParseXMLEvaluate(@)]
  OBVIOUS
<1>4. /\ xml \in Seq(Runs(image)) /\ r \in Runs(image) /\ r = xml[1]
      /\ Tail(xml) \in Seq(Runs(image)) /\ Len(xml) \in Nat \ {0}
      /\ \A m \in 2 .. Len(xml) : m - 1 \in 1 .. Len(Tail(xml)) /\ Tail(xml)[m - 1] = xml[m]
  <2>1. xml \in Seq(Runs(image)) /\ xml # <<>>
    BY <1>1, <1>2 DEF RunsInv
  <2> QED
    BY <1>3, <2>1, Ahead
<1>5. entry' = q
  BY <1>2, <1>3
<1>6. q \in Runs(image) /\ \A s, k \in Int : Reaches(r, s, k) => Reaches(q, s, k)
  BY <1>1, <1>3, <1>4, EntrySound
<1>7. WalkInv'
  BY <1>1, <1>2 DEF WalkInv, blocks
<1>8. RunsInv'
  <2>1. failed' \in BOOLEAN /\ (failed' \/ status' = "SUCCESS") /\ todo' \in Seq(Runs(image'))
    BY <1>1, <1>2 DEF RunsInv
  <2> QED
    BY <1>2, <1>4, <1>5, <1>6, <2>1 DEF RunsInv
<1>9. KeptInv'
  <2>1. failed' = failed /\ failed \in BOOLEAN
    BY <1>1, <1>2 DEF RunsInv
  <2>2. ASSUME NEW s \in 1 .. Len(image), NEW k \in 0 .. DiskSectors - 1, Kept(s, k)
        PROVE  Kept(s, k)'
    <3>1. CASE \E m \in 1 .. Len(xml) : Reaches(xml[m], s, k)
      <4>1. PICK m \in 1 .. Len(xml) : Reaches(xml[m], s, k)
        BY <3>1
      <4>2. CASE m = 1
        <5>1. s \in Int /\ k \in Int
          OBVIOUS
        <5>2. Reaches(q, s, k)
          BY <1>4, <1>6, <4>1, <4>2, <5>1
        <5>3. Reaches(entry', s, k)
          BY <1>5, <5>2
        <5> QED
          BY <1>2, <5>3 DEF Kept, Reaches, Resolved
      <4>3. CASE m # 1
        <5>1. m \in 2 .. Len(xml)
          BY <1>4, <4>3
        <5>2. m - 1 \in 1 .. Len(xml') /\ Reaches(xml'[m - 1], s, k)
          BY <1>2, <1>4, <4>1, <5>1
        <5> QED
          BY <1>2, <5>2 DEF Kept, Reaches, Resolved
      <4> QED
        BY <4>2, <4>3
    <3>2. CASE ~(\E m \in 1 .. Len(xml) : Reaches(xml[m], s, k))
      <4>1. ~Pending(s, k)
        BY <1>2 DEF Pending
      <4> QED
        BY <1>2, <2>2, <3>2, <4>1 DEF Kept
    <3> QED
      BY <3>1, <3>2
  <2>3. ASSUME NEW s, NEW p, Visited(s, p)' PROVE Visited(s, p)
    BY <1>2, <2>3 DEF Visited
  <2> QED
    BY <1>1, <1>2, <2>1, <2>2, <2>3, KeptStep
<1> QED
  BY <1>1, <1>2, <1>7, <1>8, <1>9 DEF FfuInv, Placed, Addr, Where

LEMMA ImageEndsFfu ==
  ASSUME FfuInv, tool = "ffu", tool' = tool, ImageEnds
  PROVE  FfuInv'
<1>1. WalkInv /\ RunsInv /\ Placed(image, disk) /\ KeptInv /\ ImageOK(image)
  BY DEF FfuInv, WalkInv
<1>2. /\ UNCHANGED <<target, split, image, store, i, j, run, todo, xml, entry, disk, status, failed>>
      /\ todo = <<>> /\ pc' = "done"
      /\ \/ pc = "next" /\ (status # "SUCCESS" \/ xml = <<>>)
         \/ pc = "last"
  BY DEF ImageEnds, ffuVars
<1>3. WalkInv'
  BY <1>1, <1>2 DEF WalkInv, blocks
<1>4. RunsInv'
  <2>1. failed' \in BOOLEAN /\ (failed' \/ status' = "SUCCESS") /\ todo' \in Seq(Runs(image'))
        /\ xml' \in Seq(Runs(image')) /\ (~split' => xml' = <<>>)
    BY <1>1, <1>2 DEF RunsInv
  <2>2. ASSUME ~failed' PROVE xml' = <<>>
    <3>1. ~failed
      BY <1>2, <2>2
    <3> QED
      BY <1>1, <1>2, <3>1 DEF RunsInv
  <2> QED
    BY <1>2, <2>1, <2>2 DEF RunsInv
<1>5. KeptInv'
  <2>1. failed' = failed /\ failed \in BOOLEAN
    BY <1>1, <1>2 DEF RunsInv
  <2>2. ASSUME NEW s \in 1 .. Len(image), NEW k \in 0 .. DiskSectors - 1, Kept(s, k)
        PROVE  Kept(s, k)'
    <3>1. ~Pending(s, k)
      BY <1>2 DEF Pending
    <3> QED
      BY <1>2, <2>2, <3>1 DEF Kept, Reaches, Resolved
  <2>3. ASSUME NEW s, NEW p, Visited(s, p)' PROVE Visited(s, p)
    BY <1>2, <2>3 DEF Visited
  <2> QED
    BY <1>1, <1>2, <2>1, <2>2, <2>3, KeptStep
<1> QED
  BY <1>1, <1>2, <1>3, <1>4, <1>5 DEF FfuInv, Placed, Addr, Where

(* An entry is programmed, all of it, or a part.                           *)
LEMMA ProgramFfu ==
  ASSUME FfuInv, tool = "ffu", tool' = tool, ProgramPartitionEntry, UNCHANGED ffuVars
  PROVE  FfuInv'
<1>1. WalkInv /\ RunsInv /\ Placed(image, disk) /\ KeptInv /\ ImageOK(image)
  BY DEF FfuInv, WalkInv
<1>2. UNCHANGED <<split, image, store, i, j, run, todo, xml>>
  BY DEF ffuVars
<1>3. pc = "entry"
  BY DEF ProgramPartitionEntry, EntryCopied, EntryFails, ChunkWritten, ChunkFill, ChunkFails, ChunksEnd,
         Plain, Sparse
<1>4. PICK r, n : r = entry /\ n = SectorsToWrite(r)
  OBVIOUS
<1>5. r \in Runs(image) /\ split
  BY <1>1, <1>3, <1>4 DEF RunsInv
<1>6. /\ r.file.kind = "raw" /\ r.num \in Nat \ {0} /\ n = r.num
      /\ r.from + n <= r.file.sectors
  <2>1. /\ r.num \in Nat \ {0} /\ r.file.kind = "raw" /\ r.file.sectors \in Nat
        /\ r.from \in Int /\ r.from >= First /\ r.from + r.num <= r.file.sectors
    BY <1>1, <1>5, RunTyped
  <2>2. r.num <= r.file.sectors /\ r.num # 0
    BY <2>1, Sizes
  <2>3. n = r.num
    BY <1>4, <2>1, <2>2 DEF SectorsToWrite
  <2> QED
    BY <2>1, <2>3
<1>7. /\ pc' = "next" /\ UNCHANGED <<target, entry>>
      /\ \/ /\ disk' = Written(disk, r, r.lun, n) /\ Where(r.lun) \in 0 .. Luns
            /\ status' = "SUCCESS" /\ failed' = failed
         \/ /\ failed' = TRUE
            /\ \/ disk' = disk
               \/ /\ Where(r.lun) \in 0 .. Luns
                  /\ disk' = Written(disk, r, r.lun, n \div 2)
  <2>1. entry.file.kind = "raw"
    BY <1>4, <1>6
  <2>2. EntryCopied \/ EntryFails
    BY <2>1 DEF ProgramPartitionEntry, ChunkWritten, ChunkFill, ChunkFails, ChunksEnd, Sparse
  <2>3. CASE EntryCopied
    BY <1>4, <2>3 DEF EntryCopied, Accepted
  <2>4. CASE EntryFails
    <3>1. InFile(entry) /\ ~(SectorsToWrite(entry) < 0)
      BY <1>4, <1>6 DEF InFile
    <3>2. Reached = IF Where(r.lun) \notin 0 .. Luns THEN {0} ELSE {0, n \div 2}
      BY <1>4, <3>1 DEF Reached
    <3>3. PICK k \in Reached :
            disk' = IF entry.file.kind = "missing" \/ k = 0 THEN disk
                    ELSE Written(disk, entry, entry.lun, k)
      BY <2>4 DEF EntryFails
    <3>4. pc' = "next" /\ UNCHANGED <<target, entry>> /\ failed' = TRUE
      BY <2>4 DEF EntryFails
    <3>5. disk' = disk \/ (Where(r.lun) \in 0 .. Luns /\ disk' = Written(disk, r, r.lun, n \div 2))
      BY <1>4, <2>1, <3>2, <3>3, Zenon
    <3> QED
      BY <3>4, <3>5
  <2> QED
    BY <2>2, <2>3, <2>4
<1>8. \/ failed' = TRUE /\ disk' = disk
      \/ /\ Where(r.lun) \in 0 .. Luns
         /\ \E k \in 0 .. r.num : /\ disk' = Written(disk, r, r.lun, k)
                                 /\ \/ failed' = TRUE
                                    \/ k = r.num /\ status' = "SUCCESS" /\ failed' = failed
  <2>1. n \in 0 .. r.num /\ n \div 2 \in 0 .. r.num
    BY <1>6
  <2> QED
    BY <1>6, <1>7, <2>1
<1>20. failed' \in BOOLEAN /\ (failed' \/ (status' = "SUCCESS" /\ failed' = failed))
  BY <1>1, <1>8 DEF RunsInv
<1>11. WalkInv'
  <2>1. ASSUME ~failed' PROVE ~failed
    BY <1>20, <2>1
  <2> QED
    BY <1>1, <1>2, <1>3, <1>7, <2>1 DEF WalkInv, blocks
<1>12. RunsInv'
  <2>2. todo' \in Seq(Runs(image')) /\ xml' \in Seq(Runs(image')) /\ split'
    BY <1>1, <1>2, <1>5 DEF RunsInv
  <2> QED
    BY <1>7, <1>20, <2>2 DEF RunsInv
<1>21. CASE failed' = TRUE /\ disk' = disk
  <2>1. Placed(image, disk)'
    BY <1>1, <1>2, <1>7, <1>21 DEF Placed, Addr, Where
  <2>2. KeptInv'
    BY <1>21 DEF KeptInv
  <2> QED
    BY <1>11, <1>12, <2>1, <2>2 DEF FfuInv
<1>22. ASSUME NEW k \in 0 .. r.num, disk' = Written(disk, r, r.lun, k), Where(r.lun) \in 0 .. Luns,
             failed' = TRUE \/ (k = r.num /\ status' = "SUCCESS" /\ failed' = failed)
      PROVE  FfuInv'
  <2>9. PICK w : w = Written(disk, r, r.lun, k)
    OBVIOUS
  <2>10. /\ Placed(image, w)
         /\ Addr(image) => \A s \in 1 .. Len(image), m \in 0 .. DiskSectors - 1 :
              /\ disk[s - 1][m] # Blank => w[s - 1][m] # Blank
              /\ Reaches(r, s, m) /\ m < Resolved(r.at) + k => w[s - 1][m] # Blank
    BY <1>1, <1>5, <1>22, <2>9, RunWritten
  <2>13. Placed(image, disk)'
    <3>1. Placed(image, disk')
      BY <1>22, <2>9, <2>10
    <3> QED
      BY <1>2, <1>7, <3>1 DEF Placed, Shaped, Addr, Where
  <2>14. KeptInv'
    <3>1. CASE failed'
      BY <3>1 DEF KeptInv
    <3>2. CASE ~failed'
      <4>1. disk' = w /\ k = r.num /\ failed' = failed /\ failed \in BOOLEAN
        BY <1>1, <1>22, <2>9, <3>2 DEF RunsInv
      <4>2. ASSUME NEW s \in 1 .. Len(image), NEW m \in 0 .. DiskSectors - 1, Addr(image),
                   Kept(s, m)
            PROVE  Kept(s, m)'
        <5>1. CASE disk[s - 1][m] # Blank \/ Reaches(entry, s, m)
          <6>1. Reaches(r, s, m) => m < Resolved(r.at) + k
            BY <4>1 DEF Reaches
          <6>2. disk'[s - 1][m] # Blank
            BY <1>4, <2>10, <4>1, <4>2, <5>1, <6>1
          <6> QED
            BY <6>2 DEF Kept
        <5>2. CASE ~(disk[s - 1][m] # Blank \/ Reaches(entry, s, m))
          <6>1. ~Pending(s, m)
            BY <1>3 DEF Pending
          <6> QED
            BY <1>2, <4>2, <5>2, <6>1 DEF Kept, Reaches, Resolved
        <5> QED
          BY <5>1, <5>2
      <4>3. ASSUME NEW s, NEW p, Visited(s, p)' PROVE Visited(s, p)
        BY <1>2, <1>3, <4>3 DEF Visited
      <4> QED
        BY <1>1, <1>2, <1>7, <4>1, <4>2, <4>3, KeptStep
    <3> QED
      BY <3>1, <3>2
  <2> QED
    BY <1>11, <1>12, <2>13, <2>14 DEF FfuInv
<1> QED
  BY <1>8, <1>21, <1>22

LEMMA NextFfu == FfuInv /\ [Next]_vars => FfuInv'
<1> SUFFICES ASSUME FfuInv, [Next]_vars PROVE FfuInv'
  OBVIOUS
<1>1. tool' = tool
  BY DEF Next, vars
<1>2. CASE tool # "ffu"
  BY <1>1, <1>2 DEF FfuInv
<1>3. CASE tool = "ffu" /\ FfuNext
  <2>1. CASE ReadGPT \/ ReadGPTFails
    BY <1>1, <1>3, <2>1, ReadFfu
  <2>2. CASE LocationBegin
    BY <1>1, <1>3, <2>2, BeginFfu
  <2>3. CASE LocationEnd
    BY <1>1, <1>3, <2>3, EndFfu
  <2>4. CASE NextDescriptor
    BY <1>1, <1>3, <2>4, NextDescriptorFfu
  <2>5. CASE StoreEnds
    BY <1>1, <1>3, <2>5, StoreEndsFfu
  <2>6. CASE WriteDataEntry
    BY <1>1, <1>3, <2>6, WriteFfu
  <2>7. CASE WriteDataEntryFails
    BY <1>1, <1>3, <2>7, WriteFailsFfu
  <2>8. CASE AddEntryToRawProgram
    BY <1>1, <1>3, <2>8, AddFfu
  <2>9. CASE NextEntry
    BY <1>1, <1>3, <2>9, NextEntryFfu
  <2>10. CASE ImageEnds
    BY <1>1, <1>3, <2>10, ImageEndsFfu
  <2>11. CASE ProgramPartitionEntry /\ UNCHANGED ffuVars
    BY <1>1, <1>3, <2>11, ProgramFfu
  <2> QED
    BY <1>3, <2>1, <2>2, <2>3, <2>4, <2>5, <2>6, <2>7, <2>8, <2>9, <2>10, <2>11 DEF FfuNext
<1>4. CASE UNCHANGED vars
  <2>1. UNCHANGED <<target, pc, entry, disk, status, failed, tool>> /\ UNCHANGED ffuVars
    BY <1>4 DEF vars, entryVars
  <2>2. UNCHANGED <<split, image, store, i, j, run, todo, xml>>
    BY <2>1 DEF ffuVars
  <2> QED
    BY <2>1, <2>2 DEF FfuInv, WalkInv, RunsInv, KeptInv, Kept, Visited, Pending, Reaches, Resolved, hi, run, blocks, Placed, Addr, Where
<1> QED
  BY <1>2, <1>3, <1>4 DEF Next

ImageInv == (tool # "ffu" => image = <<>> /\ todo = <<>> /\ xml = <<>>) /\ FfuInv

LEMMA AllPlaced == ImageInv => BlocksPlaced
<1> SUFFICES ASSUME ImageInv, pc = "done", image # <<>>, Addressed, ~failed
             PROVE  /\ status = "SUCCESS"
                    /\ \A s \in 1 .. Len(image) :
                         /\ \A p \in Places(s), k \in 0 .. BlockSectors - 1 : Owed(s, p) =>
                              disk[s - 1][Resolved(Place(s, p) * BlockSectors) + k]
                                = PayloadDataStart[s] + (p[1] - 1) * BlockSectors + k
                         /\ \A n \in 0 .. DiskSectors - 1 : disk[s - 1][n] # Blank =>
                              \E p \in Places(s), k \in 0 .. BlockSectors - 1 :
                                n = Resolved(Place(s, p) * BlockSectors) + k
  BY DEF BlocksPlaced
<1>1. WalkInv /\ RunsInv /\ Placed(image, disk) /\ KeptInv /\ ImageOK(image)
  BY DEF ImageInv, FfuInv, WalkInv
<1>8. Addr(image)
  BY DEF Addr, Addressed
<1>2. status = "SUCCESS" /\ todo = <<>> /\ xml = <<>>
  BY <1>1 DEF RunsInv
<1>3. store = Len(image) /\ i > Len(image[store].blocks)
  BY <1>1 DEF WalkInv, blocks
<1>4. ASSUME NEW s \in 1 .. Len(image)
      PROVE  /\ Places(s) = Locations(image, s) /\ s - 1 \in 0 .. Luns /\ s - 1 + 1 = s
             /\ \A p \in Places(s) :
                  /\ Place(s, p) = PlaceOf(image, s, p)
                  /\ Place(s, p) * BlockSectors = BlockSectors * PlaceOf(image, s, p)
  <2>1. Len(image) \in 1 .. Luns + 1 /\ Luns \in Nat
    BY <1>1, Sizes DEF ImageOK
  <2>2. Places(s) = Locations(image, s)
    BY DEF Places, Locations
  <2>3. ASSUME NEW p \in Places(s)
        PROVE  /\ Place(s, p) = PlaceOf(image, s, p)
               /\ Place(s, p) * BlockSectors = BlockSectors * PlaceOf(image, s, p)
    <3>1. Place(s, p) = PlaceOf(image, s, p)
      BY DEF Place, PlaceOf
    <3>2. PlaceOf(image, s, p) \in Int
      <4>1. PlaceOf(image, s, p) \in Blocks \/ PlaceOf(image, s, p) = End
        BY <1>1, <2>2, LocationAt
      <4> QED
        BY <4>1, Sizes DEF End
    <3> QED
      BY <3>1, <3>2, Sizes
  <2> QED
    BY <2>1, <2>2, <2>3
<1>5. ASSUME NEW s \in 1 .. Len(image), NEW p \in Locations(image, s), NEW k \in 0 .. BlockSectors - 1
      PROVE  /\ Resolved(BlockSectors * PlaceOf(image, s, p)) + k \in 0 .. DiskSectors - 1
             /\ disk[s - 1][Resolved(BlockSectors * PlaceOf(image, s, p)) + k] # Blank
  <2>1. PICK n : n = Resolved(BlockSectors * PlaceOf(image, s, p)) + k
    OBVIOUS
  <2>2. n \in 0 .. DiskSectors - 1
    <3>1. CASE PlaceOf(image, s, p) # End
      BY <1>1, <2>1, <3>1, LocationAt, Sizes
    <3>2. CASE PlaceOf(image, s, p) = End
      BY <1>1, <2>1, <3>2, LocationAt, Sizes
    <3> QED
      BY <3>1, <3>2
  <2>3. Visited(s, p)
    <3>1. p[1] \in 1 .. Len(image[s].blocks) /\ Len(image) \in Nat
      <4>1. p[1] \in 1 .. Len(image[s].blocks)
        BY <1>1, LocationKind
      <4>2. Len(image) \in Nat
        BY <1>1, Sizes DEF ImageOK
      <4> QED
        BY <4>1, <4>2
    <3>2. CASE s = store
      <4>1. p[1] < i
        <5>1. PICK l, c : l = Len(image[s].blocks) /\ c = p[1]
          OBVIOUS
        <5>2. l \in Nat /\ c \in 1 .. l
          BY <1>1, <3>1, <5>1, Sizes DEF ImageOK
        <5>3. i > l /\ i \in Int
          <6>1. i > l
            BY <1>3, <3>2, <5>1
          <6>2. i \in Int
            BY <1>1 DEF WalkInv
          <6> QED
            BY <6>1, <6>2
        <5> QED
          BY <5>1, <5>2, <5>3
      <4> QED
        BY <3>2, <4>1 DEF Visited
    <3>3. CASE s # store
      BY <1>3, <3>1, <3>3 DEF Visited
    <3> QED
      BY <3>2, <3>3
  <2>4. Kept(s, n)
    BY <1>1, <1>8, <2>1, <2>3 DEF KeptInv
  <2>5. disk[s - 1][n] # Blank
    BY <1>2, <2>4 DEF Kept, Pending
  <2> QED
    BY <2>1, <2>2, <2>5
<1>6. ASSUME NEW s \in 1 .. Len(image), NEW p \in Places(s), NEW k \in 0 .. BlockSectors - 1, Owed(s, p)
      PROVE  disk[s - 1][Resolved(Place(s, p) * BlockSectors) + k]
               = PayloadDataStart[s] + (p[1] - 1) * BlockSectors + k
  <2>1. p \in Locations(image, s) /\ Place(s, p) * BlockSectors = BlockSectors * PlaceOf(image, s, p)
        /\ s - 1 \in 0 .. Luns /\ s - 1 + 1 = s
    BY <1>4
  <2>2. PICK n, v : n = Resolved(BlockSectors * PlaceOf(image, s, p)) + k /\ v = disk[s - 1][n]
    OBVIOUS
  <2>3. n \in 0 .. DiskSectors - 1 /\ v # Blank
    BY <1>5, <2>1, <2>2
  <2>4. Claim(image, s, n, v)
    BY <1>1, <1>8, <2>1, <2>2, <2>3 DEF Placed
  <2>5. PlaceOf(image, s, p) # End \/ (p[2] = 2 /\ Ends(image, s) = {p})
    <3>1. CASE Place(s, p) # End
      BY <1>4, <3>1
    <3>2. CASE Place(s, p) = End
      <4>1. p[2] = 2 /\ \A q \in Places(s) : Place(s, q) = End => q = p
        BY <1>6, <3>2 DEF Owed
      <4>2. \A q \in Locations(image, s) : PlaceOf(image, s, q) = End => q = p
        BY <1>4, <4>1
      <4>3. PlaceOf(image, s, p) = End
        BY <1>4, <3>2
      <4>4. Ends(image, s) = {p}
        BY <2>1, <4>2, <4>3 DEF Ends
      <4> QED
        BY <4>1, <4>4
    <3> QED
      BY <3>1, <3>2
  <2>6. v = From(s, p[1]) + k
    BY <1>1, <2>1, <2>2, <2>4, <2>5, ClaimOwed
  <2>7. PayloadDataStart[s] + (p[1] - 1) * BlockSectors = From(s, p[1])
    <3>1. PICK a, b : a = p[1] /\ b = s - 1
      OBVIOUS
    <3>2. a \in Nat /\ b \in Nat
      <4>1. a \in 1 .. Len(image[s].blocks)
        BY <1>1, <2>1, <3>1, LocationKind
      <4> QED
        BY <2>1, <3>1, <4>1
    <3>3. PayloadDataStart[s] = First + BlockSectors * b
      BY <1>1, <3>1, PayloadAt
    <3>4. From(s, p[1]) = First + BlockSectors * b + BlockSectors * (a - 1)
      BY <3>1 DEF From
    <3>5. (a - 1) * BlockSectors = BlockSectors * (a - 1)
      BY <3>2, Sizes
    <3> QED
      BY <3>1, <3>3, <3>4, <3>5
  <2> QED
    BY <2>1, <2>2, <2>6, <2>7
<1>7. ASSUME NEW s \in 1 .. Len(image), NEW n \in 0 .. DiskSectors - 1, disk[s - 1][n] # Blank
      PROVE  \E p \in Places(s), k \in 0 .. BlockSectors - 1 :
               n = Resolved(Place(s, p) * BlockSectors) + k
  <2>1. s - 1 \in 0 .. Luns /\ s - 1 + 1 = s /\ Places(s) = Locations(image, s)
    BY <1>4
  <2>2. PICK v : v = disk[s - 1][n]
    OBVIOUS
  <2>3. Claim(image, s, n, v)
    BY <1>1, <1>7, <1>8, <2>1, <2>2 DEF Placed
  <2>4. PICK p \in Locations(image, s), k \in 0 .. BlockSectors - 1 :
          n = Resolved(BlockSectors * PlaceOf(image, s, p)) + k
    BY <1>1, <2>3, ClaimPlaced
  <2>5. p \in Places(s) /\ Place(s, p) * BlockSectors = BlockSectors * PlaceOf(image, s, p)
    BY <1>4, <2>1
  <2>6. n = Resolved(Place(s, p) * BlockSectors) + k
    BY <2>4, <2>5
  <2> QED
    BY <2>5, <2>6
<1> QED
  BY <1>2, <1>6, <1>7

LEMMA InitImage == Init => ImageInv
<1> SUFFICES ASSUME Init PROVE ImageInv
  OBVIOUS
<1>1. FfuInv
  BY InitFfu
<1>2. tool # "ffu" => image = <<>> /\ todo = <<>> /\ xml = <<>>
  BY DEF Init, Fresh
<1> QED
  BY <1>1, <1>2 DEF ImageInv

LEMMA NextImage == ImageInv /\ [Next]_vars => ImageInv'
<1> SUFFICES ASSUME ImageInv, [Next]_vars PROVE ImageInv'
  OBVIOUS
<1>1. FfuInv'
  BY NextFfu DEF ImageInv
<1>2. tool # "ffu" => UNCHANGED <<image, todo, xml, tool>>
  BY DEF Next, vars, ffuVars
<1>3. tool' = tool
  BY DEF Next, vars
<1> QED
  BY <1>1, <1>2, <1>3 DEF ImageInv

(* An image of whose reads and writes none fails, and whose stores all     *)
(* have their disk, is on the disks: every block of every store that has a *)
(* place other than the end is at each of its places with the sectors of   *)
(* its descriptor, and nothing is anywhere else (DumpRawProgram,           *)
(* WriteDataEntry and, split, ProgramImage).  Of the images that StoresOf  *)
(* has, with one block for each place and only in the first descriptor two *)
(* of them: of any number of stores and descriptors, any table and any     *)
(* size of block and piece.                                                *)
THEOREM ImageWhole == Spec => []BlocksPlaced
<1>1. Init => ImageInv
  BY InitImage
<1>2. ImageInv /\ [Next]_vars => ImageInv'
  BY NextImage
<1>3. ImageInv => BlocksPlaced
  BY AllPlaced
<1> QED
  BY <1>1, <1>2, <1>3, PTL DEF Spec

-----------------------------------------------------------------------------
(* The types of an entry and of what is on the disks.                      *)
FileType ==
  [kind : {"raw", "sparse", "missing", "ZERO"}, sectors : Nat,
   chunks : Seq([type : {"raw", "fill", "dontcare", "unknown"}, size : Nat])]
EntryType == [file : FileType, from : Int, at : Int, num : Int, lun : 0 .. Unknown]

Numbers(d) ==
  Shaped(d) /\ \A n \in 0 .. Luns, k \in 0 .. DiskSectors - 1 : d[n][k] \in Int

TypedInv ==
  /\ entry \in EntryType /\ Numbers(disk)
  /\ pc \in {"gpt", "blocks", "last", "find", "dump", "open", "between", "entry", "next", "done"}
  /\ status \in {"SUCCESS", "FAULT", "INVALID_DATA", "FILE_NOT_FOUND"}
  /\ tool = "table" =>
       /\ lun \in 0 .. Luns + 1
       /\ given.at \in Int /\ given.num \in Int /\ file \in FileType

LEMMA FileTyped ==
  ASSUME NEW kind \in {"raw", "sparse", "missing", "ZERO"}, NEW n \in Nat
  PROVE  File(kind, n, <<>>) \in FileType
BY DEF File, FileType

LEMMA RunIsEntry ==
  ASSUME NEW im, ImageOK(im), NEW r \in Runs(im)
  PROVE  r \in EntryType
<1>1. r \in [file : {FileOf(im)}, from : Int, at : Int, num : Int, lun : Int]
  BY DEF Runs
<1>2. r.lun \in 0 .. Unknown /\ r.file = FileOf(im) /\ r.file.sectors \in Nat
  BY RunTyped
<1>3. PICK n : n = First + BlockSectors * (Len(im) - 1) + BlockSectors * Len(im[Len(im)].blocks)
  OBVIOUS
<1>4. FileOf(im) = File("raw", n, <<>>) /\ n \in Nat
  BY <1>2, <1>3 DEF FileOf, File
<1>5. FileOf(im) \in FileType
  BY <1>4, FileTyped
<1>6. r = [file |-> r.file, from |-> r.from, at |-> r.at, num |-> r.num, lun |-> r.lun]
  BY <1>1
<1> QED
  BY <1>1, <1>2, <1>5, <1>6 DEF EntryType

(* What is written are numbers.                                            *)
LEMMA WrittenNumbers ==
  ASSUME NEW d, Numbers(d), NEW e \in EntryType, NEW l, Where(l) \in 0 .. Luns, NEW num \in Int
  PROVE  Numbers(Written(d, e, l, num))
<1>1. PICK w, a, f : w = Written(d, e, l, num) /\ a = Resolved(e.at) /\ f = e.from
  OBVIOUS
<1>2. e.at \in Int /\ f \in Int /\ e.file.sectors \in Nat /\ DiskSectors \in Nat
  BY <1>1, Sizes DEF EntryType, FileType
<1>3. a \in Int
  BY <1>1, <1>2 DEF Resolved
<1>4. Shaped(d) /\ Shaped(w)
  BY <1>1, WrittenShaped DEF Numbers
<1>5. ASSUME NEW n \in 0 .. Luns, NEW k \in 0 .. DiskSectors - 1 PROVE w[n][k] \in Int
  <2>1. /\ n = Where(l) /\ a <= k /\ k < a + num => w[n][k] = Data(e, f + (k - a))
        /\ ~(n = Where(l) /\ a <= k /\ k < a + num) => w[n][k] = d[n][k]
    <3>1. w = Written(d, e, l, num) /\ e.from = f /\ Resolved(e.at) = a
      BY <1>1
    <3>2. f \in Int
      BY <1>2
    <3> QED
      BY <1>3, <1>4, <3>1, <3>2, WrittenSector
  <2>2. f + (k - a) \in Int
    BY <1>2, <1>3
  <2>3. Data(e, f + (k - a)) \in Int
    BY <2>2 DEF Data, Zero, Junk
  <2> QED
    BY <2>1, <2>3 DEF Numbers
<1> QED
  BY <1>1, <1>4, <1>5 DEF Numbers

LEMMA WritesNumber ==
  ASSUME NEW e, e.num \in Int, e.file.sectors \in Nat
  PROVE  SectorsToWrite(e) \in Int
<1>1. e.num > 0 => WholeBuffers(e.num) \in Nat
  BY Rounded
<1> QED
  BY <1>1 DEF SectorsToWrite

LEMMA ProgramTyped ==
  ASSUME entry \in EntryType, Numbers(disk),
         status \in {"SUCCESS", "FAULT", "INVALID_DATA", "FILE_NOT_FOUND"}, ProgramPartitionEntry
  PROVE  /\ entry' \in EntryType /\ Numbers(disk') /\ pc' \in {"entry", "next"}
         /\ status' \in {"SUCCESS", "FAULT", "INVALID_DATA", "FILE_NOT_FOUND"}
<1> DEFINE CT == [type : {"raw", "fill", "dontcare", "unknown"}, size : Nat]
           ST == {"SUCCESS", "FAULT", "INVALID_DATA", "FILE_NOT_FOUND"}
<1>1. PICK e, f, cs : e = entry /\ f = e.file /\ cs = f.chunks
  OBVIOUS
<1>2. /\ e \in EntryType /\ f \in FileType /\ cs \in Seq(CT) /\ f.sectors \in Nat
      /\ e.num \in Int /\ e.from \in Int /\ e.at \in Int /\ e.lun \in 0 .. Unknown
      /\ f.kind \in {"raw", "sparse", "missing", "ZERO"}
  BY <1>1 DEF EntryType, FileType
<1>3. SectorsToWrite(e) \in Int
  BY <1>1, <1>2, WritesNumber
<1>4. CASE EntryCopied
  <2>1. disk' = Written(disk, e, e.lun, SectorsToWrite(e)) /\ entry' = e /\ pc' = "next"
        /\ status' = "SUCCESS" /\ Where(e.lun) \in 0 .. Luns
    BY <1>1, <1>4 DEF EntryCopied, Accepted
  <2> QED
    BY <1>2, <1>3, <2>1, WrittenNumbers
<1>5. CASE EntryFails
  <2>1. PICK n \in Reached :
          disk' = IF e.file.kind = "missing" \/ n = 0 THEN disk ELSE Written(disk, e, e.lun, n)
    BY <1>1, <1>5 DEF EntryFails
  <2>2. n \in Int /\ (n # 0 => Where(e.lun) \in 0 .. Luns)
    BY <1>1, <1>2, <1>3, <2>1, Sizes DEF Reached
  <2>3. Numbers(disk')
    BY <1>2, <2>1, <2>2, WrittenNumbers
  <2> QED
    BY <1>1, <1>2, <1>5, <2>3 DEF EntryFails
<1>6. ASSUME Sparse, e.file.chunks # <<>>
      PROVE  Behind(e) \in EntryType /\ Size \in Int
  <2> HIDE DEF CT
  <2>1. chunk = Head(cs) /\ cs # <<>>
    BY <1>1, <1>6 DEF chunk
  <2>2. Head(cs) \in CT /\ Tail(cs) \in Seq(CT)
    BY <1>2, <2>1, Ahead
  <2>3. PICK n, m : n = chunk.size /\ m = Size
    OBVIOUS
  <2>4. n \in Nat
    BY <2>1, <2>2, <2>3 DEF CT
  <2>5. m \in Int
    <3>1. m = n % Word /\ Word \in Nat \ {0}
      BY <2>3, DiskAssumption DEF Size, DiskAssumption
    <3> QED
      BY <2>4, <3>1
  <2>6. Unread(Tail(cs)) \in Seq(CT)
    <3>1. <<[type |-> "unknown", size |-> 0]>> \in Seq(CT)
      BY DEF CT
    <3> QED
      BY <2>2, <3>1 DEF Unread
  <2>7. PICK t : t = (IF chunk.type = "fill" \/ (chunk.type = "raw" /\ chunk.size # Size)
                      THEN Unread(Tail(cs)) ELSE Tail(cs))
    OBVIOUS
  <2>8. t \in Seq(CT)
    BY <2>2, <2>6, <2>7
  <2>9. Behind(e) = [file |-> [kind |-> f.kind, sectors |-> f.sectors, chunks |-> t],
                     from |-> e.from + n, at |-> e.at + m, num |-> e.num, lun |-> e.lun]
    BY <1>1, <2>3, <2>7 DEF Behind, File
  <2>10. [kind |-> f.kind, sectors |-> f.sectors, chunks |-> t] \in FileType
    BY <1>2, <2>8 DEF FileType, CT
  <2>11. e.from + n \in Int /\ e.at + m \in Int
    BY <1>2, <2>4, <2>5
  <2>12. Behind(e) \in EntryType
    BY <1>2, <2>9, <2>10, <2>11 DEF EntryType
  <2> QED
    BY <2>3, <2>5, <2>12
<1>7. CASE ChunkWritten
  <2>1. Sparse /\ e.file.chunks # <<>> /\ entry' = Behind(e) /\ pc' = pc /\ status' = status
        /\ pc = "entry"
    BY <1>1, <1>7 DEF ChunkWritten, Sparse
  <2>2. PICK c : c = IF chunk.type = "raw" THEN entry ELSE [entry EXCEPT !.file.kind = "ZERO"]
    OBVIOUS
  <2>3. disk' = Written(disk, c, 0, Size) \/ disk' = disk
    BY <1>7, <2>2 DEF ChunkWritten
  <2>4. c \in EntryType
    <3>1. f = [kind |-> f.kind, sectors |-> f.sectors, chunks |-> f.chunks]
      BY <1>2 DEF FileType
    <3>2. [f EXCEPT !.kind = "ZERO"] \in FileType
      BY <1>2, <3>1 DEF FileType
    <3>3. PICK g : g = [f EXCEPT !.kind = "ZERO"]
      OBVIOUS
    <3>4. [entry EXCEPT !.file.kind = "ZERO"] = [e EXCEPT !.file = g]
      BY <1>1, <3>3
    <3>5. [e EXCEPT !.file = g] \in EntryType
      BY <1>2, <3>2, <3>3 DEF EntryType
    <3> QED
      BY <1>1, <1>2, <2>2, <3>4, <3>5
  <2>5. Where(0) \in 0 .. Luns
    BY Sizes, Somedisk
  <2>6. Size \in Int /\ Behind(e) \in EntryType
    BY <1>6, <2>1
  <2>7. Numbers(disk')
    BY <2>3, <2>4, <2>5, <2>6, WrittenNumbers
  <2> QED
    BY <2>1, <2>6, <2>7
<1>8. CASE ChunkFill
  <2>1. /\ Sparse /\ e.file.chunks # <<>> /\ disk' = disk /\ pc' = pc /\ status' = status /\ pc = "entry"
        /\ entry' = Behind(e)
    BY <1>1, <1>8 DEF ChunkFill, Sparse
  <2> QED
    BY <1>6, <2>1
<1>9. CASE ChunkFails
  BY <1>9 DEF ChunkFails
<1>10. CASE ChunksEnd
  BY <1>10 DEF ChunksEnd
<1> QED
  BY <1>4, <1>5, <1>7, <1>8, <1>9, <1>10 DEF ProgramPartitionEntry

(* What expressions come to, evaluated and meant.                          *)
LEMMA Evaluated ==
  /\ \A sectors : Value(Somewhere, sectors) = 1
  /\ \A sectors : Value(Product, sectors) = 4
  /\ \A sectors \in Int : Value(FromEnd, sectors) = sectors - 2
<1> DEFINE opsOf(x) == {w.op : w \in Range(x.ops)}
           last(x) == CHOOSE op \in opsOf(x) : \A other \in opsOf(x) : Order(other) <= Order(op)
           first(x) == CHOOSE m \in DOMAIN x.ops :
                 x.ops[m].op = last(x) /\ \A l \in 1 .. m - 1 : x.ops[l].op # last(x)
<1>1. ASSUME NEW sectors PROVE Value(Somewhere, sectors) = 1
  <2>1. opsOf(Somewhere) = {}
    BY DEF Somewhere, Expression, Range
  <2> QED
    BY <2>1 DEF Value, Somewhere, Expression, NumDiskSectors
<1>2. ASSUME NEW a, NEW op \in {"*", "-"}, NEW x, x = Expression(a, <<With(op, 2)>>), NEW sectors
      PROVE  Value(x, sectors) = Apply(op, IF a = NumDiskSectors THEN sectors ELSE a, 2)
  <2>1. x.first = a /\ x.ops = <<[op |-> op, by |-> 2]>>
    BY <1>2 DEF Expression, With
  <2>2. opsOf(x) = {op}
    BY <2>1 DEF Range
  <2>3. Order(op) \in Int
    BY DEF Order
  <2>4. last(x) = op
    <3> HIDE DEF opsOf
    <3>1. Order(op) <= Order(op)
      BY <2>3
    <3> QED
      BY <2>2, <3>1
  <2>5. DOMAIN x.ops = {1} /\ x.ops[1].op = op /\ x.ops[1].by = 2
    BY <2>1
  <2>6. first(x) = 1
    <3> HIDE DEF last
    <3> QED
      BY <2>4, <2>5
  <2>7. opsOf(x) # {}
    BY <2>2
  <2>8. Value(x, sectors) = Apply(last(x), IF x.first = NumDiskSectors THEN sectors ELSE x.first,
                                  x.ops[first(x)].by)
    BY <2>7 DEF Value
  <2> HIDE DEF last, first, opsOf
  <2> QED
    BY <2>1, <2>4, <2>5, <2>6, <2>8
<1>3. \A sectors : Value(Product, sectors) = 4
  BY <1>2 DEF Apply, Product, NumDiskSectors
<1>4. \A sectors \in Int : Value(FromEnd, sectors) = sectors - 2
  BY <1>2 DEF Apply, FromEnd, NumDiskSectors
<1> QED
  BY <1>1, <1>3, <1>4

(* What the commands of a file have.                                       *)
StartExpressions == {Somewhere, FromEnd, Product}

ProgramType(c) ==
  /\ c.kind = "program" /\ c.file \in FileType
  /\ c.from \in {Absent, 0, 1} /\ c.at \in StartExpressions
  /\ c.num \in {Absent, 0, 1, 2} /\ c.lun \in 0 .. Luns

LEMMA ProgramsTyped ==
  ASSUME NEW c \in Programs
  PROVE  ProgramType(c)
<1>0. 0 \in 0 .. Luns /\ Luns \in 0 .. Luns
  BY Sizes
<1>1. /\ File("raw", 3, <<>>) \in FileType /\ File("ZERO", 0, <<>>) \in FileType /\ NoFile \in FileType
  <2>1. 3 \in Nat /\ 0 \in Nat
    OBVIOUS
  <2> QED
    BY <2>1, FileTyped DEF NoFile
<1>2. SparseFile \in FileType
  <2>1. PICK T : T = [type : {"raw", "fill", "dontcare", "unknown"}, size : Nat]
    OBVIOUS
  <2>2. PICK x : x = [type |-> "raw", size |-> 1]
    OBVIOUS
  <2>3. x \in T
    BY <2>1, <2>2
  <2>4. <<x, x>> \in Seq(T)
    BY <2>3
  <2>5. SparseFile = [kind |-> "sparse", sectors |-> 2, chunks |-> <<x, x>>]
    BY <2>2 DEF SparseFile, File
  <2> QED
    BY <2>1, <2>4, <2>5 DEF FileType
<1>3. \E f, from, place, num, l :
        /\ c = Command("program", f, from, place, num, l)
        /\ f \in {File("raw", 3, <<>>), File("ZERO", 0, <<>>), NoFile, SparseFile}
        /\ from \in {Absent, 0, 1} /\ place \in StartExpressions /\ num \in {Absent, 0, 1, 2}
        /\ l \in 0 .. Luns
  <2> DEFINE F == {File("raw", 3, <<>>), File("ZERO", 0, <<>>), NoFile, SparseFile}
             W == {<<0, Somewhere, 0, 0>>, <<0, Product, 0, 0>>, <<0, FromEnd, 2, Luns>>,
                   <<Absent, Somewhere, 2, 0>>, <<1, Somewhere, 0, 0>>, <<0, Somewhere, Absent, Luns>>}
  <2>1. CASE \E w \in W : c = Command("program", File("raw", 3, <<>>), w[1], w[2], w[3], w[4])
    <3>1. PICK w \in W : c = Command("program", File("raw", 3, <<>>), w[1], w[2], w[3], w[4])
      BY <2>1
    <3>2. w[1] \in {Absent, 0, 1} /\ w[2] \in StartExpressions /\ w[3] \in {Absent, 0, 1, 2} /\ w[4] \in 0 .. Luns
      <4>1. CASE w = <<0, Somewhere, 0, 0>> \/ w = <<0, Product, 0, 0>> \/ w = <<1, Somewhere, 0, 0>>
        BY <4>1, <1>0 DEF StartExpressions
      <4>2. CASE w = <<0, FromEnd, 2, Luns>> \/ w = <<Absent, Somewhere, 2, 0>> \/ w = <<0, Somewhere, Absent, Luns>>
        BY <4>2, <1>0 DEF StartExpressions
      <4> QED
        BY <4>1, <4>2
    <3> QED
      BY <3>1, <3>2
  <2>2. CASE \E x \in {Somewhere, FromEnd} : c = Command("program", File("ZERO", 0, <<>>), 0, x, 1, 0)
    BY <2>2, <1>0, Zenon DEF StartExpressions
  <2>3. CASE \E f \in {NoFile, SparseFile} : c = Command("program", f, 0, Somewhere, 2, 0)
    BY <2>3, <1>0, Zenon DEF StartExpressions
  <2> QED
    BY <2>1, <2>2, <2>3, Zenon DEF Programs
<1>4. PICK f, from, place, num, l :
        /\ c = Command("program", f, from, place, num, l)
        /\ f \in {File("raw", 3, <<>>), File("ZERO", 0, <<>>), NoFile, SparseFile}
        /\ from \in {Absent, 0, 1} /\ place \in StartExpressions /\ num \in {Absent, 0, 1, 2}
        /\ l \in 0 .. Luns
  BY <1>3
<1>5. c = [kind |-> "program", file |-> f, from |-> from, at |-> place, num |-> num, lun |-> l]
  BY <1>4 DEF Command
<1>6. f \in FileType
  BY <1>1, <1>2, <1>4
<1> QED
  BY <1>4, <1>5, <1>6 DEF ProgramType

LEMMA PatchesTyped ==
  ASSUME NEW c \in Patches
  PROVE  c.kind = "patch" /\ c.at \in {Somewhere, FromEnd} /\ c.lun \in 0 .. Luns
<1>1. 0 \in 0 .. Luns /\ Luns \in 0 .. Luns
  BY Sizes
<1>2. PICK at0, l : /\ c = Command("patch", NoFile, 0, at0, 1, l)
                    /\ at0 \in {Somewhere, FromEnd} /\ l \in 0 .. Luns
  <2>1. PICK w \in {<<Somewhere, 0>>, <<FromEnd, 0>>, <<FromEnd, Luns>>} :
          c = Command("patch", NoFile, 0, w[1], 1, w[2])
    BY DEF Patches
  <2>2. w[1] \in {Somewhere, FromEnd} /\ w[2] \in 0 .. Luns
    BY <1>1
  <2> QED
    BY <2>1, <2>2
<1> QED
  BY <1>2 DEF Command

LEMMA OthersTyped ==
  ASSUME NEW c \in Others
  PROVE  c.kind \in {"read", "other", "nothing"}
BY DEF Others, Command

LEMMA CommandsTyped ==
  ASSUME NEW c \in Commands
  PROVE  /\ c \in Programs \union Patches \union Others
         /\ c.kind = "program" => c \in Programs /\ ~patching
         /\ c.kind = "patch" => c \in Patches
<1>1. c \in Programs \union Patches \union Others /\ (patching => c \in Patches \union Others)
  BY DEF Commands
<1>2. c \in Programs => c.kind = "program"
  BY ProgramsTyped DEF ProgramType
<1>3. c \in Patches => c.kind = "patch"
  BY PatchesTyped
<1>4. c \in Others => c.kind \notin {"program", "patch"}
  BY OthersTyped
<1> QED
  BY <1>1, <1>2, <1>3, <1>4

LEMMA StartsTyped ==
  ASSUME NEW x \in StartExpressions, NEW sectors \in Int
  PROVE  Value(x, sectors) \in Int
BY Evaluated DEF StartExpressions

LEMMA InitTyped == Init => TypedInv
<1> SUFFICES ASSUME Init PROVE TypedInv
  OBVIOUS
<1>1. entry \in EntryType
  <2>1. File("ZERO", 0, <<>>) \in FileType
    BY FileTyped
  <2>2. entry = [file |-> File("ZERO", 0, <<>>), from |-> 0, at |-> 0, num |-> 0, lun |-> 0]
    BY DEF Init
  <2>3. 0 \in 0 .. Unknown
    BY Sizes DEF Unknown
  <2> QED
    BY <2>1, <2>2, <2>3 DEF EntryType
<1>2. Numbers(disk)
  <2>1. disk = [n \in 0 .. Luns |-> [k \in 0 .. DiskSectors - 1 |-> Blank]]
    BY DEF Init
  <2> QED
    BY <2>1 DEF Numbers, Shaped, Blank
<1>3. pc \in {"gpt", "find", "open"} /\ status = "SUCCESS"
  BY DEF Init, FfuInit, TableInit, RawInit
<1>4. ASSUME tool = "table"
      PROVE  lun \in 0 .. Luns + 1 /\ given.at \in Int /\ given.num \in Int /\ file \in FileType
  <2>1. TableInit
    BY <1>4 DEF Init
  <2>2. lun \in 0 .. Luns + 1
    BY <2>1, Sizes DEF TableInit
  <2>3. given.at \in Int /\ given.num \in Int
    <3>1. FileSectors \subseteq Nat
      BY TableAssumption DEF TableAssumption
    <3>2. PICK A, B : A \subseteq Int /\ B \subseteq Int /\ given \in [at : A, num : B]
      <4>1. PICK A, B : A = (IF ByName THEN {0} ELSE {0, 2})
                        /\ B = (IF request \in {"zeros", "range"} THEN FileSectors ELSE {0})
        OBVIOUS
      <4>2. A \subseteq Int /\ B \subseteq Int
        BY <3>1, <4>1
      <4> QED
        BY <2>1, <4>1, <4>2 DEF TableInit
    <3> QED
      BY <3>2
  <2>4. file \in FileType
    <3>1. CASE file = File("ZERO", 0, <<>>)
      BY <3>1, FileTyped
    <3>2. CASE file \in Files /\ file.kind = "sparse"
      <4> DEFINE T == [type : {"raw", "fill", "dontcare", "unknown"}, size : Nat]
      <4>1. file \in SparseFiles
        BY <3>2 DEF Files, File
      <4>2. \A c \in Chunks : c \in T /\ c.size \in Nat /\ c.size > 0
        <5>1. \A x \in ChunkSizes : x \in Nat /\ x > 0
          BY TableAssumption DEF TableAssumption
        <5> QED
          BY <5>1 DEF Chunks
      <4> HIDE DEF T
      <4>3. PICK c, d, n :
              /\ c \in Chunks /\ d \in Chunks
              /\ file = File("sparse", n, <<c, d>>)
              /\ n \in {c.size + d.size, c.size + d.size - 1, c.size - 1}
        <5>1. CASE \E p \in Chunks \X Chunks :
                     file = File("sparse", Expanded(p), p) \/ file = File("sparse", Expanded(p) - 1, p)
          <6>1. PICK p \in Chunks \X Chunks :
                  file = File("sparse", Expanded(p), p) \/ file = File("sparse", Expanded(p) - 1, p)
            BY <5>1
          <6>2. PICK c \in Chunks, d \in Chunks : p = <<c, d>>
            BY <6>1
          <6>3. Expanded(p) = c.size + d.size
            BY <6>2 DEF Expanded
          <6>4. \/ file = File("sparse", c.size + d.size, <<c, d>>)
                \/ file = File("sparse", c.size + d.size - 1, <<c, d>>)
            <7>1. PICK x, y : x = Expanded(p) /\ y = c.size + d.size
              OBVIOUS
            <7>2. file = File("sparse", x, <<c, d>>) \/ file = File("sparse", x - 1, <<c, d>>)
              <8>1. file = File("sparse", x, p) \/ file = File("sparse", x - 1, p)
                BY <6>1, <7>1
              <8> QED
                BY <6>2, <8>1
            <7>3. x = y
              BY <6>3, <7>1
            <7>4. file = File("sparse", y, <<c, d>>) \/ file = File("sparse", y - 1, <<c, d>>)
              BY <7>2, <7>3
            <7>5. c.size \in Int /\ d.size \in Int /\ y \in Int
              BY <4>2, <7>1
            <7>6. y = c.size + d.size /\ y - 1 = c.size + d.size - 1
              BY <7>1, <7>5
            <7> QED
              BY ONLY <7>4, <7>6, Zenon
          <6>5. PICK n : /\ n \in {c.size + d.size, c.size + d.size - 1, c.size - 1}
                         /\ file = File("sparse", n, <<c, d>>)
            BY <6>4, Zenon
          <6> QED
            BY <6>5
        <5>3. CASE \E c \in Chunks : file = File("sparse", c.size - 1, <<c, c>>)
          BY <5>3
        <5> QED
          BY <4>1, <5>1, <5>3 DEF SparseFiles
      <4>4. n \in Nat
        <5>1. /\ c.size \in Nat /\ c.size > 0 /\ d.size \in Nat /\ d.size > 0
              /\ n \in {c.size + d.size, c.size + d.size - 1, c.size - 1}
          BY <4>2, <4>3
        <5> QED
          BY <5>1
      <4>5. <<c, d>> \in Seq(T)
        BY <4>2, <4>3
      <4>6. file = [kind |-> "sparse", sectors |-> n, chunks |-> <<c, d>>]
        BY <4>3 DEF File
      <4> QED
        BY <4>4, <4>5, <4>6 DEF FileType, T
    <3>3. CASE file \in Files /\ file.kind # "sparse"
      <4>1. \/ \E n \in FileSectors : file = File("raw", n, <<>>)
            \/ file = File("missing", 0, <<>>)
        BY <3>3 DEF Files, SparseFiles, File
      <4>2. FileSectors \subseteq Nat
        BY TableAssumption DEF TableAssumption
      <4> QED
        BY <4>1, <4>2, FileTyped
    <3>4. file \in Files \/ file = File("ZERO", 0, <<>>)
      BY <2>1 DEF TableInit
    <3> QED
      BY <3>1, <3>2, <3>3, <3>4
  <2> QED
    BY <2>2, <2>3, <2>4
<1> QED
  BY <1>1, <1>2, <1>3, <1>4 DEF TypedInv

LEMMA TableTyped ==
  ASSUME TypedInv, IInv, tool = "table", tool' = tool, TableNext
  PROVE  TypedInv'
<1> DEFINE ST == {"SUCCESS", "FAULT", "INVALID_DATA", "FILE_NOT_FOUND"}
<1>1. /\ entry \in EntryType /\ Numbers(disk) /\ lun \in 0 .. Luns + 1 /\ status \in ST
      /\ given.at \in Int /\ given.num \in Int /\ file \in FileType
  BY DEF TypedInv
<1>2. ASSUME NEW a \in Int, NEW m \in Int, NEW l \in 0 .. Luns, Program(a, m, l)
      PROVE  entry' \in EntryType
  <2>1. l \in 0 .. Unknown
    BY Sizes DEF Unknown
  <2> QED
    BY <1>1, <1>2, <2>1 DEF Program, EntryType
<1>3. CASE Finds
  <2>1. tables[lun] \in Extents /\ lun \in 0 .. Luns
    BY <1>1, <1>3, Sizes DEF Finds
  <2>2. PICK a, b : tables[lun] = <<a, b>> /\ a \in Int /\ b \in Int
    <3>1. PICK a \in Bounds, b \in Bounds : tables[lun] = <<a, b>>
      BY <2>1 DEF Extents
    <3>2. Bounds \subseteq Int
      BY TableAssumption DEF TableAssumption
    <3> QED
      BY <3>1, <3>2
  <2>3. found' = [lun |-> lun, first |-> a, last |-> b]
    BY <1>3, <2>2 DEF Finds
  <2>4. found'.first \in Int /\ Sectors(found') \in Int
    BY <2>2, <2>3 DEF Sectors
  <2>5. entry' \in EntryType
    BY <1>2, <1>3, <2>1, <2>4 DEF Finds
  <2>6. /\ UNCHANGED <<disk, status, given, file, lun>> /\ pc' \in {"dump", "entry"}
    BY <1>3 DEF Finds
  <2> QED
    BY <1>1, <2>5, <2>6 DEF TypedInv
<1>4. CASE FindsNot
  <2>1. UNCHANGED <<given, file, entry, pc, disk, status>> /\ lun' \in 0 .. Luns + 1 /\ pc = "find"
    <3>1. lun <= Luns /\ lun' = lun + 1
      BY <1>4 DEF FindsNot
    <3>2. lun' \in 0 .. Luns + 1
      BY <1>1, <3>1, Sizes
    <3> QED
      BY <1>4, <3>2 DEF FindsNot
  <2> QED
    BY <1>1, <2>1 DEF TypedInv
<1>5. CASE GiveUp
  BY <1>1, <1>5 DEF GiveUp, TypedInv, tableVars
<1>6. CASE AtGiven
  <2>1. entry' \in EntryType
    <3>1. Lun \in 0 .. Luns
      BY TableAssumption DEF TableAssumption
    <3> QED
      BY <1>1, <1>2, <1>6, <3>1 DEF AtGiven
  <2>2. UNCHANGED <<given, file, lun, disk, status>> /\ pc' \in {"dump", "entry"}
    BY <1>6 DEF AtGiven, tableVars
  <2> QED
    BY <1>1, <2>1, <2>2 DEF TypedInv
<1>7. CASE DumpDiskContents
  <2>1. UNCHANGED <<given, file, lun, entry, disk>> /\ pc' = "done" /\ status' \in ST
    BY <1>7 DEF DumpDiskContents
  <2> QED
    BY <1>1, <2>1 DEF TypedInv
<1>8. CASE TableDone
  BY <1>1, <1>8 DEF TableDone, TypedInv, tableVars
<1>9. CASE ProgramPartitionEntry /\ UNCHANGED tableVars
  <2>1. /\ entry' \in EntryType /\ Numbers(disk') /\ pc' \in {"entry", "next"} /\ status' \in ST
    BY <1>1, <1>9, ProgramTyped
  <2>2. UNCHANGED <<given, file, lun>>
    BY <1>9 DEF tableVars
  <2> QED
    BY <1>1, <2>1, <2>2 DEF TypedInv
<1> QED
  BY <1>3, <1>4, <1>5, <1>6, <1>7, <1>8, <1>9 DEF TableNext

LEMMA RawTyped ==
  ASSUME TypedInv, tool = "xml", tool' = tool, RawNext
  PROVE  TypedInv'
<1> DEFINE ST == {"SUCCESS", "FAULT", "INVALID_DATA", "FILE_NOT_FOUND"}
<1>1. entry \in EntryType /\ Numbers(disk) /\ status \in ST
  BY DEF TypedInv
<1>2. CASE OpenFile
  <2>1. UNCHANGED <<entry, disk>> /\ pc' \in {"next", "done", "between"} /\ status' \in ST
    BY <1>1, <1>2 DEF OpenFile
  <2> QED
    BY <1>1, <2>1 DEF TypedInv
<1>3. CASE ProgramCommand
  <2>1. PICK c \in Commands :
          /\ c.kind = "program"
          /\ entry' = [file |-> IF c.from = Absent /\ target = "disk" THEN NoFile ELSE c.file,
                       from |-> IF c.from = Absent THEN 0 ELSE c.from,
                       at |-> Evaluate(c.at), num |-> c.num, lun |-> c.lun]
    BY <1>3 DEF ProgramCommand
  <2>2. c \in Programs
    BY <2>1, CommandsTyped
  <2>3. /\ c.file \in FileType /\ c.from \in {Absent, 0, 1} /\ c.at \in StartExpressions
        /\ c.num \in Int /\ c.lun \in 0 .. Unknown
    BY <2>2, ProgramsTyped, Sizes DEF ProgramType, Absent, Unknown
  <2>4. Evaluate(c.at) \in Int
    BY <2>3, StartsTyped, Sizes DEF Evaluate, Known
  <2>5. NoFile \in FileType
    BY FileTyped DEF NoFile
  <2>6. entry' \in EntryType
    <3>1. PICK f, from, at0 : /\ f = (IF c.from = Absent /\ target = "disk" THEN NoFile ELSE c.file)
                              /\ from = (IF c.from = Absent THEN 0 ELSE c.from) /\ at0 = Evaluate(c.at)
      OBVIOUS
    <3>2. f \in FileType /\ from \in Int /\ at0 \in Int /\ c.num \in Int
      BY <2>3, <2>4, <2>5, <3>1 DEF Absent
    <3>3. entry' = [file |-> f, from |-> from, at |-> at0, num |-> c.num, lun |-> c.lun]
      BY <2>1, <3>1
    <3> QED
      BY <2>3, <3>2, <3>3 DEF EntryType
  <2>7. UNCHANGED <<disk, status>> /\ pc' = "entry"
    BY <1>3 DEF ProgramCommand
  <2> QED
    BY <1>1, <2>6, <2>7 DEF TypedInv
<1>4. CASE PatchCommand
  <2>1. PICK c \in Commands :
          /\ c.kind = "patch"
          /\ disk' = Patched(disk, c) \/ disk' = disk
    BY <1>4 DEF PatchCommand
  <2>2. c.lun \in 0 .. Luns
    BY <2>1, CommandsTyped, PatchesTyped
  <2>3. Numbers(Patched(disk, c))
    <3>1. PICK l, a, d, s : /\ l = c.lun /\ a = PatchedAt(c) /\ d = disk
                            /\ s = [d[l] EXCEPT ![a] = @ + 100]
      OBVIOUS
    <3>2. Patched(disk, c) = [d EXCEPT ![l] = s] /\ l \in 0 .. Luns /\ Numbers(d)
      BY <1>1, <2>2, <3>1 DEF Patched
    <3>3. d = [n \in 0 .. Luns |-> d[n]] /\ DOMAIN d[l] = 0 .. DiskSectors - 1 /\ DOMAIN s = DOMAIN d[l]
          /\ \A k \in 0 .. DiskSectors - 1 : d[l][k] \in Int
      BY <3>1, <3>2 DEF Numbers, Shaped
    <3>4. \A k \in 0 .. DiskSectors - 1 : s[k] = IF k = a THEN d[l][k] + 100 ELSE d[l][k]
      BY <3>1, <3>3
    <3>5. \A k \in 0 .. DiskSectors - 1 : s[k] \in Int
      BY <3>3, <3>4
    <3>6. PICK w : w = Patched(disk, c)
      OBVIOUS
    <3>7. w = [n \in 0 .. Luns |-> IF n = l THEN s ELSE d[n]]
      BY <3>2, <3>3, <3>6
    <3>8. Numbers(w)
      BY <3>2, <3>3, <3>5, <3>7 DEF Numbers, Shaped
    <3> QED
      BY <3>6, <3>8
  <2>4. UNCHANGED <<pc, entry>> /\ status' \in ST
    BY <1>1, <1>4 DEF PatchCommand
  <2>5. Numbers(disk')
    BY <1>1, <2>1, <2>3
  <2> QED
    BY <1>1, <2>4, <2>5 DEF TypedInv
<1>5. CASE OtherCommand
  <2>1. UNCHANGED <<pc, entry, disk>> /\ status' \in ST
    BY <1>1, <1>5 DEF OtherCommand
  <2> QED
    BY <1>1, <2>1 DEF TypedInv
<1>6. CASE NoCommand
  BY <1>1, <1>6 DEF NoCommand, entryVars, TypedInv
<1>7. CASE FileEnds
  <2>1. UNCHANGED <<entry, disk>> /\ pc' \in {"done", "open", "between"} /\ status' \in ST
    BY <1>1, <1>7 DEF FileEnds
  <2> QED
    BY <1>1, <2>1 DEF TypedInv
<1>8. CASE NextFile
  <2>1. UNCHANGED <<entry, disk, status>> /\ pc' \in {"done", "open"}
    BY <1>8 DEF NextFile
  <2> QED
    BY <1>1, <2>1 DEF TypedInv
<1>9. CASE ProgramPartitionEntry
  <2>1. /\ entry' \in EntryType /\ Numbers(disk') /\ pc' \in {"entry", "next"} /\ status' \in ST
    BY <1>1, <1>9, ProgramTyped
  <2> QED
    BY <2>1 DEF TypedInv
<1> QED
  BY <1>2, <1>3, <1>4, <1>5, <1>6, <1>7, <1>8, <1>9 DEF RawNext

LEMMA FfuTyped ==
  ASSUME TypedInv, FfuInv, FfuInv', tool = "ffu", tool' = tool, FfuNext
  PROVE  TypedInv'
<1> DEFINE ST == {"SUCCESS", "FAULT", "INVALID_DATA", "FILE_NOT_FOUND"}
<1>1. entry \in EntryType /\ Numbers(disk) /\ status \in ST
  BY DEF TypedInv
<1>2. WalkInv' /\ RunsInv'
  BY DEF FfuInv
<1>3. Numbers(disk')
  <2>1. CASE WriteDataEntry
    <3>1. todo \in Seq(Runs(image)) /\ ImageOK(image) /\ todo # <<>>
      BY <2>1 DEF FfuInv, RunsInv, WalkInv, WriteDataEntry
    <3>2. PICK r : r = Head(todo)
      OBVIOUS
    <3>3. r \in Runs(image)
      BY <3>1, <3>2, Ahead
    <3>4. r \in EntryType /\ r.num \in Int
      BY <3>1, <3>3, RunIsEntry, RunTyped
    <3>5. PICK n : n = IF r.num < Chunk THEN r.num ELSE Chunk
      OBVIOUS
    <3>6. n \in Int
      BY <3>4, <3>5, Sizes
    <3>7. (Accepted(r, r.lun, n) /\ disk' = Written(disk, r, r.lun, n)) \/ disk' = disk
      BY <2>1, <3>2, <3>5 DEF WriteDataEntry
    <3> QED
      BY <1>1, <3>4, <3>6, <3>7, WrittenNumbers DEF Accepted
  <2>2. CASE ProgramPartitionEntry
    BY <1>1, <2>2, ProgramTyped
  <2>3. CASE \/ ReadGPT \/ ReadGPTFails \/ LocationBegin \/ LocationEnd \/ NextDescriptor \/ StoreEnds
             \/ WriteDataEntryFails \/ AddEntryToRawProgram \/ NextEntry \/ ImageEnds
    <3>1. disk' = disk
      BY <2>3 DEF ReadGPT, ReadGPTFails, LocationBegin, LocationEnd, NextDescriptor, StoreEnds,
                  entryVars, WriteDataEntryFails, AddEntryToRawProgram, NextEntry, ImageEnds
    <3> QED
      BY <1>1, <3>1
  <2> QED
    BY <2>1, <2>2, <2>3 DEF FfuNext
<1>4. pc' \in {"gpt", "blocks", "last", "next", "entry", "done"}
  BY <1>2 DEF WalkInv
<1>5. entry' \in EntryType /\ status' \in ST
  <2>1. CASE NextEntry
    <3>1. pc' = "entry" /\ status' = status
      BY <2>1 DEF NextEntry
    <3>2. entry' \in Runs(image') /\ ImageOK(image')
      BY <1>2, <3>1 DEF RunsInv, WalkInv
    <3> QED
      BY <1>1, <3>1, <3>2, RunIsEntry
  <2>2. CASE ProgramPartitionEntry
    BY <1>1, <2>2, ProgramTyped
  <2>3. CASE ReadGPT \/ ReadGPTFails \/ LocationBegin \/ LocationEnd \/ NextDescriptor \/ StoreEnds
    BY <1>1, <2>3 DEF ReadGPT, ReadGPTFails, LocationBegin, LocationEnd, NextDescriptor, StoreEnds, entryVars
  <2>4. CASE WriteDataEntry \/ WriteDataEntryFails \/ AddEntryToRawProgram \/ ImageEnds
    BY <1>1, <2>4 DEF WriteDataEntry, WriteDataEntryFails, AddEntryToRawProgram, ImageEnds
  <2> QED
    BY <2>1, <2>2, <2>3, <2>4 DEF FfuNext
<1> QED
  BY <1>3, <1>4, <1>5 DEF TypedInv

LEMMA NextTyped == TypedInv /\ IInv /\ ImageInv /\ ImageInv' /\ [Next]_vars => TypedInv'
<1> SUFFICES ASSUME TypedInv, IInv, ImageInv, ImageInv', [Next]_vars PROVE TypedInv'
  OBVIOUS
<1>1. tool' = tool
  BY DEF Next, vars
<1>2. CASE tool = "ffu" /\ FfuNext
  BY <1>1, <1>2, FfuTyped DEF ImageInv
<1>3. CASE tool = "table" /\ TableNext
  BY <1>1, <1>3, TableTyped
<1>4. CASE tool = "xml" /\ RawNext
  BY <1>1, <1>4, RawTyped
<1>5. CASE UNCHANGED vars
  BY <1>5 DEF TypedInv, vars, entryVars, tableVars
<1> QED
  BY <1>2, <1>3, <1>4, <1>5 DEF Next

LEMMA Types == TypedInv /\ ImageInv => TypeOK
<1> SUFFICES ASSUME TypedInv, ImageInv PROVE TypeOK
  OBVIOUS
<1>1. ASSUME NEW q \in Seq(Runs(image)), ImageOK(image)
      PROVE  \A n \in 1 .. Len(q) : InImage(q[n])
  <2>1. ASSUME NEW r \in Runs(image) PROVE InImage(r)
    <3>1. /\ r.lun \in 0 .. Unknown /\ r.num \in Nat \ {0}
          /\ r.from >= First /\ r.from + r.num <= r.file.sectors
      BY <1>1, RunTyped
    <3> QED
      BY <3>1 DEF InImage
  <2>2. ASSUME NEW n \in 1 .. Len(q) PROVE q[n] \in Runs(image)
    BY ElementOfSeq
  <2> QED
    BY <2>1, <2>2
<1>2. \A n \in 1 .. Len(todo) : InImage(todo[n])
  <2>1. CASE tool = "ffu"
    BY <1>1, <2>1 DEF ImageInv, FfuInv, RunsInv, WalkInv
  <2>2. CASE tool # "ffu"
    BY <2>2 DEF ImageInv
  <2> QED
    BY <2>1, <2>2
<1>3. \A n \in 1 .. Len(xml) : InImage(xml[n])
  <2>1. CASE tool = "ffu"
    BY <1>1, <2>1 DEF ImageInv, FfuInv, RunsInv, WalkInv
  <2>2. CASE tool # "ffu"
    BY <2>2 DEF ImageInv
  <2> QED
    BY <2>1, <2>2
<1>4. DOMAIN disk = 0 .. Luns
  BY DEF TypedInv, Numbers, Shaped
<1>5. entry.lun \in 0 .. Unknown
  BY DEF TypedInv, EntryType
<1>6. \A n \in 0 .. Luns, k \in 0 .. DiskSectors - 1 : disk[n][k] \in Int
  BY DEF TypedInv, Numbers
<1> QED
  BY <1>2, <1>3, <1>4, <1>5, <1>6 DEF TypedInv, TypeOK

(* Every run that is gathered, and every entry of a rawprogram file, is    *)
(* within the payload of its image and for a disk that exists or for the   *)
(* one number of an unknown GUID (which DumpRawProgram's check lets        *)
(* through), and the disks hold numbers, whatever is written.              *)
THEOREM Typed == Spec => []TypeOK
<1>1. Init => TypedInv /\ IInv /\ ImageInv
  BY InitTyped, InitInv, InitImage
<1>2. TypedInv /\ IInv /\ ImageInv /\ [Next]_vars => TypedInv' /\ IInv' /\ ImageInv'
  BY NextTyped, NextInv, NextImage
<1>3. TypedInv /\ ImageInv => TypeOK
  BY Types
<1> QED
  BY <1>1, <1>2, <1>3, PTL DEF Spec
-----------------------------------------------------------------------------
(* What a log lg of commands says of sector k of disk n, if those in rf    *)
(* were refused: b is the last command of the first m that covers it, or 0 *)
(* for none, and the patches behind b change it.                           *)
Changing(lg, rf, tg, n, k, p) ==
  /\ p \notin rf /\ tg = "device"
  /\ lg[p].c.kind = "patch" /\ lg[p].c.lun = n /\ Meant(lg[p].c.at) = k

Between(lg, rf, tg, n, k, b, m) == {p \in b + 1 .. m : Changing(lg, rf, tg, n, k, p)}

Begun(c) == IF c.from = Absent THEN 0 ELSE c.from
HeldBy(c, k) == Data(c, Begun(c) + k - Meant(c.at))

(* The sectors that a command writes to, Covers, of each target.           *)
LengthOn(tg, c) ==
  IF c.file.kind = "raw"
  THEN IF c.file.sectors <= c.num \/ c.num = 0 THEN c.file.sectors ELSE c.num
  ELSE IF c.file.kind = "ZERO" /\ tg = "disk" /\ c.num > 0 THEN WholeBuffers(c.num)
  ELSE c.num

CoversOn(tg, c, n, k) ==
  /\ c.kind = "program" /\ (IF tg = "disk" THEN 0 ELSE c.lun) = n
  /\ k - Meant(c.at) \in 0 .. LengthOn(tg, c) - 1

LEMMA CoversHere ==
  ASSUME NEW c, NEW n, NEW k
  PROVE  CoversOn(target, c, n, k) <=> Covers(c, n, k)
<1>1. LengthOn(target, c) = SectorsToWrite(c)
  BY DEF LengthOn, SectorsToWrite
<1> QED
  BY <1>1 DEF CoversOn, Covers, Where

Base(lg, tg, n, k, b, h) ==
  IF b = 0 THEN h = Blank ELSE CoversOn(tg, lg[b].c, n, k) /\ h = HeldBy(lg[b].c, k)

Says(lg, rf, tg, n, k, m, v) ==
  \E b \in 0 .. m, h \in Int :
    /\ Base(lg, tg, n, k, b, h)
    /\ \A l \in b + 1 .. m : ~CoversOn(tg, lg[l].c, n, k)
    /\ v = h + 100 * Cardinality(Between(lg, rf, tg, n, k, b, m))

OnDisk(lg, rf, tg, d, m) ==
  \A n \in 0 .. Luns, k \in 0 .. DiskSectors - 1 : Says(lg, rf, tg, n, k, m, d[n][k])

(* Logs that agree on the first m commands say the same.                   *)
LEMMA SaysSame ==
  ASSUME NEW lg, NEW lh, NEW rf, NEW rh, NEW tg, NEW n, NEW k, NEW m \in Nat, NEW v,
         \A p \in 1 .. m : lg[p] = lh[p] /\ (p \in rf <=> p \in rh),
         Says(lg, rf, tg, n, k, m, v)
  PROVE  Says(lh, rh, tg, n, k, m, v)
<1>1. PICK b \in 0 .. m, h \in Int :
        /\ Base(lg, tg, n, k, b, h)
        /\ \A l \in b + 1 .. m : ~CoversOn(tg, lg[l].c, n, k)
        /\ v = h + 100 * Cardinality(Between(lg, rf, tg, n, k, b, m))
  BY DEF Says
<1>2. Base(lh, tg, n, k, b, h)
  BY <1>1 DEF Base
<1>3. \A l \in b + 1 .. m : ~CoversOn(tg, lh[l].c, n, k)
  BY <1>1
<1>4. Between(lg, rf, tg, n, k, b, m) = Between(lh, rh, tg, n, k, b, m)
  BY DEF Between, Changing
<1> QED
  BY <1>1, <1>2, <1>3, <1>4 DEF Says

LEMMA BetweenFinite ==
  ASSUME NEW lg, NEW rf, NEW tg, NEW n, NEW k, NEW b \in Nat, NEW m \in Nat
  PROVE  /\ IsFiniteSet(Between(lg, rf, tg, n, k, b, m))
         /\ Cardinality(Between(lg, rf, tg, n, k, b, m)) \in Nat
<1>1. IsFiniteSet(b + 1 .. m)
  BY FS_Interval
<1>2. Between(lg, rf, tg, n, k, b, m) \in SUBSET (b + 1 .. m)
  BY DEF Between
<1>3. IsFiniteSet(Between(lg, rf, tg, n, k, b, m))
  BY <1>1, <1>2, FS_Subset
<1> QED
  BY <1>3, FS_CardinalityType

(* Another command that does not cover the sector: a patch of it that is   *)
(* done counts, all else does not.                                         *)
LEMMA SaysNext ==
  ASSUME NEW lg, NEW rf, NEW tg, NEW n, NEW k, NEW m \in Nat, NEW v \in Int,
         Says(lg, rf, tg, n, k, m, v), ~CoversOn(tg, lg[m + 1].c, n, k)
  PROVE  Says(lg, rf, tg, n, k, m + 1, IF Changing(lg, rf, tg, n, k, m + 1) THEN v + 100 ELSE v)
<1>1. PICK b \in 0 .. m, h \in Int :
        /\ Base(lg, tg, n, k, b, h)
        /\ \A l \in b + 1 .. m : ~CoversOn(tg, lg[l].c, n, k)
        /\ v = h + 100 * Cardinality(Between(lg, rf, tg, n, k, b, m))
  BY DEF Says
<1>2. PICK S, T, s, t : /\ S = Between(lg, rf, tg, n, k, b, m) /\ s = Cardinality(S)
                        /\ T = Between(lg, rf, tg, n, k, b, m + 1) /\ t = Cardinality(T)
  OBVIOUS
<1>3. IsFiniteSet(S) /\ s \in Nat
  BY <1>2, BetweenFinite
<1>4. T = IF Changing(lg, rf, tg, n, k, m + 1) THEN S \union {m + 1} ELSE S
  BY <1>2 DEF Between
<1>5. m + 1 \notin S
  BY <1>2 DEF Between
<1>6. t = IF Changing(lg, rf, tg, n, k, m + 1) THEN s + 1 ELSE s
  BY <1>2, <1>3, <1>4, <1>5, FS_AddElement
<1>7. (IF Changing(lg, rf, tg, n, k, m + 1) THEN v + 100 ELSE v) = h + 100 * t
  <2>1. v = h + 100 * s
    BY <1>1, <1>2
  <2> QED
    BY <1>3, <1>6, <2>1
<1>8. \A l \in b + 1 .. m + 1 : ~CoversOn(tg, lg[l].c, n, k)
  BY <1>1
<1> QED
  BY <1>1, <1>2, <1>7, <1>8 DEF Says

(* Another one that does: the patches before it do not count any more.     *)
LEMMA SaysCovered ==
  ASSUME NEW lg, NEW rf, NEW tg, NEW n, NEW k, NEW m \in Nat,
         CoversOn(tg, lg[m + 1].c, n, k), HeldBy(lg[m + 1].c, k) \in Int
  PROVE  Says(lg, rf, tg, n, k, m + 1, HeldBy(lg[m + 1].c, k))
<1>1. Between(lg, rf, tg, n, k, m + 1, m + 1) = {}
  BY DEF Between
<1>2. PICK h \in Int : h = HeldBy(lg[m + 1].c, k)
  OBVIOUS
<1>3. h = h + 100 * Cardinality(Between(lg, rf, tg, n, k, m + 1, m + 1))
  BY <1>1, FS_EmptySet
<1>4. Base(lg, tg, n, k, m + 1, h)
  BY <1>2 DEF Base
<1>5. \A l \in (m + 1) + 1 .. m + 1 : ~CoversOn(tg, lg[l].c, n, k)
  OBVIOUS
<1>6. m + 1 \in 0 .. m + 1
  OBVIOUS
<1> QED
  BY <1>2, <1>3, <1>4, <1>5, <1>6 DEF Says

LEMMA SaysBlank ==
  ASSUME NEW lg, NEW rf, NEW tg, NEW n, NEW k
  PROVE  Says(lg, rf, tg, n, k, 0, Blank)
<1>1. Between(lg, rf, tg, n, k, 0, 0) = {}
  BY DEF Between
<1>2. Blank = Blank + 100 * Cardinality(Between(lg, rf, tg, n, k, 0, 0)) /\ Blank \in Int
  BY <1>1, FS_EmptySet DEF Blank
<1>3. Base(lg, tg, n, k, 0, Blank) /\ 0 \in 0 .. 0
  BY DEF Base
<1>4. \A l \in 0 + 1 .. 0 : ~CoversOn(tg, lg[l].c, n, k)
  OBVIOUS
<1> QED
  BY <1>2, <1>3, <1>4 DEF Says

(* What the expressions of files mean is where their commands go.          *)
LEMMA Meanings ==
  /\ DiskSectors \in Nat /\ DiskSectors >= 2
  /\ Meant(Somewhere) = 1
  /\ Meant(Product) = 4
  /\ Meant(FromEnd) = DiskSectors - 2
<1>1. DiskSectors \in Nat /\ DiskSectors >= 2
  BY Sizes, RawFits DEF RawFits
<1>2. Meant(Somewhere) = 1
  BY DEF Meant, Somewhere, Expression, NumDiskSectors
<1>3. ASSUME NEW a, NEW op \in {"*", "-"}, NEW x, x = Expression(a, <<With(op, 2)>>)
      PROVE  Meant(x) = Apply(op, IF a = NumDiskSectors THEN DiskSectors ELSE a, 2)
  <2>1. x.ops = <<With(op, 2)>> /\ x.first = a
    BY <1>3 DEF Expression
  <2>2. x.ops # <<>> /\ x.ops[1].op = op /\ x.ops[1].by = 2
    BY <2>1 DEF With
  <2> QED
    BY <2>1, <2>2 DEF Meant
<1>4. Meant(Product) = 4
  BY <1>3 DEF Apply, Product, NumDiskSectors
<1>5. Meant(FromEnd) = DiskSectors - 2
  BY <1>1, <1>3 DEF FromEnd, Apply
<1> QED
  BY <1>1, <1>2, <1>4, <1>5

LEMMA MeantAt ==
  ASSUME NEW x \in StartExpressions
  PROVE  /\ Meant(x) \in Int
         /\ target \in {"device", "disk"} => Resolved(Evaluate(x)) = Meant(x)
         /\ Resolved(Value(x, DiskSectors)) = Meant(x)
<1>1. DiskSectors \in Nat /\ DiskSectors >= 2
  BY Meanings
<1>2. Known \in {0, DiskSectors} /\ Known \in Int
  BY <1>1 DEF Known
<1>3. CASE x = Somewhere
  BY <1>1, <1>2, <1>3, Meanings, Evaluated DEF Evaluate, Resolved
<1>4. CASE x = Product
  BY <1>1, <1>2, <1>4, Meanings, Evaluated DEF Evaluate, Resolved
<1>5. CASE x = FromEnd
  <2>1. Meant(x) = DiskSectors - 2
    BY <1>5, Meanings
  <2>2. /\ Value(x, Known) = Known - 2 /\ Value(x, DiskSectors) = DiskSectors - 2
    BY <1>1, <1>2, <1>5, Evaluated
  <2> QED
    BY <1>1, <1>2, <2>1, <2>2 DEF Evaluate, Resolved
<1> QED
  BY <1>3, <1>4, <1>5 DEF StartExpressions

(* The entry of a program command.                                         *)
EntryFor(c) ==
  [file |-> IF c.from = Absent /\ target = "disk" THEN NoFile ELSE c.file,
   from |-> IF c.from = Absent THEN 0 ELSE c.from,
   at |-> Evaluate(c.at), num |-> c.num, lun |-> c.lun]

LEMMA ProgramsMean ==
  ASSUME NEW c \in Programs, NEW k \in Int
  PROVE  /\ c.kind = "program" /\ c.file.sectors \in Nat
         /\ c.from \in {Absent, 0, 1} /\ c.at \in StartExpressions
         /\ SectorsToWrite(c) \in Int /\ Begun(c) \in Int /\ HeldBy(c, k) \in Int
<1>1. /\ c.kind = "program" /\ c.file \in FileType
      /\ c.from \in {Absent, 0, 1} /\ c.at \in StartExpressions /\ c.num \in Int
  BY ProgramsTyped DEF ProgramType, Absent
<1>2. c.file.sectors \in Nat
  BY <1>1 DEF FileType
<1>3. SectorsToWrite(c) \in Int
  BY <1>1, <1>2, WritesNumber
<1>4. Begun(c) \in Int
  BY <1>1 DEF Begun, Absent
<1>5. Meant(c.at) \in Int
  BY <1>1, MeantAt
<1>6. HeldBy(c, k) \in Int
  <2>1. PICK x : x = Begun(c) + k - Meant(c.at)
    OBVIOUS
  <2>2. x \in Int
    BY <1>4, <1>5, <2>1
  <2>3. Data(c, x) \in Int
    BY <1>2, <2>2 DEF Data, Zero, Junk
  <2> QED
    BY <2>1, <2>3 DEF HeldBy
<1> QED
  BY <1>1, <1>2, <1>3, <1>4, <1>6

(* An entry that is copied: what its command covers holds what it says,    *)
(* and nothing else is changed.                                            *)
LEMMA CommandCopied ==
  ASSUME NEW c \in Programs, target \in {"device", "disk"}, NEW e, e = EntryFor(c),
         e.file.kind # "missing", NEW d, Shaped(d),
         NEW n \in 0 .. Luns, NEW k \in 0 .. DiskSectors - 1
  PROVE  Written(d, e, e.lun, SectorsToWrite(e))[n][k] =
           IF Covers(c, n, k) THEN HeldBy(c, k) ELSE d[n][k]
<1>1. /\ c.kind = "program" /\ c.lun \in 0 .. Luns /\ c.at \in StartExpressions
      /\ SectorsToWrite(c) \in Int /\ Begun(c) \in Int
  BY ProgramsTyped, ProgramsMean DEF ProgramType
<1>2. /\ e.file = c.file /\ e.from = Begun(c) /\ e.num = c.num /\ e.lun = c.lun
      /\ e.at = Evaluate(c.at)
  BY DEF EntryFor, NoFile, File, Begun
<1>3. PICK a, num, f, l : /\ a = Meant(c.at) /\ num = SectorsToWrite(c)
                          /\ f = Begun(c) /\ l = c.lun
  OBVIOUS
<1>4. /\ a \in Int /\ num \in Int /\ f \in Int /\ l \in 0 .. Luns
      /\ Resolved(e.at) = a /\ e.from = f
  BY <1>1, <1>2, <1>3, MeantAt
<1>5. SectorsToWrite(e) = num
  BY <1>2, <1>3 DEF SectorsToWrite
<1>6. /\ n = Where(l) /\ a <= k /\ k < a + num => Written(d, e, l, num)[n][k] = Data(e, f + (k - a))
      /\ ~(n = Where(l) /\ a <= k /\ k < a + num) => Written(d, e, l, num)[n][k] = d[n][k]
  <2>1. Where(l) \in 0 .. Luns
    BY <1>4, Somedisk
  <2> QED
    BY <1>4, <2>1, WrittenSector
<1>7. Covers(c, n, k) <=> n = Where(l) /\ a <= k /\ k < a + num
  BY <1>1, <1>3, <1>4 DEF Covers
<1>8. Data(e, f + (k - a)) = HeldBy(c, k)
  <2>1. f + (k - a) = f + k - a
    BY <1>4
  <2>2. Data(e, f + (k - a)) = Data(c, f + k - a)
    BY <1>2, <2>1 DEF Data
  <2> QED
    BY <1>3, <2>2 DEF HeldBy
<1> QED
  BY <1>2, <1>3, <1>5, <1>6, <1>7, <1>8

(* What cannot end in a success that is reported.                          *)
Lost ==
  /\ status # "SUCCESS" /\ ~patching /\ pc \in {"next", "between", "done"}
  /\ pc = "between" => target = "disk"

(* The last command is under way, or was refused in a patch file.          *)
Doing == pc = "entry" \/ (pc = "next" /\ Broken)

(* The disks hold what the commands say that are done.                     *)
FarInv ==
  /\ pc \in {"open", "between", "done"} => status = "SUCCESS"
  /\ pc = "entry" =>
       /\ ~patching /\ log[Len(log)].c \in Programs
       /\ entry = EntryFor(log[Len(log)].c) /\ Len(log) \notin refused
  /\ pc = "next" /\ Broken => patching /\ log[Len(log)].c.kind # "program"
  /\ OnDisk(log, refused, target, disk, IF Doing THEN Len(log) - 1 ELSE Len(log))

(* What a local disk's writer does not notice, and what becomes of sparse  *)
(* files, is not known.                                                    *)
SoFarInv ==
  tool = "xml" /\ (target = "device" \/ (files = 1 /\ ~failed)) /\ NoSparse => Lost \/ FarInv

(* A command is read, behind others that are done.                         *)
LEMMA ReadsFar ==
  ASSUME XmlTypes, Numbers(disk), Lost \/ FarInv, NEW c \in Commands, Reads(c), UNCHANGED target
  PROVE  /\ pc = "next" /\ status = "SUCCESS" /\ ~Lost
         /\ UNCHANGED <<target, files, patching>> /\ refused' = refused
         /\ Len(log') = Len(log) + 1 /\ Len(log) \in Nat /\ log'[Len(log')].c = c
         /\ Len(log') \notin refused'
         /\ OnDisk(log', refused', target', disk, Len(log))
<1>1. /\ pc = "next" /\ status = "SUCCESS" /\ refused' = refused
      /\ UNCHANGED <<target, files, patching>>
      /\ log' = Append(log, [c |-> c, nth |-> nth, patch |-> patching])
  <2>1. pc = "next" /\ status = "SUCCESS" /\ refused' = Refused
    BY Zenon DEF Reads, Broken
  <2>2. Refused = refused
    BY <2>1 DEF Refused
  <2> QED
    BY <2>1, <2>2, Zenon DEF Reads
<1>2. log \in Seq(Entries) /\ refused \subseteq 1 .. Len(log)
  BY DEF XmlTypes
<1>3. PICK m \in Nat : m = Len(log)
  BY <1>2
<1>4. /\ Len(log') = m + 1 /\ log'[m + 1].c = c
      /\ \A p \in 1 .. m : log'[p] = log[p]
  BY <1>1, <1>2, <1>3
<1>5. OnDisk(log, refused, target, disk, m)
  BY <1>1, <1>3 DEF FarInv, Lost, Doing, Broken
<1>6. ASSUME NEW n \in 0 .. Luns, NEW k \in 0 .. DiskSectors - 1
      PROVE  Says(log', refused', target', n, k, m, disk[n][k])
  <2>1. Says(log, refused, target, n, k, m, disk[n][k])
    BY <1>5 DEF OnDisk
  <2> QED
    BY <1>1, <1>4, <2>1, SaysSame
<1>7. OnDisk(log', refused', target', disk, m)
  BY <1>6 DEF OnDisk
<1>8. m + 1 \notin refused
  BY <1>2, <1>3
<1> QED
  BY <1>1, <1>3, <1>4, <1>7, <1>8 DEF Lost

(* A command that is not a program command is done: what a patch changes   *)
(* is changed, and nothing else.                                           *)
LEMMA DoneFar ==
  ASSUME NEW lg, NEW rf, NEW tg, NEW d, Numbers(d), NEW e, NEW m \in Nat,
         OnDisk(lg, rf, tg, d, m), lg[m + 1].c.kind # "program",
         \A n \in 0 .. Luns, k \in 0 .. DiskSectors - 1 :
           e[n][k] = IF Changing(lg, rf, tg, n, k, m + 1) THEN d[n][k] + 100 ELSE d[n][k]
  PROVE  OnDisk(lg, rf, tg, e, m + 1)
<1>1. ASSUME NEW n \in 0 .. Luns, NEW k \in 0 .. DiskSectors - 1
      PROVE  Says(lg, rf, tg, n, k, m + 1, e[n][k])
  <2>1. PICK v : v = d[n][k]
    OBVIOUS
  <2>2. v \in Int /\ Says(lg, rf, tg, n, k, m, v)
    BY <2>1 DEF Numbers, OnDisk
  <2>3. ~CoversOn(tg, lg[m + 1].c, n, k)
    BY DEF CoversOn
  <2>4. Says(lg, rf, tg, n, k, m + 1, IF Changing(lg, rf, tg, n, k, m + 1) THEN v + 100 ELSE v)
    BY <2>2, <2>3, SaysNext
  <2> QED
    BY <2>1, <2>4
<1> QED
  BY <1>1 DEF OnDisk

(* What a patch command leaves on the disks.                               *)
LEMMA PatchedSector ==
  ASSUME NEW d, Shaped(d), NEW c \in Patches,
         NEW n \in 0 .. Luns, NEW k \in 0 .. DiskSectors - 1
  PROVE  Patched(d, c)[n][k] =
           IF c.lun = n /\ Meant(c.at) = k THEN d[n][k] + 100 ELSE d[n][k]
<1>1. c.lun \in 0 .. Luns /\ c.at \in {Somewhere, FromEnd}
  BY PatchesTyped
<1>2. PICK a, l : a = Meant(c.at) /\ l = c.lun
  OBVIOUS
<1>3. PatchedAt(c) = a
  BY <1>1, <1>2, MeantAt DEF PatchedAt, StartExpressions
<1>4. Patched(d, c) = [d EXCEPT ![l][a] = @ + 100]
  BY <1>2, <1>3 DEF Patched
<1>5. n \in DOMAIN d /\ l \in DOMAIN d /\ k \in DOMAIN d[n]
  BY <1>1, <1>2 DEF Shaped
<1> QED
  BY <1>2, <1>4, <1>5

LEMMA ProgramFar ==
  ASSUME XmlTypes, Numbers(disk), Lost \/ FarInv, ProgramCommand
  PROVE  FarInv'
<1>1. PICK c \in Commands :
        /\ c.kind = "program" /\ Reads(c) /\ entry' = EntryFor(c)
        /\ pc' = "entry" /\ disk' = disk /\ target' = target
  BY DEF ProgramCommand, EntryFor
<1>2. c \in Programs /\ ~patching
  BY <1>1, CommandsTyped
<1>3. /\ UNCHANGED <<target, patching>>
      /\ Len(log') = Len(log) + 1 /\ Len(log) \in Nat /\ log'[Len(log')].c = c
      /\ Len(log') \notin refused'
      /\ OnDisk(log', refused', target', disk, Len(log))
  BY <1>1, ReadsFar
<1>4. (entry = EntryFor(log[Len(log)].c))'
  <2>1. target' = target /\ log'[Len(log')].c = c
    BY <1>3
  <2> QED
    BY <1>1, <2>1 DEF EntryFor, Evaluate, Known
<1>5. OnDisk(log', refused', target', disk', Len(log') - 1)
  <2>1. Len(log') - 1 = Len(log) /\ disk' = disk
    BY <1>1, <1>3
  <2> QED
    BY <1>3, <2>1
<1>6. Doing'
  BY <1>1 DEF Doing
<1>7. (pc = "entry" =>
         /\ ~patching /\ log[Len(log)].c \in Programs
         /\ entry = EntryFor(log[Len(log)].c) /\ Len(log) \notin refused)'
  BY <1>2, <1>3, <1>4
<1> QED
  BY <1>1, <1>5, <1>6, <1>7 DEF FarInv

(* A command is done: not a program command, and the file is read on.      *)
LEMMA ReadOnFar ==
  ASSUME XmlTypes, Numbers(disk), Lost \/ FarInv, NEW c \in Commands, Reads(c), UNCHANGED target,
         c.kind # "program", pc' = pc, status' = status,
         \A n \in 0 .. Luns, k \in 0 .. DiskSectors - 1 :
           disk'[n][k] = IF target = "device" /\ c.kind = "patch" /\ c.lun = n /\ Meant(c.at) = k
                         THEN disk[n][k] + 100 ELSE disk[n][k]
  PROVE  FarInv'
<1>1. /\ pc = "next" /\ status = "SUCCESS" /\ target' = target
      /\ Len(log') = Len(log) + 1 /\ Len(log) \in Nat /\ log'[Len(log')].c = c
      /\ Len(log') \notin refused'
      /\ OnDisk(log', refused', target', disk, Len(log))
  BY ReadsFar
<1>2. PICK m, lg, rf, tg, e :
        m = Len(log) /\ lg = log' /\ rf = refused' /\ tg = target' /\ e = disk'
  BY <1>1
<1>3. /\ m \in Nat /\ OnDisk(lg, rf, tg, disk, m) /\ tg = target
      /\ lg[m + 1].c = c /\ lg[m + 1].c.kind # "program" /\ m + 1 \notin rf
  BY <1>1, <1>2
<1>4. ASSUME NEW n \in 0 .. Luns, NEW k \in 0 .. DiskSectors - 1
      PROVE  e[n][k] = IF Changing(lg, rf, tg, n, k, m + 1) THEN disk[n][k] + 100 ELSE disk[n][k]
  BY <1>2, <1>3 DEF Changing
<1>5. OnDisk(lg, rf, tg, e, m + 1)
  BY <1>3, <1>4, DoneFar
<1>6. OnDisk(log', refused', target', disk', Len(log'))
  BY <1>1, <1>2, <1>5
<1>7. ~Doing' /\ pc' = "next" /\ ~Broken'
  BY <1>1 DEF Doing, Broken
<1> QED
  BY <1>6, <1>7 DEF FarInv

(* A command is refused: in a patch file nothing is done for it, and in    *)
(* another the invocation cannot end well.                                 *)
LEMMA FailsFar ==
  ASSUME XmlTypes, Numbers(disk), Lost \/ FarInv, NEW c \in Commands, Reads(c), UNCHANGED target,
         c.kind # "program", pc' = pc, status' # "SUCCESS", disk' = disk
  PROVE  Lost' \/ FarInv'
<1>1. /\ pc = "next" /\ patching' = patching
      /\ Len(log') = Len(log) + 1 /\ Len(log) \in Nat /\ log'[Len(log')].c = c
      /\ OnDisk(log', refused', target', disk, Len(log))
  BY ReadsFar
<1>2. CASE ~patching
  BY <1>1, <1>2 DEF Lost
<1>3. CASE patching
  <2>1. Len(log') - 1 = Len(log)
    BY <1>1
  <2>2. OnDisk(log', refused', target', disk', Len(log') - 1)
    BY <1>1, <2>1
  <2>3. Doing' /\ pc' = "next" /\ patching'
    BY <1>1, <1>3 DEF Doing, Broken
  <2> QED
    BY <1>1, <2>2, <2>3 DEF FarInv
<1> QED
  BY <1>2, <1>3

LEMMA CommandFar ==
  ASSUME XmlTypes, Numbers(disk), Lost \/ FarInv, PatchCommand \/ OtherCommand \/ NoCommand
  PROVE  Lost' \/ FarInv'
<1>1. CASE PatchCommand
  <2>1. PICK c \in Commands :
          /\ c.kind = "patch" /\ Reads(c) /\ pc' = pc /\ target' = target
          /\ \/ /\ disk' = IF target = "device" THEN Patched(disk, c) ELSE disk
                /\ status' = status
             \/ status' = "FAULT" /\ disk' = disk
    BY <1>1 DEF PatchCommand
  <2>2. c \in Patches
    BY <2>1, CommandsTyped
  <2>3. CASE /\ disk' = IF target = "device" THEN Patched(disk, c) ELSE disk
             /\ status' = status
    <3>1. ASSUME NEW n \in 0 .. Luns, NEW k \in 0 .. DiskSectors - 1
          PROVE  disk'[n][k] = IF target = "device" /\ c.kind = "patch" /\ c.lun = n /\ Meant(c.at) = k
                               THEN disk[n][k] + 100 ELSE disk[n][k]
      <4>1. Patched(disk, c)[n][k] =
              IF c.lun = n /\ Meant(c.at) = k THEN disk[n][k] + 100 ELSE disk[n][k]
        BY <2>2, PatchedSector DEF Numbers
      <4> QED
        BY <2>1, <2>3, <4>1
    <3> QED
      BY <2>1, <2>3, <3>1, ReadOnFar
  <2>4. CASE status' = "FAULT" /\ disk' = disk
    <3>1. status' # "SUCCESS" /\ c.kind # "program"
      BY <2>1, <2>4
    <3> QED
      BY <2>1, <2>4, <3>1, FailsFar
  <2> QED
    BY <2>1, <2>3, <2>4
<1>2. CASE OtherCommand \/ NoCommand
  <2>1. PICK c \in Commands :
          /\ c.kind \in {"read", "other", "nothing"} /\ Reads(c) /\ pc' = pc /\ disk' = disk
          /\ target' = target /\ (status' = status \/ status' = "FAULT")
    BY <1>2 DEF OtherCommand, NoCommand, entryVars
  <2>2. c.kind # "program" /\ c.kind # "patch"
    BY <2>1
  <2>3. CASE status' = status
    BY <2>1, <2>2, <2>3, ReadOnFar
  <2>4. CASE status' = "FAULT"
    <3>1. status' # "SUCCESS"
      BY <2>4
    <3> QED
      BY <2>1, <2>2, <3>1, FailsFar
  <2> QED
    BY <2>1, <2>3, <2>4
<1> QED
  BY <1>1, <1>2

(* The end of a file: a command of a patch file may become refused.        *)
LEMMA EndsFar ==
  ASSUME XmlTypes, LastInv, Numbers(disk), Lost \/ FarInv, FileEnds
  PROVE  Lost' \/ FarInv'
<1>1. /\ pc = "next" /\ refused' = Refused
      /\ UNCHANGED <<disk, target, log>> /\ pc' \in {"done", "open", "between"}
      /\ pc' = "done" => target = "device" /\ ~patching /\ Broken /\ UNCHANGED <<status, patching>>
      /\ pc' = "open" => ~patching /\ ~Broken /\ status' = status
      /\ pc' = "between" => /\ patching \/ target = "disk" \/ ~Broken
                            /\ status' = (IF patching THEN "SUCCESS" ELSE status)
                            /\ patching' = patching
  BY DEF FileEnds
<1>2. log \in Seq(Entries) /\ Len(log) \in Nat
  BY DEF XmlTypes
<1>3. CASE Broken /\ ~patching
  BY <1>1, <1>3 DEF Lost, Broken
<1>4. CASE Broken /\ patching
  <2>1. log[Len(log)].c.kind # "program" /\ OnDisk(log, refused, target, disk, Len(log) - 1)
    BY <1>1, <1>4 DEF FarInv, Lost, Doing
  <2>2. log # <<>>
    BY <1>1, <1>4 DEF LastInv
  <2>3. PICK m \in Nat : m + 1 = Len(log)
    <3>1. Len(log) - 1 \in Nat /\ (Len(log) - 1) + 1 = Len(log)
      BY <1>2, <2>2
    <3> QED
      BY <3>1
  <2>4. refused' = refused \union {m + 1}
    BY <1>1, <1>4, <2>3 DEF Refused, Broken
  <2>5. OnDisk(log, refused, target, disk, m)
    BY <2>1, <2>3
  <2>6. ASSUME NEW n \in 0 .. Luns, NEW k \in 0 .. DiskSectors - 1
        PROVE  Says(log, refused', target, n, k, m, disk[n][k])
    <3>1. Says(log, refused, target, n, k, m, disk[n][k])
      BY <2>5 DEF OnDisk
    <3>2. \A p \in 1 .. m : p \in refused <=> p \in refused'
      BY <2>4
    <3> QED
      BY <3>1, <3>2, SaysSame
  <2>7. OnDisk(log, refused', target, disk, m)
    BY <2>6 DEF OnDisk
  <2>8. \A n \in 0 .. Luns, k \in 0 .. DiskSectors - 1 :
          ~Changing(log, refused', target, n, k, m + 1)
    BY <2>4 DEF Changing
  <2>9. OnDisk(log, refused', target, disk, m + 1)
    <3>1. \A n \in 0 .. Luns, k \in 0 .. DiskSectors - 1 :
            disk[n][k] = IF Changing(log, refused', target, n, k, m + 1)
                         THEN disk[n][k] + 100 ELSE disk[n][k]
      BY <2>8
    <3>2. log[m + 1].c.kind # "program"
      BY <2>1, <2>3
    <3> QED
      BY <2>7, <3>1, <3>2, DoneFar
  <2>10. pc' = "between" /\ status' = "SUCCESS"
    BY <1>1, <1>4
  <2>11. OnDisk(log', refused', target', disk', Len(log')) /\ ~Doing'
    <3>1. m + 1 = Len(log') /\ log' = log /\ target' = target /\ disk' = disk
      BY <1>1, <2>3
    <3> QED
      BY <2>9, <2>10, <3>1 DEF Doing
  <2> QED
    BY <2>10, <2>11 DEF FarInv
<1>5. CASE ~Broken
  <2>1. OnDisk(log, refused, target, disk, Len(log)) /\ status = "SUCCESS"
    BY <1>1, <1>5 DEF FarInv, Lost, Doing, Broken
  <2>2. refused' = refused
    BY <1>1, <1>5 DEF Refused, Broken
  <2>3. status' = "SUCCESS" /\ ~Doing'
    BY <1>1, <1>5, <2>1 DEF Doing
  <2>4. OnDisk(log', refused', target', disk', Len(log'))
    BY <1>1, <2>1, <2>2
  <2>5. pc' # "entry" /\ pc' # "next"
    BY <1>1
  <2> QED
    BY <2>3, <2>4, <2>5 DEF FarInv
<1> QED
  BY <1>3, <1>4, <1>5

(* A file is opened, or the next one is.                                   *)
LEMMA FilesFar ==
  ASSUME XmlTypes, target = "device" \/ files = 1, Lost \/ FarInv, OpenFile \/ NextFile
  PROVE  Lost' \/ FarInv'
<1>1. /\ pc \in {"open", "between"} /\ pc' \in {"next", "done", "between", "open"}
      /\ UNCHANGED <<disk, target, log, refused>>
      /\ pc = "open" => \/ status' = "SUCCESS"
                        \/ ~patching /\ status' = "FAULT" /\ pc' = "done" /\ patching' = patching
                        \/ pc' = "between" /\ status' = status
      /\ pc = "between" => /\ status' = status /\ ~patching' /\ pc' # "between" /\ pc' # "next"
                           /\ pc' = "open" => nth < files
  BY Zenon DEF OpenFile, NextFile
<1>2. nth \in 1 .. files /\ files \in Nat
  BY DEF XmlTypes
<1>3. CASE Lost
  BY <1>1, <1>2, <1>3 DEF Lost
<1>4. CASE FarInv
  <2>1. OnDisk(log, refused, target, disk, Len(log)) /\ status = "SUCCESS"
    BY <1>1, <1>4 DEF FarInv, Doing
  <2>2. OnDisk(log', refused', target', disk', Len(log'))
    BY <1>1, <2>1
  <2>3. CASE status' = "SUCCESS"
    BY <1>1, <2>2, <2>3 DEF FarInv, Doing, Broken
  <2>4. CASE status' # "SUCCESS"
    BY <1>1, <2>1, <2>4 DEF Lost
  <2> QED
    BY <2>3, <2>4
<1> QED
  BY <1>3, <1>4

(* A program command is done, or fails.                                    *)
LEMMA EntryFar ==
  ASSUME XmlTypes, LastInv, Numbers(disk), Lost \/ FarInv, NoSparse,
         target = "device" \/ ~failed',
         ProgramPartitionEntry, UNCHANGED rawVars
  PROVE  Lost' \/ FarInv'
<1>1. /\ pc = "entry" /\ UNCHANGED <<target, patching, log, refused>>
  BY DEF ProgramPartitionEntry, EntryCopied, EntryFails, ChunkWritten, ChunkFill, ChunkFails,
         ChunksEnd, Plain, Sparse, rawVars
<1>2. PICK c : c = log[Len(log)].c
  OBVIOUS
<1>3. /\ ~patching /\ c \in Programs /\ entry = EntryFor(c) /\ Len(log) \notin refused
      /\ OnDisk(log, refused, target, disk, Len(log) - 1)
  BY <1>1, <1>2 DEF Lost, FarInv, Doing
<1>4. entry.file.kind # "sparse"
  <2>1. c.file.kind # "sparse" /\ NoFile.kind # "sparse"
    <3>1. Len(log) \in 1 .. Len(log)
      <4>1. log # <<>> /\ log \in Seq(Entries)
        BY <1>1 DEF LastInv, XmlTypes
      <4> QED
        BY <4>1
    <3> QED
      BY <1>2, <3>1 DEF NoSparse, NoFile, File
  <2>2. entry.file \in {c.file, NoFile}
    BY <1>3 DEF EntryFor
  <2> QED
    BY <2>1, <2>2
<1>5. CASE EntryFails
  <2>1. status' = "FAULT" /\ pc' = "next"
    BY <1>5 DEF EntryFails, Unnoticed
  <2> QED
    BY <1>1, <1>3, <2>1 DEF Lost
<1>6. CASE EntryCopied
  <2>1. /\ entry.file.kind # "missing" /\ status' = "SUCCESS" /\ pc' = "next"
        /\ disk' = Written(disk, entry, entry.lun, SectorsToWrite(entry))
    BY <1>6 DEF EntryCopied
  <2>2. PICK m \in Nat : m + 1 = Len(log)
    <3>1. log # <<>> /\ log \in Seq(Entries)
      BY <1>1 DEF LastInv, XmlTypes
    <3>2. Len(log) - 1 \in Nat /\ (Len(log) - 1) + 1 = Len(log)
      BY <3>1
    <3> QED
      BY <3>2
  <2>3. OnDisk(log, refused, target, disk, m) /\ log[m + 1].c = c
    BY <1>2, <1>3, <2>2
  <2>4. ASSUME NEW n \in 0 .. Luns, NEW k \in 0 .. DiskSectors - 1
        PROVE  Says(log, refused, target, n, k, m + 1, disk'[n][k])
    <3>1. disk'[n][k] = IF Covers(c, n, k) THEN HeldBy(c, k) ELSE disk[n][k]
      BY <1>3, <2>1, CommandCopied DEF XmlTypes, Numbers
    <3>0. CoversOn(target, log[m + 1].c, n, k) <=> Covers(c, n, k)
      BY <2>3, CoversHere
    <3>2. CASE Covers(c, n, k)
      <4>1. HeldBy(c, k) \in Int
        BY <1>3, ProgramsMean
      <4>2. Says(log, refused, target, n, k, m + 1, HeldBy(log[m + 1].c, k))
        BY <2>3, <3>0, <3>2, <4>1, SaysCovered
      <4> QED
        BY <2>3, <3>1, <3>2, <4>2
    <3>3. CASE ~Covers(c, n, k)
      <4>1. PICK v : v = disk[n][k]
        OBVIOUS
      <4>2. v \in Int /\ Says(log, refused, target, n, k, m, v)
        BY <2>3, <4>1 DEF Numbers, OnDisk
      <4>3. ~Changing(log, refused, target, n, k, m + 1)
        <5>1. c.kind = "program"
          BY <1>3, ProgramsTyped DEF ProgramType
        <5> QED
          BY <2>3, <5>1 DEF Changing
      <4>4. Says(log, refused, target, n, k, m + 1,
                 IF Changing(log, refused, target, n, k, m + 1) THEN v + 100 ELSE v)
        BY <2>3, <3>0, <3>3, <4>2, SaysNext
      <4> QED
        BY <3>1, <3>3, <4>1, <4>3, <4>4
    <3> QED
      BY <3>2, <3>3
  <2>5. OnDisk(log, refused, target, disk', m + 1)
    BY <2>4 DEF OnDisk
  <2>6. OnDisk(log', refused', target', disk', Len(log'))
    BY <1>1, <2>2, <2>5
  <2> QED
    BY <2>1, <2>6 DEF FarInv, Doing, Broken
<1> QED
  BY <1>4, <1>5, <1>6 DEF ProgramPartitionEntry, ChunkWritten, ChunkFill, ChunkFails, ChunksEnd, Sparse

LEMMA InitFar == Init => SoFarInv
<1> SUFFICES ASSUME Init, tool = "xml" PROVE FarInv
  BY DEF SoFarInv
<1>1. /\ pc = "open" /\ status = "SUCCESS" /\ log = <<>>
      /\ disk = [n \in 0 .. Luns |-> [k \in 0 .. DiskSectors - 1 |-> Blank]]
  BY DEF Init, RawInit
<1>2. OnDisk(log, refused, target, disk, 0)
  <2>1. ASSUME NEW n \in 0 .. Luns, NEW k \in 0 .. DiskSectors - 1
        PROVE  Says(log, refused, target, n, k, 0, disk[n][k])
    <3>1. disk[n][k] = Blank
      BY <1>1
    <3> QED
      BY <3>1, SaysBlank
  <2> QED
    BY <2>1 DEF OnDisk
<1>3. Len(log) = 0
  BY <1>1
<1> QED
  BY <1>1, <1>2, <1>3 DEF FarInv, Doing

LEMMA NextFar == SoFarInv /\ XmlInv /\ TypedInv /\ [Next]_vars => SoFarInv'
<1> SUFFICES ASSUME SoFarInv, XmlInv, TypedInv, [Next]_vars, tool' = "xml",
                    (target = "device" \/ (files = 1 /\ ~failed))', NoSparse'
             PROVE  Lost' \/ FarInv'
  BY DEF SoFarInv
<1>1. tool = "xml"
  BY DEF Next, vars
<1>2. Numbers(disk) /\ XmlTypes /\ LastInv
  BY <1>1 DEF TypedInv, XmlInv
<1>3. CASE RawNext
  <2>1. target' = target /\ files' = files /\ (failed => failed')
    <3>1. CASE OpenFile \/ ProgramCommand \/ PatchCommand \/ OtherCommand \/ NoCommand
      <4>1. target' = target /\ files' = files
        BY <3>1 DEF OpenFile, ProgramCommand, PatchCommand, OtherCommand, NoCommand, Reads, entryVars
      <4>2. failed' = failed \/ failed' = TRUE
        BY <3>1 DEF OpenFile, ProgramCommand, PatchCommand, OtherCommand, NoCommand, entryVars
      <4>3. (failed' = failed => (failed => failed')) /\ (failed' = TRUE => (failed => failed'))
        OBVIOUS
      <4> QED
        BY <4>1, <4>2, <4>3
    <3>2. CASE FileEnds \/ NextFile
      <4>1. target' = target /\ files' = files /\ failed' = failed
        BY <3>2 DEF FileEnds, NextFile
      <4> QED
        BY <4>1, Zenon
    <3>3. CASE ProgramPartitionEntry /\ UNCHANGED rawVars
      <4>1. target' = target /\ files' = files
        BY <3>3 DEF ProgramPartitionEntry, EntryCopied, EntryFails, ChunkWritten, ChunkFill,
                    ChunkFails, ChunksEnd, rawVars
      <4>2. CASE EntryCopied \/ EntryFails \/ ChunkWritten \/ ChunkFill \/ ChunksEnd
        <5>1. failed' = failed \/ failed' = TRUE
          BY <4>2 DEF EntryCopied, EntryFails, ChunkWritten, ChunkFill, ChunksEnd
        <5>2. (failed' = failed => (failed => failed')) /\ (failed' = TRUE => (failed => failed'))
          OBVIOUS
        <5> QED
          BY <4>1, <5>1, <5>2
      <4>3. CASE ChunkFails
        <5>1. failed' = (failed \/ chunk.type # "unknown")
          BY <4>3, Zenon DEF ChunkFails
        <5> QED
          BY <4>1, <5>1, Zenon
      <4> QED
        BY <3>3, <4>2, <4>3 DEF ProgramPartitionEntry
    <3> QED
      BY <1>3, <3>1, <3>2, <3>3 DEF RawNext
  <2>2. target = "device" \/ (files = 1 /\ ~failed)
    BY <2>1
  <2>3. NoSparse
    <3>1. log' = log \/ \E x : log' = Append(log, x)
      BY <1>3 DEF RawNext, OpenFile, ProgramCommand, PatchCommand, OtherCommand, NoCommand,
                  FileEnds, NextFile, Reads, rawVars
    <3>2. log \in Seq(Entries)
      BY <1>2 DEF XmlTypes
    <3>3. CASE log' = log
      BY <3>3 DEF NoSparse
    <3>4. ASSUME NEW x, log' = Append(log, x) PROVE NoSparse
      <4>1. \A m \in 1 .. Len(log) : m \in 1 .. Len(log') /\ log'[m] = log[m]
        BY <3>2, <3>4
      <4> QED
        BY <4>1 DEF NoSparse
    <3> QED
      BY <3>1, <3>3, <3>4
  <2>4. Lost \/ FarInv
    BY <1>1, <2>2, <2>3 DEF SoFarInv
  <2> QED
    BY <1>2, <1>3, <2>2, <2>1, <2>3, <2>4, FilesFar, ProgramFar, CommandFar, EndsFar, EntryFar DEF RawNext
<1>4. CASE UNCHANGED vars
  <2>1. /\ UNCHANGED <<pc, entry, disk, status, target, files, nth, patching, log, refused>>
        /\ target = "device" \/ (files = 1 /\ ~failed)
    BY <1>4 DEF vars, entryVars, rawVars
  <2>2. Lost \/ FarInv
    <3>1. NoSparse
      BY <2>1 DEF NoSparse
    <3> QED
      BY <1>1, <2>1, <3>1 DEF SoFarInv
  <2>3. Lost => Lost'
    BY <2>1 DEF Lost
  <2>4. (Doing <=> Doing') /\ (Broken <=> Broken')
    BY <2>1 DEF Doing, Broken
  <2>5. OnDisk(log', refused', target', disk', IF Doing' THEN Len(log') - 1 ELSE Len(log'))
          <=> OnDisk(log, refused, target, disk, IF Doing THEN Len(log) - 1 ELSE Len(log))
    BY <2>1, <2>4
  <2>6. ASSUME NEW c PROVE EntryFor(c)' = EntryFor(c)
    BY <2>1 DEF EntryFor, Evaluate, Known
  <2>7. FarInv => FarInv'
    BY <2>1, <2>4, <2>5, <2>6 DEF FarInv
  <2> QED
    BY <2>2, <2>3, <2>7
<1> QED
  BY <1>1, <1>3, <1>4 DEF Next

(* What the last command that covers a sector says is what CommandsDone    *)
(* asks for.                                                               *)
LEMMA AllDone == SoFarInv /\ XmlInv => CommandsDone
<1> SUFFICES ASSUME SoFarInv, XmlInv, Reporting, pc = "done", status = "SUCCESS", NoSparse,
                    NEW n \in 0 .. Luns, NEW k \in 0 .. DiskSectors - 1
             PROVE  LET covering == {m \in 1 .. Len(log) : Covers(log[m].c, n, k)}
                        last == Max(covering \union {0})
                        c == log[last].c
                        held == IF last = 0 THEN Blank
                                ELSE Data(c, Max({c.from, 0}) + k - Meant(c.at))
                    IN  disk[n][k] = held + 100 * Cardinality(PatchesOf(n, k, last))
  BY DEF CommandsDone
<1>1. /\ OnDisk(log, refused, target, disk, Len(log))
      /\ log \in Seq(Entries) /\ Len(log) \in Nat
  <2>1. tool = "xml"
    BY DEF XmlInv, Reporting
  <2>2. Lost \/ FarInv
    BY <2>1 DEF SoFarInv, Reporting
  <2> QED
    BY <2>1, <2>2 DEF XmlInv, FarInv, Lost, Doing, XmlTypes
<1>2. PICK b \in 0 .. Len(log), h \in Int :
        /\ Base(log, target, n, k, b, h)
        /\ \A l \in b + 1 .. Len(log) : ~CoversOn(target, log[l].c, n, k)
        /\ disk[n][k] = h + 100 * Cardinality(Between(log, refused, target, n, k, b, Len(log)))
  BY <1>1 DEF OnDisk, Says
<1> DEFINE covering == {m \in 1 .. Len(log) : Covers(log[m].c, n, k)}
<1>3. b \in covering \union {0} /\ \A y \in covering \union {0} : b >= y
  BY <1>1, <1>2, CoversHere DEF Base
<1>4. Max(covering \union {0}) = b
  <2>1. covering \union {0} \subseteq Int
    OBVIOUS
  <2> HIDE DEF covering
  <2>2. \A x \in covering \union {0} : (\A y \in covering \union {0} : x >= y) => x = b
    BY <1>3, <2>1
  <2> QED
    BY <1>3, <2>2 DEF Max
<1>5. PatchesOf(n, k, b) = Between(log, refused, target, n, k, b, Len(log))
  BY DEF PatchesOf, Between, Changing
<1>6. ASSUME b # 0
      PROVE  h = Data(log[b].c, Max({log[b].c.from, 0}) + k - Meant(log[b].c.at))
  <2>1. Covers(log[b].c, n, k) /\ h = HeldBy(log[b].c, k)
    BY <1>2, <1>6, CoversHere DEF Base
  <2>2. log[b].c \in Programs
    <3>1. log[b].c \in Programs \union Patches \union Others
      <4>1. log[b] \in Entries
        BY <1>1, <1>2, <1>6
      <4> QED
        BY <4>1, Zenon DEF Entries
    <3>2. log[b].c.kind = "program"
      BY <2>1 DEF Covers
    <3> QED
      BY <3>1, <3>2, PatchesTyped, OthersTyped
  <2>3. log[b].c.from \in {Absent, 0, 1}
    BY <2>2, ProgramsMean
  <2>4. Max({log[b].c.from, 0}) = Begun(log[b].c)
    <3>1. ASSUME NEW f \in {-1, 0, 1} PROVE Max({f, 0}) = IF f = -1 THEN 0 ELSE f
      <4>1. PICK g : g = IF f = -1 THEN 0 ELSE f
        OBVIOUS
      <4>2. g \in {f, 0} /\ (\A y \in {f, 0} : g >= y)
        BY <4>1
      <4>3. \A x \in {f, 0} : (\A y \in {f, 0} : x >= y) => x = g
        BY <4>1
      <4> QED
        BY <4>1, <4>2, <4>3 DEF Max
    <3> QED
      BY <2>3, <3>1 DEF Begun, Absent
  <2> QED
    BY <2>1, <2>4 DEF HeldBy
<1>7. CASE b = 0
  BY <1>2, <1>4, <1>5, <1>7 DEF Base
<1>8. CASE b # 0
  BY <1>2, <1>4, <1>5, <1>6, <1>8
<1> QED
  BY <1>7, <1>8

(* ProgramImage and its callers: when an invocation that is reported on    *)
(* ends well (on a local disk, if nothing failed as well), and none of its *)
(* programs is of a sparse file, each sector holds what the last command   *)
(* that covers it says (zeros on a local disk cover the rest of the        *)
(* writer's buffer) and every patch behind that has been done, and no      *)
(* other sector is touched, however many files and commands there are.     *)
THEOREM CommandsHeld == Spec => []CommandsDone
<1>1. Init => SoFarInv /\ XmlInv /\ TypedInv /\ IInv /\ ImageInv
  BY InitFar, InitXml, InitTyped, InitInv, InitImage
<1>2. SoFarInv /\ XmlInv /\ TypedInv /\ IInv /\ ImageInv /\ [Next]_vars
        => SoFarInv' /\ XmlInv' /\ TypedInv' /\ IInv' /\ ImageInv'
  BY NextFar, NextXml, NextTyped, NextInv, NextImage
<1>3. SoFarInv /\ XmlInv => CommandsDone
  BY AllDone
<1> QED
  BY <1>1, <1>2, <1>3, PTL DEF Spec
=============================================================================
