------------------------------ MODULE FfuImage ------------------------------
(***************************************************************************)
(* A full flash update image (src/src/ffu.cpp), written to the device      *)
(* directly, or split into a rawprogram file of program entries which      *)
(* Partition::ProgramImage (src/src/partition.cpp) then programs.          *)
(*                                                                         *)
(* Both are DumpRawProgram: it gathers consecutive blocks into runs, cut   *)
(* where a partition ends, and hands each to WriteDataEntry.               *)
(***************************************************************************)
EXTENDS PartitionImage

CONSTANTS
  Blocks,       \* blocks of the disk that an image has data for
  BlockSectors,
  Descriptors,  \* descriptors of a store, at most
  Stores,       \* stores of an image, at most
  Lbas,         \* first and last sectors of the partition in its table
  Chunk,        \* sectors that WriteDataEntry reads at once
  First         \* of the payload, in the file

ASSUME FfuAssumption ==
  /\ Blocks \subseteq Nat /\ Lbas \subseteq Nat
  /\ {BlockSectors, Descriptors, Stores, Chunk} \subseteq Nat \ {0} /\ First \in Nat

(* An image is made for its device: there are disks for its stores, with   *)
(* room for the blocks and for the one at the end behind them.             *)
ASSUME FfuFits ==
  /\ Stores <= Luns + 1 /\ BlockSectors <= DiskSectors
  /\ \A b \in Blocks : (b + 2) * BlockSectors <= DiskSectors

VARIABLES
  split,        \* is it split, or written directly?
  image,        \* stores: [blocks: locations of each descriptor, gpt, lun]
  store, i, j,  \* store, descriptor, location; from 1
  pending, next, count, start, cut, at,   \* of DumpRawProgram
  todo,         \* runs given to WriteDataEntry
  xml           \* entries of the rawprogram file

run == <<pending, next, count, start, cut, at>>
ffuVars == <<split, image, store, i, j, run, todo, xml>>

End == -1       \* location: at the end of the disk (DISK_END)
None == <<>>

(* Images: every block from one place; only the first descriptor may have  *)
(* two, of which one is the end.                                           *)
StoresOf(n) ==
  {s \in [1 .. n -> {<<b>> : b \in Blocks \union {End}} \union {<<b, End>> : b \in Blocks}] :
     /\ \A k \in 2 .. n : Len(s[k]) = 1
     /\ \A k, l \in 1 .. n : s[k][1] = s[l][1] => k = l}
(* (A partition of one sector is never found: GetPartition.)               *)
Tables == {None} \union {p \in Lbas \X Lbas : p[1] < p[2]}

(* The first sector of a store's payload: one behind the other.            *)
PayloadDataStart[s \in 1 .. Len(image)] ==
  IF s = 1 THEN First
  ELSE PayloadDataStart[s - 1] + BlockSectors * Len(image[s - 1].blocks)

Ffu == File("raw", PayloadDataStart[Len(image)]
                   + BlockSectors * Len(image[Len(image)].blocks), <<>>)

Fresh ==
  /\ store = 1 /\ i = 1 /\ j = 1
  /\ pending = FALSE /\ next = 0 /\ count = 0 /\ start = 0 /\ cut = None /\ at = 0
  /\ todo = <<>> /\ xml = <<>>

(* MapLunFromGuid: stores come in the order of their disks, but the last   *)
(* may have a GUID that is not known, and then a number that no disk has   *)
(* (the check for it compares an unsigned number with 0).  -ffu is not for *)
(* a local disk.                                                           *)
Unknown == Luns + 1

FfuInit ==
  /\ split \in BOOLEAN /\ (split \/ target = "device")
  /\ \E n \in 1 .. Stores, g \in Tables, m \in 1 .. Descriptors :
       \E b \in StoresOf(m), c \in StoresOf(1), stray \in {0, n} :
         image = [s \in 1 .. n |-> [blocks |-> IF s = n THEN b ELSE c, gpt |-> g,
                                   lun |-> IF s = stray THEN Unknown ELSE s - 1]]
  /\ Fresh /\ pc = "gpt"

-----------------------------------------------------------------------------
(* GetPartition; the last sector of a partition is not found in it.        *)
GetPartition(sector) ==
  LET g == image[store].gpt
  IN  IF g # None /\ sector >= g[1] /\ sector < g[2] THEN g ELSE None

blocks == image[store].blocks

(* The run of blocks from start up to descriptor upTo, and the block that  *)
(* goes to the end: the first one of the run (mutated: up to one more).    *)
RunOf(from, to, num) ==
  [file |-> Ffu, from |-> PayloadDataStart[store] + from * BlockSectors,
   at |-> to, num |-> num * BlockSectors, lun |-> image[store].lun]
LongRun(upTo) == IF pending THEN <<RunOf(start, at, upTo + 1 - start)>> ELSE <<>>
Run(upTo) == IF pending THEN <<RunOf(start, at, upTo - start)>> ELSE <<>>

ReadGPT ==
  /\ pc = "gpt" /\ todo = <<>> /\ pc' = "blocks"
  /\ i' = 1 /\ j' = 1
  /\ pending' = FALSE /\ next' = 0 /\ count' = 0 /\ start' = 0 /\ cut' = None /\ at' = 0
  /\ UNCHANGED <<split, image, store, todo, xml, target, entry, disk, status, failed>>

ReadGPTFails ==
  /\ pc = "gpt" /\ todo = <<>> /\ pc' = "done" /\ status' = "FAULT" /\ failed' = TRUE
  /\ UNCHANGED <<ffuVars, target, entry, disk>>

(* A location in the disk goes on with the run or begins one ...           *)
Dumping == pc = "blocks" /\ todo = <<>> /\ i <= Len(blocks)

LocationBegin ==
  /\ Dumping /\ j <= Len(blocks[i]) /\ blocks[i][j] # End
  /\ LET b == blocks[i][j]
         sector == b * BlockSectors
     IN  /\ IF b # next \/ ~pending \/ (cut # None /\ sector > cut[2])
            THEN /\ todo' = Run(count)
                 /\ at' = sector /\ start' = count
                 /\ cut' = GetPartition(sector) /\ pending' = TRUE
            ELSE UNCHANGED <<todo, at, start, cut, pending>>
         /\ next' = b + 1
  /\ j' = j + 1
  /\ UNCHANGED <<entryVars, split, image, store, i, count, xml>>

(* ... one at the end of the disk ends the run.                            *)
LocationEnd ==
  /\ Dumping /\ j <= Len(blocks[i]) /\ blocks[i][j] = End
  /\ todo' = Run(IF i = 1 THEN 1 ELSE i - 1) \o <<RunOf(start, -BlockSectors, 1)>>
  /\ at' = -BlockSectors /\ pending' = FALSE
  /\ j' = j + 1
  /\ UNCHANGED <<entryVars, split, image, store, i, next, count, start, cut, xml>>

NextDescriptor ==
  /\ Dumping /\ j > Len(blocks[i])
  /\ i' = i + 1 /\ j' = 1 /\ count' = count + 1
  /\ UNCHANGED <<entryVars, split, image, store, pending, next, start, cut, at, todo, xml>>

(* What is pending is written, and the next store is dumped, or the file   *)
(* is closed, whose further entries have no file name and do nothing.      *)
StoreEnds ==
  /\ pc = "blocks" /\ todo = <<>> /\ i > Len(blocks)
  /\ todo' = Run(count)
  /\ IF store < Len(image) THEN store' = store + 1 /\ pc' = "gpt"
     ELSE UNCHANGED store /\ pc' = IF split THEN "next" ELSE "last"
  /\ UNCHANGED <<split, image, i, j, run, xml, target, entry, disk, status, failed>>

-----------------------------------------------------------------------------
(* WriteDataEntry: the run is written in pieces; a failing write loses its *)
(* piece, a failing read the rest.  DumpRawProgram ignores its status.     *)
WriteDataEntry ==
  /\ ~split /\ todo # <<>>
  /\ LET r == Head(todo)
         n == IF r.num < Chunk THEN r.num ELSE Chunk
         rest == [r EXCEPT !.from = @ + n, !.at = @ + n, !.num = @ - n]
     IN  /\ \/ Accepted(r, r.lun, n) /\ disk' = Written(disk, r, r.lun, n) /\ UNCHANGED failed
            \/ n = 0 /\ UNCHANGED <<disk, failed>>
            \/ n > 0 /\ failed' = TRUE /\ UNCHANGED disk
         /\ todo' = IF rest.num = 0 THEN Tail(todo) ELSE <<rest>> \o Tail(todo)
  /\ UNCHANGED <<split, image, store, i, j, run, xml, target, pc, entry, status>>

WriteDataEntryFails ==
  /\ ~split /\ todo # <<>> /\ Head(todo).num > 0
  /\ todo' = Tail(todo) /\ failed' = TRUE
  /\ UNCHANGED <<split, image, store, i, j, run, xml, target, pc, entry, disk, status>>

(* ... or the run becomes an entry of the rawprogram file.                 *)
AddEntryToRawProgram ==
  /\ split /\ todo # <<>>
  /\ \/ xml' = Append(xml, Head(todo)) /\ UNCHANGED failed
     \/ failed' = TRUE /\ UNCHANGED xml
  /\ todo' = Tail(todo)
  /\ UNCHANGED <<split, image, store, i, j, run, target, pc, entry, disk, status>>

(* Partition::ProgramImage: entry by entry.  A start from the end was      *)
(* printed as an expression and is evaluated with the sectors known        *)
(* (mutated: as if none were).                                             *)
FromZero(sector) == IF sector < 0 THEN DiskSectors - 1 + sector ELSE sector
ParseXMLEvaluate(sector) == IF sector < 0 THEN Known + sector ELSE sector

NextEntry ==
  /\ split /\ pc = "next" /\ todo = <<>> /\ status = "SUCCESS" /\ xml # <<>>
  /\ entry' = [Head(xml) EXCEPT !.at = ParseXMLEvaluate(@)]
  /\ xml' = Tail(xml) /\ pc' = "entry"
  /\ UNCHANGED <<split, image, store, i, j, run, todo, target, disk, status, failed>>

ImageEnds ==
  /\ todo = <<>>
  /\ \/ pc = "next" /\ (status # "SUCCESS" \/ xml = <<>>)
     \/ pc = "last"
  /\ pc' = "done"
  /\ UNCHANGED <<ffuVars, target, entry, disk, status, failed>>

FfuNext ==
  \/ ReadGPT \/ ReadGPTFails
  \/ LocationBegin \/ LocationEnd \/ NextDescriptor \/ StoreEnds
  \/ WriteDataEntry \/ WriteDataEntryFails \/ AddEntryToRawProgram
  \/ NextEntry \/ ImageEnds
  \/ ProgramPartitionEntry /\ UNCHANGED ffuVars

-----------------------------------------------------------------------------
(* An image whose reads and writes all succeed (DumpRawProgram ignores     *)
(* those of WriteDataEntry), and whose stores have the disk they are for,  *)
(* is there, written directly or split: every block of every store at its  *)
(* place, cut into runs as it may be, and nothing anywhere else.  A block  *)
(* that is for the end alone is not: what is written there is the first    *)
(* one of the last run.                                                    *)
Addressed ==
  \A s \in 1 .. Len(image) : image[s].lun = s - 1 /\ Where(s - 1) = s - 1
Places(s) == {p \in (1 .. Len(image[s].blocks)) \X {1, 2} : p[2] <= Len(image[s].blocks[p[1]])}
Place(s, p) == image[s].blocks[p[1]][p[2]]
Owed(s, p) ==
  Place(s, p) # End \/ (p[2] = 2 /\ \A q \in Places(s) : Place(s, q) = End => q = p)

BlocksPlaced ==
  pc = "done" /\ image # <<>> /\ Addressed /\ ~failed =>
    /\ status = "SUCCESS"
    /\ \A s \in 1 .. Len(image) :
         /\ \A p \in Places(s), k \in 0 .. BlockSectors - 1 : Owed(s, p) =>
              disk[s - 1][Resolved(Place(s, p) * BlockSectors) + k]
                = PayloadDataStart[s] + (p[1] - 1) * BlockSectors + k
         /\ \A n \in 0 .. DiskSectors - 1 : disk[s - 1][n] # Blank =>
              \E p \in Places(s), k \in 0 .. BlockSectors - 1 :
                n = Resolved(Place(s, p) * BlockSectors) + k
=============================================================================
