--------------------------- MODULE PartitionImage ---------------------------
(***************************************************************************)
(* One entry written to a disk: Partition::ProgramPartitionEntry           *)
(* (src/src/partition.cpp) and, for a sparse file, SparseImage             *)
(* (src/src/sparse.cpp).  FfuImage and PartitionTable say which entries.   *)
(*                                                                         *)
(* The unit is the sector.  What a sector of a file holds is its number;   *)
(* of a sparse file, its number in the expanded image.  How FastCopy and   *)
(* WriteData bring sectors to a disk is the subject of FirehoseTransfer    *)
(* and DiskFastCopy; here each is a step that succeeds or fails.           *)
(***************************************************************************)
EXTENDS Integers, Sequences

CONSTANTS
  DiskSectors,  \* sectors of each disk (physical partition)
  Luns,         \* number of the last disk, 0 being the first
  Buffer,       \* sectors of the disk writer's buffer
  Word          \* sectors of 4 GB

ASSUME DiskAssumption ==
  /\ DiskSectors \in Nat \ {0} /\ Luns \in Nat
  /\ Buffer \in Nat \ {0} /\ Word \in Nat \ {0}

Blank == -1     \* what nobody has written
Junk  == -2     \* what is sent behind the end of a file
Zero  == -3

VARIABLES
  target,       \* "device" (Firehose), or "disk": one disk of the computer
  pc,           \* "entry" is here; the rest is for the callers
  entry,        \* [file, from, at, num, lun], at as yet unresolved
  disk,         \* by disk and sector; of a computer's disk, disk 0
  status,
  failed        \* history: has a read or a write failed?

entryVars == <<target, pc, entry, disk, status, failed>>

(* A file: "raw", "sparse", "missing" or, by its name, "ZERO".             *)
File(kind, sectors, chunks) == [kind |-> kind, sectors |-> sectors, chunks |-> chunks]

(* The disk writer has one disk and looks at no partition number.          *)
Where(lun) == IF target = "disk" THEN 0 ELSE lun

(* The sectors of an image's expressions: a device's are not known.        *)
Known == IF target = "device" THEN 0 ELSE DiskSectors

(* Zeros on a local disk: the last buffer is written whole.                *)
WholeBuffers(n) == IF n % Buffer = 0 THEN n ELSE n + Buffer - (n % Buffer)

(* Sectors to write: no more than the file has, its offset not considered; *)
(* 0 is for the whole file, and -1, for a number that was not given, wins  *)
(* over every file.                                                        *)
SectorsToWrite(e) ==
  IF e.file.kind = "raw"
  THEN IF e.file.sectors <= e.num \/ e.num = 0 THEN e.file.sectors ELSE e.num
  ELSE IF e.file.kind = "ZERO" /\ target = "disk" /\ e.num > 0 THEN WholeBuffers(e.num)
  ELSE e.num

(* The device or the disk writer takes a negative sector from the end.     *)
Resolved(at) == IF at < 0 THEN DiskSectors + at ELSE at

(* Is there a disk, and on a local one room, for num sectors?  (What of it *)
(* reaches behind the end of a device's disk is the device's to refuse, or *)
(* drop.)                                                                  *)
Accepted(e, lun, num) ==
  /\ Where(lun) \in 0 .. Luns
  /\ target = "disk" => Resolved(e.at) + num <= DiskSectors

Data(e, k) ==
  IF e.file.kind = "ZERO" THEN Zero
  ELSE IF k < e.file.sectors THEN k ELSE Junk

(* disk d, with num sectors of e written to lun.                           *)
Written(d, e, lun, num) ==
  [d EXCEPT ![Where(lun)] = [k \in DOMAIN @ |->
     IF k - Resolved(e.at) \in 0 .. num - 1
     THEN Data(e, e.from + k - Resolved(e.at)) ELSE @[k]]]

-----------------------------------------------------------------------------
Plain == pc = "entry" /\ entry.file.kind # "sparse"

(* On a local disk the end of the file ends a copy.                        *)
InFile(e) ==
  target = "disk" /\ e.file.kind = "raw" => e.from + SectorsToWrite(e) <= e.file.sectors

EntryCopied ==
  /\ Plain /\ entry.file.kind # "missing" /\ InFile(entry)
  /\ SectorsToWrite(entry) >= 0 /\ Accepted(entry, entry.lun, SectorsToWrite(entry))
  /\ disk' = Written(disk, entry, entry.lun, SectorsToWrite(entry))
  /\ status' = "SUCCESS" /\ pc' = "next"
  /\ UNCHANGED <<target, entry, failed>>

(* How far a copy that fails may have come: one without end to the end of  *)
(* its file, or of the disk.                                               *)
Reached ==
  IF Where(entry.lun) \notin 0 .. Luns THEN {0}
  ELSE IF SectorsToWrite(entry) < 0 THEN {0, entry.file.sectors, DiskSectors}
  ELSE IF InFile(entry) THEN {0, SectorsToWrite(entry) \div 2}
  ELSE {0, entry.file.sectors - entry.from}

(* The file is missing, or FastCopy fails on the way.  The disk writer's   *)
(* does not notice when its last write, or only one, cannot start, nor     *)
(* when its last round reads less than a round.                            *)
Unnoticed == target = "disk" /\ entry.file.kind # "missing" /\ SectorsToWrite(entry) > 0

EntryFails ==
  /\ Plain
  /\ \E n \in Reached :
       disk' = IF entry.file.kind = "missing" \/ n = 0 THEN disk
               ELSE Written(disk, entry, entry.lun, n)
  /\ status' = "FAULT" \/ (Unnoticed /\ status' = "SUCCESS")
  /\ pc' = "next" /\ failed' = TRUE
  /\ UNCHANGED <<target, entry>>

-----------------------------------------------------------------------------
(* A sparse file is written chunk by chunk, always to disk 0, as far as it *)
(* goes.  WriteData may fail, and nobody looks at its status.  The chunks  *)
(* are the headers as they are read: at the end of a file that was cut     *)
(* short, the last one again and again.                                    *)
Sparse == pc = "entry" /\ entry.file.kind = "sparse"
chunk == Head(entry.file.chunks)

(* The size of a chunk, a 32-bit product.                                  *)
Size == chunk.size % Word

(* What is read next when a part of the chunk was not: no header.          *)
Unread(chunks) == IF chunks = <<>> THEN chunks ELSE <<[type |-> "unknown", size |-> 0]>>

(* The entry for the rest of the file (mutated: at the same place).        *)
BehindSame(e) == [e EXCEPT !.file.chunks = Tail(@), !.from = @ + chunk.size]
Behind(e) ==
  [file |-> File(e.file.kind, e.file.sectors,
                 IF chunk.type = "fill" \/ (chunk.type = "raw" /\ chunk.size # Size)
                 THEN Unread(Tail(e.file.chunks)) ELSE Tail(e.file.chunks)),
   from |-> e.from + chunk.size, at |-> e.at + Size, num |-> e.num, lun |-> e.lun]

ChunkWritten ==
  /\ Sparse /\ entry.file.chunks # <<>> /\ chunk.type \in {"raw", "dontcare"}
  /\ LET e == IF chunk.type = "raw" THEN entry
              ELSE [entry EXCEPT !.file.kind = "ZERO"]
     IN  \/ Accepted(e, 0, Size) /\ disk' = Written(disk, e, 0, Size) /\ UNCHANGED failed
         \/ failed' = TRUE /\ UNCHANGED disk
  /\ entry' = Behind(entry)
  /\ UNCHANGED <<target, pc, status>>

(* A fill chunk is skipped, but not its value in the file, which is then   *)
(* taken for a header and is none.                                         *)
ChunkFill ==
  /\ Sparse /\ entry.file.chunks # <<>> /\ chunk.type = "fill"
  /\ entry' = Behind(entry)
  /\ UNCHANGED <<target, pc, disk, status, failed>>

ChunkFails ==
  /\ Sparse /\ entry.file.chunks # <<>>
  /\ failed' = (failed \/ chunk.type # "unknown")
  /\ status' = IF chunk.type = "unknown" THEN "INVALID_DATA" ELSE "FAULT"
  /\ pc' = "next"
  /\ UNCHANGED <<target, entry, disk>>

ChunksEnd ==
  /\ Sparse /\ entry.file.chunks = <<>>
  /\ status' = "SUCCESS" /\ pc' = "next"
  /\ UNCHANGED <<target, entry, disk, failed>>

ProgramPartitionEntry ==
  \/ EntryCopied \/ EntryFails
  \/ ChunkWritten \/ ChunkFill \/ ChunkFails \/ ChunksEnd
=============================================================================
