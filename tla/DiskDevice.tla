----------------------------- MODULE DiskDevice -----------------------------
(***************************************************************************)
(* The disks of the computer as src/src/diskwriter.cpp finds, opens and    *)
(* closes them: InitDiskList, OpenDevice, OpenDiskFile, CloseDevice.  Who  *)
(* calls them is the subject of CommandLine, what is written then that of  *)
(* DiskFastCopy.                                                           *)
(***************************************************************************)
EXTENDS Integers, FiniteSetsExt

CONSTANTS
  Drives,       \* numbers of physical disks
  Volumes       \* number of the last volume, 0 being the first

ASSUME DriveAssumption == Drives \subseteq Nat /\ Volumes \in Nat

NoDisk == -1    \* a volume that is on no disk: neither fixed nor removable

(* What hDisk may be beside the number of a disk.                          *)
Closed == -2
Image == -3       \* a file opened in its stead
Invalid == -4     \* INVALID_HANDLE_VALUE

VARIABLES
  volumes,      \* of each volume, the number of its disk
  disks,        \* of each disk, its first volume: volnum[0]
  mounted,      \* volumes that are mounted
  hDisk

diskVars == <<volumes, disks, mounted, hDisk>>

DiskInit ==
  /\ volumes \in [0 .. Volumes -> Drives \union {NoDisk}]
  /\ disks = [d \in Drives |-> 0]
  /\ mounted = 0 .. Volumes
  /\ hDisk = Invalid

VolumesOf(d) == {v \in 0 .. Volumes : volumes[v] = d}

(* The list of a disk's volumes ends with a 0: the first of none is 0.  A  *)
(* disk that cannot be looked at is listed like the others (mutated: one   *)
(* behind the first).                                                      *)
FirstButOne(d) == IF VolumesOf(d) = {} THEN 0 ELSE Min(VolumesOf(d)) + 1
First(d) == IF VolumesOf(d) = {} THEN 0 ELSE Min(VolumesOf(d))

(* Every disk is opened on the way and closed again, as far as it can be:  *)
(* the last one decides what the handle is.                                *)
InitDiskList ==
  /\ disks' = [d \in Drives |-> First(d)]
  /\ hDisk' \in {Closed, Invalid}
  /\ UNCHANGED <<volumes, mounted>>

(* One volume is dismounted, and not if its number is 0, which looks like  *)
(* the end of the list; it may also fail.                                  *)
Dismount(d) ==
  mounted' \in {mounted} \union IF disks[d] = 0 THEN {} ELSE {mounted \ {disks[d]}}

(* The status is ERROR_SUCCESS whether or not the disk could be opened.    *)
OpenDevice(d) ==
  /\ Dismount(d)
  /\ hDisk' \in {d, Invalid}
  /\ UNCHANGED <<volumes, disks>>

OpenDiskFile ==
  /\ hDisk' \in {Image, Invalid}
  /\ UNCHANGED <<volumes, disks, mounted>>

CloseDevice ==
  /\ hDisk' = IF hDisk = Invalid THEN Invalid ELSE Closed
  /\ UNCHANGED <<volumes, disks, mounted>>
=============================================================================
