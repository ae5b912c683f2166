# Verification of emmcdl

emmcdl is a Windows command line tool that talks to Qualcomm devices over a
serial link: it loads a flash programmer into a device that is in its boot
loader (Sahara or streaming download), lets the programmer read and write the
device's storage (Firehose), and can do the same to a local disk. It is one
thread; what makes it hard is the other side. The device runs at its own pace,
mixes logs with answers, refuses, falls silent, answers late, and nothing on the
link says which request an answer belongs to.

This directory holds TLA+ modules translated from the source, TLC runs on small
instances, and TLAPS proofs for all values of the constants. `PROJECT.json` maps
every definition to the lines it stands for.

## 1. Inventory

| component | source | state it keeps | operations | modules |
|---|---|---|---|---|
| serial port | `serialport.cpp`, `crc.cpp` | handle, timeout, HDLC buffer | Open, Read, Write, Flush, SetTimeout, SendSync with HDLC framing | SerialPort, Hdlc, FirehoseStream |
| Sahara | `sahara.cpp` | none between calls | ConnectToDevice, PblHack, ModeSwitch, LoadFlashProg, ReadData, DumpDeviceInfo, DumpDebugInfo | Sahara |
| streaming download | `dload.cpp` | connection state, answer buffers | IsDeviceInDload, LoadFlashProg, ConnectToFlashProg, OpenPartition, LoadImage, WriteRawProgramFile, FastCopySerial, CreateGPP, SetActivePartition, DeviceReset, ClosePartition | Dload, HexProgrammer |
| Firehose | `firehose.cpp` | `m_payload`, `m_buffer` with pointer and length, `dwMaxPacketSize` | ReadData (XML, raw), ReadStatus, ConnectToFlashProg, FastCopy, WriteData, ReadData, patches, raw commands, CreateGPP, SetActivePartition, DeviceReset | FirehoseStream, FirehoseTransfer, FirehoseSession |
| disk writer | `diskwriter.cpp` | disk handle, disk and volume lists | FastCopy (overlapped), WriteData, ReadData, InitDiskList, OpenDevice, OpenDiskFile, CloseDevice, UnmountVolume | DiskFastCopy, DiskDevice |
| protocol base class | `protocol.cpp` | partition table read last | ReadGPT, LoadPartitionInfo, WriteGPT, DumpDiskContents, WipeDiskContents | PartitionTable |
| partition XML | `partition.cpp`, `xmlparser.cpp` | the command that was read | PreLoadImage, GetNextXMLKey, ParseXMLKey, ParseXMLEvaluate, ProgramImage, ProgramPartitionEntry | RawProgram, PartitionImage |
| FFU images | `ffu.cpp` | headers, descriptor index | ProgramImage, FFUToRawProgram, SplitFFUBin | FfuImage |
| sparse images | `sparse.cpp` | header | PreLoadImage, ProgramImage | PartitionImage |
| command line | `emmcdl.cpp` | globals: port, protocol, configuration, the Firehose object | the options, one handler per command | CommandLine |

How they interact: emmcdl reads the options, opens the port, has Sahara or Dload
load the flash programmer, and calls a `Protocol` (Firehose or DiskWriter) whose
virtual FastCopy/WriteData/ReadData carry everything `Partition`, `FFUImage` and
`SparseImage` ask for. The two sides share nothing but the two byte streams of
the link; inside the tool, `m_payload` serves answers and payload alike,
`m_buffer` is shared by the XML reader and the raw reader, and `HDLCBuf` by a
request and its answer.

What is hard, component by component, and what makes it correct:

* **Reading the stream** (Firehose): an answer may be cut anywhere, is followed
  by payload in the same read, and is surrounded by logs. No byte may be lost
  between the readers, and an answer must be recognised as one.
* **Framing** (serial port): an answer may come late, with flags between frames,
  or be longer than the buffer, and lies in the buffer over the request.
* **Transfers**: command, answer, packets, final answer. Payload only to a
  device that expects it; a reported success means the sectors are there and
  the link is empty for the next command.
* **Session**: negotiation of the packet size with retries, commands given up
  after a timeout, answers that come afterwards.
* **Sahara**: is the hello there, lost, read before, or late? Boot loader and
  host must get in step; the image must arrive in the order the device asks.
* **Disk copy**: a write under way while the other buffer is filled.
* **Streaming download**: data gathered into chunks whose address is put together
  from two records; retries on a shared counter; statuses nobody looks at; the
  order of closing a partition and resetting the device.
* **Images and tables**: block lists, sector counts from file sizes,
  expressions over sector numbers, tables searched by name, commands that are
  refused in the middle of a file.
* **Command line**: fifteen handlers that set up the same objects in their own
  orders and treat the statuses of their steps in five different ways.

`PROJECT.json` lists the hazards at their lines. There is no recovery from
crashes to model: the tool keeps nothing between invocations, and what a device
keeps shows as its state at the start of a session.

## 2. Plan

All of what was planned is there: the Firehose modules over `BlockCopy`, the disk
copy as its second implementation and `Dload` as its third, `Sahara`, the images
and tables, then the HDLC framing (`Hdlc`), the programmer in hex records
(`HexProgrammer`), XML files with their expressions, patches and refusals
(`RawProgram`), dumps and sector ranges (`PartitionTable`), the disks
(`DiskDevice`) and the invocation as a whole (`CommandLine`). Section 7 says what
stays out.

Composition: `SerialPort` puts the two users of the port side by side, `Images`
the four ways of writing an image over `PartitionImage`, `Dload` extends
`HexProgrammer`, `CommandLine` extends `DiskDevice`. `BlockCopy` is the abstract
specification; the sessions have theirs as invariants (`OwnAnswer`: answers and
commands alternate).

Every safety property of the runs that pass is proved, the refinements of `BlockCopy` included;
liveness is model-checked (section 6).

## 3. What models what

**BlockCopy** is the promise of `Protocol::FastCopy`, `WriteData` and `ReadData`
(`inc/protocol.h`): blocks appear in the target in any order, SUCCESS is
reported only of a target that equals the source, a result is final.

**FirehoseStream** is `ReadStatus` over both modes of
`Firehose::ReadData(pOutBuf, dwBufSize, bXML)` over `SerialPort::Read`. A byte is
its position in the stream, so a buffer is an interval: `m_buffer_ptr` and
`m_buffer_len` are the code's. ACK, NAK and `</data>` are two units each and can
be cut apart. `CopyDocument` and `CopyAndRefill` are the two outcomes of a pass
of the reader's loop; `RawFromBuffer` and `RawFromPort` the two branches of the
raw mode; a port read that fails in the raw mode returns its error code as if it were a number of
bytes, which `RawFromPort` keeps. The link brings any prefix at any time; `whole` says that it brings
documents as the device wrote them and no read fails.

**Hdlc** is `SendSync` with `HDLCEncodePacket`, the loop that reads byte by byte,
and `HDLCDecodePacket`. A byte is a model value, one of which is the flag and one the
escape, and `Masked` is `^ ASYNC_HDLC_ESC_MASK`; a packet includes its checksum,
which the code sends and never looks at in an answer. `Looks` is where the decoder's pointer
is after so many rounds of its loop, `Seen` what one round appends. `HDLCBuf` has the request in
it when the answer comes. The decoder goes through as many bytes as the
frame has, and takes two at an escape: of an answer with escapes it takes bytes
from behind the frame (`serialport.cpp:207`; the comment at 151 promises the packet).
`AnswerWhole` says what remains true of it: the answer comes first, and there are no more
bytes behind it than were escaped. Other things the model has because the code does:
the room for the answer is compared with the frame, flags and escapes included
(203); an answer that is longer than the buffer comes back as one byte; a rest of
one byte of a late frame is taken for the start of the next.
**SerialPort** puts this and the stream side by side.

**FirehoseTransfer** is one call of FastCopy (from the start of a file, from the
middle, of zeros, to a file), WriteData or ReadData, against a device. The unit
is the sector and what a sector holds is where it was copied from; `m_payload`
also holds answers (`Junk`). Host actions follow the code from `SendCommand`
to `ReadFinal`. A raw read may fail at any time, with the link up or down: what was left in
`m_buffer` is in `m_payload`, the error code is added to `offset` as if so many bytes had
come, and the transfer goes on; what was not read is swallowed on the way to the final
answer, hides it, or is taken for it. `fault` remembers both, because SUCCESS then says
nothing of what was stored (`firehose.cpp:387`, `688`). A refused WriteData returns the status of
the command's write; that nothing was written shows in `*bytesWritten` only, which `Reported`
looks at and no caller does. The device takes or sends payload sector by sector, may refuse,
abort, or read payload it does not expect as a command. It refines `BlockCopy`.

**FirehoseSession** is `ConnectToFlashProg` and the commands of an invocation in
the order `emmcdl.cpp` issues them (`Script`), with what it does about their
statuses. Documents are atomic here (FirehoseStream is how one is read) and so
is a payload (FirehoseTransfer). The device may hold an answer from before, may
name a packet size with its refusal, and may answer after the host has given up.
Reading what is pending takes all that has arrived.

**DiskFastCopy** is `DiskWriter::FastCopy` without zlib: two buffers, one
overlapped write at a time, the disk taking its sectors one by one from the
buffer as it then is, so that a buffer refilled too early would show. A write may
complete at once, be pending, fail, or not start. Before zeros, `SetSparse` asks for
a sparse file, which may fail, or overwrite `bytesRead`: then every write is of no bytes. It refines
`BlockCopy`.

**Sahara** is `ConnectToDevice`, `PblHack`, `ModeSwitch`, `LoadFlashProg` and the
two dumps. The pipe is words and reads are of the code's sizes, so a misplaced
packet shifts what follows. The boot loader may not have booted, may have had its
hello read before, may lose one packet (the pipe reset that PblHack is for), asks
for the image in any order, finds fault with it, or goes away. Offsets and lengths are cut off
to 32 bits (`Word`), and only a request of 64 bits has its length compared with `dataBuf`
(`sahara.cpp:321`): one of 32 bits may read the file over the end of it (`overrun`), and from
then on the program may crash at any step. `early` records
that a read came back while the device still had something to say; without it
the 10 ms waits were long enough.

**HexProgrammer** is `IsDeviceInDload` and `LoadFlashProg`: records are read, data is
gathered into a chunk (`Gather`), and the chunk is written at the low part of its
first record's address with the upper part that was read last (`WriteChunk`). `meant`
is what the records say, `memory` what the device has. A gap in the data of a chunk is not noticed
(`dload.cpp:292`) and a file that breaks off has its last record taken again without
end (280): both make a file not `regular`.

**Dload** is `EDownloadProgram` and `CreateGPP` over the streaming protocol, or the
loading. Every exchange is a `SendSync`: `Ask` or `WriteBlock` sends, and what `Returns` decides what follows:
the next packet, whatever it answers; nothing in time; or a failure: of the port, with the
link down or for once, or because the packet is too long for the caller's buffer
(`serialport.cpp:203`), as the text of a refusal can be. A failure leaves the answer buffer `rsp` as it
was: a write is then counted by the answer to the one before (`dload.cpp:207`), and its sectors are
`doubtful`. `Unchecked` stands for the
exchanges whose outcome `emmcdl.cpp` ignores. The programmer may re-enumerate late, refuse
anything, answer late, flush when it likes, and loses what is not flushed when it is
reset. An XML file has one entry here: a file from its start, from its middle,
or zeros. Of an image, it refines `BlockCopy`. Offsets are in sectors in both
addressing modes; packets the device sends of its own accord are left out: they put
the exchanges out of step just as a late answer does.

**PartitionImage** is one entry written to a disk: `ProgramPartitionEntry` and, for
a sparse file, `SparseImage::ProgramImage` chunk by chunk. FastCopy and WriteData
are one step each here that succeeds or fails; the modules above are how they
work. The `target` is a device, with a disk per physical partition, or a disk of the computer, which is the only
one there is whatever partition is named (`Where`). What the code does is kept: the number of sectors is corrected by the size of
the file alone; one that is not given is -1, which wins over the size of every file, so that the copy has no end of its own and fails
on the way; zeros to a local disk end with a whole buffer (`WholeBuffers`, what `zero_overrun` shows in
detail); a copy that fails leaves what it had done (`Reached`), and on a local disk may report
success (`Unnoticed`: its last write could not start, or its last round was short). A sparse file
goes to disk 0, a fill chunk upsets what follows
(its value is taken not to be a chunk type), the size of a chunk is a product of 32 bits (`Size`), of which the place
in the file knows nothing, and a file that is cut short has its last header read again.

**FfuImage** is `DumpRawProgram`, one location of a descriptor per step, and
`WriteDataEntry`, which writes a run in pieces or adds it to a rawprogram
file. After a split the file's entries are programmed one by one, on a device,
which takes a negative start from the end of the disk, or on a local disk, whose
number of sectors the expression is evaluated with. An image is made of single
blocks with one location each; the first descriptor may also have the end of the
disk. That is what the code is written for: a descriptor with two locations
elsewhere, or the end alone behind other blocks, is written from the wrong block
(`dwStartBlock`, `ffu.cpp:519`, `528`), and a pending run without blocks would
become an entry for a whole file. (The end alone in the first descriptor is in the
model, and excepted by `Owed`: what gets there is the first block of the last run.) A store with a GUID that is
not known has a number that no disk has: the check for it (`ffu.cpp:484`) compares an unsigned number
with 0. A partition of one sector is never found, for its last sector is not taken to be in it.

**PartitionTable** is `LoadPartitionInfo` with `WriteGPT`, `WipeDiskContents` and
`DumpDiskContents`, by name (disk after disk is searched) or by sector. **RawProgram**
is `-x`: XML files of program, patch and other commands, one chosen at a time, each
file with its patch file (device) or without (disk). A start sector is an expression,
evaluated as `ParseXMLEvaluate` does it: the four operators are tried in
a fixed order, and each starts again from the first number. A command without `start_sector`, `physical_partition_number` or `filename`
is skipped in silence; without `num_partition_sectors` it is carried out with -1 for it; without `file_sector_offset` Firehose begins at 0 and the disk
writer at -1, which fails. Programs may be of sparse files, whatever the command says of their size. These three and FfuImage extend PartitionImage, and
**Images** is an invocation with one of them.

**DiskDevice** is the list of disks and volumes, and opening and closing a disk.
**CommandLine** is the whole of `emmcdl.cpp`: options in any order, the loading of the
programmer, and the command named last. A handler is a sequence of steps, each with what
becomes of its status: kept, ignored, or a reason to return. What a step does is in the modules
above; here it succeeds or not. Of the options, those are
kept that decide between steps, and two that set the size of a sector: `-disk_sector_size` and
`-MemoryName` (which sets both), since `ConnectToFlashProg` makes 4096 of 512 for ufs, spinor and nand
(`SectorSize`; a connection that fails may have got so far or not). The steps in `Careless` may fail in part and return
success all the same (`"unnoticed"`). `InitDiskList` and `CloseDevice` may leave the disk handle
invalid; what is done on such a handle need not fail, for FastCopy takes a missing source for
zeros and may not notice that its only write did not start.

## 4. Runs

| run | shows | bounds |
|---|---|---|
| serial | nothing is lost between the readers; an answer on whole documents is read to its end; requests can be read, answers come whole, and leave nothing behind; every call returns | the stream: a log, an ACK with payload, an ACK, a NAK, and a buffer shorter than it (5 of 19), so that it is refilled inside a document; framing: requests and answers with nothing and with everything to escape, an answer longer than the buffer (8), rooms smaller and larger than the frames (5, 8), 2 exchanges: one that is given up and one behind it |
| transfer | while no raw read fails six operations refine BlockCopy; success leaves the link empty, unless payload was taken for the final answer; a NAK stops a transfer; a call returns | up to 3 packets of 2 sectors, with short and full last packets; any raw read may fail, any number of times |
| session | buffers hold every negotiated size and both sides agree on it; answers are their command's; reported success is earned; the session ends | three packet sizes, both sides of the default; a file with two patches, twice; 2 retries |
| sahara | host and device get in step, the image is complete when reported, information is what it is called, every operation returns | 2 pieces, requests up to 3, 3 requests (repetition), a buffer of 1 so that a request can be too large, 3 for 4 GB, so that a length of 64 bits can be cut off to nothing; 2 of the 5 header reads |
| disk | the disk copy refines BlockCopy, leaves the buffer of a write alone, lands before it reports success | 1 to 6 sectors with 2 per buffer: none, one or both buffers in use, swapped back; files shorter than the copy; zeros to a sparse file and to any other |
| dload | what FastCopySerial counts is on the device, but for what is counted by an older answer, a device that answers in time is connected to, an image reported as loaded is complete if no SendSync failed, a programmer that is started is whole, the session ends | 2 XML files of 1 sector, an image of 3 in writes of 2 and 1, 2 connection attempts instead of 10: one of each kind or both hellos; one failure of the port while the link is up; hex files of up to 5 records, chunks of 2, segments of 3: a chunk that ends with the segment, in it, or across it |
| images | blocks of an image get to their places, written directly or split and programmed; a partition found by name is filled, zeroed or dumped, and is all that is written to, but for what zeros on a local disk add up to a buffer; XML commands are done in their order up to the one that is refused | up to 3 descriptors for 3 blocks of 2 sectors, one or two stores, partitions that end inside a block, at one or nowhere; reads of 3 sectors, so that pieces cross blocks; 2 disks of 8 sectors, or one disk with a buffer of 2, files shorter and longer than the partition, all sparse files of two chunks of 1, 2 or 4 sectors with 3 for 4 GB (so that one product wraps), whole and cut short; 3 commands in 2 files: one behind another, behind a patch file, in the next file |
| cmdline | the device is spoken to by an object that is connected and has the sector size asked for; a disk is touched only as `-p` says; for six commands success means that no step returned a failure | 4 options of the line in any order, 2 XML files, 2 disks with 3 volumes, 2 physical partitions of a device |
| seek_clears_nak | FastCopy from the middle of a file sends payload to a device that refused | |
| zero_overrun | writing zeros to a disk writes behind the range | |
| unknown_name | writing to a partition that no table has writes to sector 0 | |
| unopened_disk | a disk that cannot be opened is reported as worked on | |

The last four are disagreements between the code and what its comments, output
or conditions say; `PROJECT.json` quotes them under "findings". The properties of
the passing runs state what remains true there: `NakStopsTransfer` excepts
FastCopy from the middle of a file, `OwnAnswer` sessions in which a command was
given up (the next one takes its answer, `firehose.cpp:557`), `Copies` of the
disk the last round of zeros, `TrustedSuccess` the opening of the disk.

The exceptions, each of which the code may report as a success:

* `FirehoseTransfer!Copy`: a transfer one of whose raw reads failed, whose dump may be anything
  (`firehose.cpp:389`, `689`); `LinkLeftEmpty`: one in which payload was read as the final answer.
* `DiskFastCopy!Reported`: a file that ends inside a round, a last write that could not be
  started, and zeros to a sparse file, which are no bytes.
* `Sahara!TypeOK`: a payload over the end of `dataBuf`, for a request of 32 bits.
* `Dload`: `InOrder` excepts sessions in which an exchange ended before its answer came, or the
  port failed, and `doubtful` the sectors counted by an older answer, since theirs was too long.
* `Images`: `failed` excepts images of which a write failed (`ffu.cpp:497`, `sparse.cpp:109` look at no
  status) and, on a local disk, whatever else failed; `Addressed` images for disks that there are not;
  `NoSparse` and `WholeSparse` sparse files that nothing is promised of; `found` names that were not found.
* `TrustedSuccess`: what a step does not notice itself. `LOAD_FFU`, `INFO` and `DEBUG_INFO` are not
  among its commands: what they report says nothing of the work.

In `Sahara`, `DumpDeviceInfo` reports success although none of its commands was
answered; `InfoIsOwn` says only that what it has is what it is called. `SuccessIsEarned` is about
the commands whose status the invocation keeps: `-gpp` replaces the status of the
drives by that of the active partition (`emmcdl.cpp:290`).

Every bound is a constant: the number of requests in `Sahara`, of records, commands,
options and exchanges, and the length of the stream cut behaviour off; everything else is a
size. Deadlock is not checked where an invocation ends.

Also met while translating, and kept in the models as they are; no property
contradicts them:

* `-d <start> <end>`: the help (`emmcdl.cpp:69`, `603`) calls the second number the end,
  the code takes it for a count of sectors.
* `emmcdl.cpp:1136` hands the disk number to a dump where the help (73) has the
  sectors of `-s`; `-protocol` and `-chipset` at the end of the line change nothing (937, 950); `-t`
  takes the word behind it (840); `-i` without `-f` opens a disk, writes nothing and succeeds; `-r`
  without `-f` succeeds without doing anything.
* With `-protocol STREAMING` and a programmer, the handlers that know Firehose only use
  an object that was never given a port (1068): `CommandLine` has a crash there.
* The status of an erase on a device (179), of a patch file (495), of
  `SetActivePartition` (1073) and of all but the last XML file on a disk (531) is lost; `FFULoad`
  reports what closing the image returns (406).
* `diskwriter.cpp:649`: only the first volume of a disk is dismounted, and volume
  0 never; 289: patches of a disk are skipped with success.
* An expression with several operators evaluates only one of them; `NUM_DISK_SECTORS` is 0
  for a device; XML elements that are not closed in themselves are not found.
* `dload.cpp:446`: CreateGPP reports what sending returned, whatever the device said.
* After XML files over the streaming protocol the device is reset before its partition is
  closed (`emmcdl.cpp:467`): what it has not flushed of the last one may be lost. Nothing can be
  promised there; it is the one hazard without a property.

## 5. Fairness

The host is one thread that is always scheduled: weak fairness of its actions. A
device does what it has to do (transfer, session) and a disk ends what it has
begun, else no tool could return: `FastCopy` waits for the answer to its command
without end (`firehose.cpp:557`), so `Returns` and `SessionEnds` hold only up to
the loss of the link. The link need not bring anything in `FirehoseStream` and `Hdlc`, and the
boot loader and the programmer need not do anything in `Sahara` and `Dload`: there the code's own timeouts make
the calls return (a read of the port comes back, with a byte or without), which is what the
liveness properties say. Loading a hex file ends if the file does: `SessionEnds` of
`Dload` excepts files without an end record. `Images` and `CommandLine` state no
fairness and no liveness: their steps are bounded by their input.

## 6. Proofs

Theorems hold for all values of the constants that the named assumptions of the modules
allow (`StreamAssumption`, `TransferAssumption`, `DiskAssumption`, `HexAssumption`, ...: sizes are positive, the stream
consists of units). Two are about what is given to the tool: `FfuFits` (the blocks of a full flash
image fit its payload and the disk) and `RawFits` (the disk of an XML file has at least two
sectors, for the sector an expression counts back to).

* `SerialPort_proofs`, the stream: `TypeOK`, `NoByteLost`, `Assembled` for every stream
  and buffer size. They are inductive together with the bound `m_buffer_ptr +
  m_buffer_len <= fetched + 1` (m_buffer holds only what was fetched) and
  `fetched <= arrived`, which bounds a refill. `StatusEndsDocument` for streams as a device
  writes them (`DocumentsFit`: no document is longer than m_buffer, payload follows an answer, a read of what
  is pending takes whole documents; the stream of the run is one). While a document is being
  read, nothing of it has been copied, or the rest of it is in m_buffer (`Within`): one
  refill brings all of it, so that the last of ReadData's three passes finds its end.
  `PortReads` says the three of the port with both its users.
* `SerialPort_proofs`, framing: `RequestReadable` and `AnswerWhole` for every packet, every size of
  HDLCBuf and whatever is left in it. What `HDLCEncodePacket` writes is described
  once: `Framed` has, for each byte of a packet, where it stands between the two flags and in how many bytes
  (`EncodeFramed`). From that, byte by byte, follow that flags are at the ends only (`FrameFlags`),
  that a standard reader has the packet back (`ReadBack`), and that the decoder is behind
  the m-th byte of the packet after m + 1 looks: the next one after all of it is at the closing flag,
  and the looks that are left, one for each escape, add at most a byte each (`DecodeWhole`). The
  invariant of an exchange that began in step (`SyncInv`): it has read nothing but flags and no answer
  has been sent (`Waiting`), or the rest of one frame is on the link, with flags before it only if none of
  it was read, and a flag behind it at most, and HDLCBuf begins with what was read of it (`Answered`).
  Inductions over packets, looks and sequences are by the least number that is not in a set
  (`SetInduction`, from `WFMin`): the set is a parameter that the provers can instantiate. In
  this way the recursive functions of `Looks` and `FlattenSeq` are shown to exist and to be
  what their equations say (`LookingExists`, `FlattensExists`, `FlattenLayout`).
* `FirehoseTransfer_proofs`: `TypeOK`, `NakStopsTransfer` and `LinkLeftEmpty` for every size,
  file and number of failed raw reads; the refinement `Copies` for files that hold what is
  announced (`FileCovers`: a shorter file would leave old buffer contents in the
  last packets, which the code does not notice), where a transfer with a failed raw read counts as
  an error. The invariant has three parts:
  `HostInv` ties the counters to the phase of the call, `DeviceInv` the device to
  the command and to what it has been sent (the final ACK implies that all was
  taken), and `ContentInv` says that every sector on the tape, in the device and,
  until a raw read fails, in the buffer is the source's.
* `FirehoseSession_proofs`: types, `SizesFit`, `OwnAnswer`, `SuccessIsEarned` for every set of sizes,
  number of retries and script built from the code's. As long as no command was given up,
  nothing is on its way but the last document or its answer (`QueueInv`), what the host was
  told of a command is so, and the packet size it has is the device's once configured
  (`CommandInv`, `ScriptInv`); whatever was given up, the buffers hold what may become the
  packet size (`BuffersInv`).
* `Sahara_proofs`: `ImageLoaded` for images, files, buffers and requests of any size. Host and
  device take turns (`TurnInv`): one prompt at most is on its way to the device or one request is
  in the pipe, and not both, so every payload is for what the device wants,
  though the pipe may be read at any place. The words of a request are numbered
  (`RequestAt`), so a header that names one is its first and the rest is read with it.
  `TypeOK` for every operation: what is in the pipe is taken as it was written, and only a request of 32
  bits brings more into `dataBuf` than it holds, whatever is cut off the length of the others. `InfoIsOwn` and
  `PblRecovers` from `LockInv`: as long as no read came too early (`early`), host and device are in
  step at every point of every operation (`InStep`): what one of them waits for is what the
  other has sent or is about to send.
* `DiskFastCopy_proofs`: `LoopComplete`, `SuccessLands` and `BufferLeftAlone`
  for every size and buffer. A pending write is always of the other buffer, and
  as long as the copy is going well GetLastError() still says that it is pending.
  Types, and the refinement of `BlockCopy` step by step; that the copy then ends as `BlockCopy` says
  (`Copies`) follows if the call returns, which is liveness.
* `Dload_proofs`: `StartedWhole` for files of any length, chunks and segments of any size: at every step
  the memory of the device with the chunk in hand laid over it is what the records so
  far mean (`WithChunk = meant`), which needs that the chunk ends where data would
  follow and begins in the segment of the last upper address (`GatherInv`).
  `HeldSoFar` and `Connects` for any number of files, sectors and attempts: as long as the
  answers come in order and the port does not fail there is never more than one packet under way, the request of the
  exchange that waits or its answer (`OrderInv`), and what an answer says is already true of the device (`Fits`).
  `ConnectInv` is why the shared counter suffices: a hello that has been heard has its answer under way,
  so that none of the attempts that are left is lost. Types, and `Copies`: the sectors that FastCopySerial has
  counted are on the device (`ImageHeld`), but for `doubtful` ones, so that the session of an image none of whose
  answers was too long is a `BlockCopy` of it.
* `Images_proofs`: types. `BlocksPlaced` for any number of stores and descriptors and any size of block and piece:
  every run that is gathered lies in the payload and claims only what its descriptors place
  (`Sound`), and every place of a block that was visited is written, or is in a
  run that is pending, listed or being written (`KeptInv`). `CommandsDone` for any number of files,
  commands and sectors: as long as all went well every sector holds what the
  commands that were done so far say of it, in their order (`FarInv`); a failure shows
  in the status until the end (`Lost`), or, on a local disk, in `failed`. `NamedDone`: what has been expanded of a sparse file and what is left
  of it make up the file (`Rest`, `Expanded`). `NamedWithin` for disks of every size and
  number: a partition that was found fixes the entry, which is what was looked up
  until it is programmed, and zeros go on for less than a buffer. `RefusalEnds` for every number of files and
  commands: a refused command is the last one read, until its file ends.
* `CommandLine_proofs`: types, `DiskAsGiven`, `ReadyFirst` and `TrustedSuccess` for any number of options,
  files, volumes and disks. What is to be done is a sequence of steps in which everything
  on a disk lies between opening and closing it, a device is spoken to behind the step that connects it
  (`SpokenInv`), a connection behind the step that sets the size of a sector, which
  it may correct and nothing behind it changes (`SizedInv`), and no step whose failure matters has a later one that hides it
  (`Heeded`, `TrustInv`); the invariants say so of what is left of it (`todo`), whatever a
  step's failure cuts off.

Only model-checked: liveness, which depends on ENABLED: `StatusReturns`, `SyncReturns`,
`Returns`, `SessionEnds` and that an operation of Sahara returns; with it the fairness part of
`BlockCopy` in `Copies`. The types of the stream, the transfer, the session and the
command line are proved and not run.

## 7. Not modelled

* `sparsezip.cpp` and the `USE_ZLIB` branches: neither project file defines it.
* Code that is called by nobody: `MemoryDump` and `CheckDevice` of Sahara; `GetRawDiskSize`,
  `RawReadTest`, `CorruptionTest`, `IsDeviceWriteable` and `LockDevice` of the disk writer;
  `LoadPartition` and `GetDloadParams` of Dload; of `xmlparser.cpp` everything but `ParseXMLInteger`,
  whose use is the size hint in `FirehoseSession`.
* `SplitFFUBin`: its only caller (`emmcdl.cpp:405`) never has the table read in
  which it looks names up.
* The layout of FFU headers: the reader is its only description, so that a check would
  compare the code with itself. What it yields is the input of `FfuImage`.
* The text of XML files and tables, PrintHelp, logging and progress output (which divides by
  a number of ticks that may be 0, `firehose.cpp:714`).
* GetLastError() is taken to survive console output in `DiskFastCopy`. The 0x200
  bytes by which buffers are over-allocated are not relied upon. That `-x` takes
  at most 8 files is not checked by the code and taken as given.
