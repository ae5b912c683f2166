---------------------------- MODULE CommandLine ----------------------------
(***************************************************************************)
(* An invocation of src/src/emmcdl.cpp: the options are read one after the *)
(* other, the flash programmer is loaded if one is given, and the command  *)
(* that was named last is carried out.  The handler of a command is a      *)
(* sequence of steps, each with what becomes of its status.  What happens  *)
(* in a step is the subject of the other modules: here it succeeds or not. *)
(*                                                                         *)
(* Of the options only what decides between steps is kept.                 *)
(***************************************************************************)
EXTENDS DiskDevice, SequencesExt

CONSTANTS
  MaxOptions,   \* bound: options on a command line
  MaxXml,       \* bound: XML files among them (8 in the code)
  MaxLuns       \* physical partitions of the device (6 in the code)

ASSUME CommandAssumption == MaxOptions \in Nat /\ MaxXml \in Nat /\ MaxLuns \in Nat

VARIABLES
  opt,          \* what the options have set
  left,         \* options that may still come
  pc,           \* "options", "load", "handler", "exit"
  todo,         \* steps to take
  status,
  failed,       \* what has failed, by name
  port,         \* is the serial port open?
  firehose,     \* of the object fh: has it a port, is it connected, its sector size
  emergency     \* m_emergency

commandVars == <<opt, left, pc, todo, status, failed, port, firehose, emergency>>
vars == <<diskVars, commandVars>>

None == -1      \* no -p

Defaults ==
  [cmd |-> "NONE", disk |-> None, flash |-> FALSE, xml |-> 0, single |-> FALSE,
   named |-> FALSE, out |-> FALSE, active |-> FALSE, quiet |-> FALSE,
   protocol |-> "FIREHOSE", chipset |-> 8974, sector |-> 512, memory |-> "ufs"]

Init ==
  /\ DiskInit
  /\ opt = Defaults /\ left = MaxOptions /\ pc = "options"
  /\ todo = <<>> /\ status = "SUCCESS" /\ failed = {}
  /\ port = FALSE /\ emergency = FALSE
  /\ firehose = [ready |-> FALSE, connected |-> FALSE, sector |-> 512]

-----------------------------------------------------------------------------
(* What an option makes of o.  A number where a name could be leaves the   *)
(* name that an earlier option may have given.                             *)
Named(o, cmd) ==
  {[o EXCEPT !.cmd = cmd, !.named = n] : n \in {o.named, TRUE}}

(* -d -zd -sd -e -w -x                                                     *)
TransferOptions(o) ==
  Named(o, "DUMP") \union Named(o, "ERASE") \union {[o EXCEPT !.cmd = "WIPE"]}
    \union IF o.xml < MaxXml THEN {[o EXCEPT !.cmd = "WRITE", !.xml = @ + 1]} ELSE {}

(* -p -f -i -t -g -gq                                                      *)
TargetOptions(o) ==
  {[o EXCEPT !.disk = d] : d \in Drives}
    \union {[o EXCEPT !.flash = TRUE], [o EXCEPT !.cmd = "WRITE", !.single = TRUE],
            [o EXCEPT !.cmd = "TEST"], [o EXCEPT !.cmd = "GPP"], [o EXCEPT !.quiet = TRUE]}

(* -b -gpt -info -dbgdump -ffu -dumpffu -raw -splitffu                     *)
ImageOptions(o) ==
  {[w EXCEPT !.single = TRUE] : w \in Named(o, "WRITE_GPT")}
    \union {[o EXCEPT !.cmd = "FFU", !.named = TRUE]}
    \union {[o EXCEPT !.cmd = c] :
              c \in {"GPT", "INFO", "DEBUG_INFO", "LOAD_FFU", "RAW", "SPLIT_FFU", "RESET"}}

(* -protocol and -chipset look for one more word behind their value: at    *)
(* the end of the line they change nothing.                                *)
AtTheEnd(o) == {o}
ConfigOptions(o) ==
  {[o EXCEPT !.protocol = p] : p \in {"STREAMING", "FIREHOSE"}}
    \union {[o EXCEPT !.chipset = c] : c \in {8960, 8974}}
    \union {[o EXCEPT !.active = TRUE]}

(* -MemoryName, which sets the size, too: nvme is like emmc for what is    *)
(* modelled, spinor and nand are like ufs.                                 *)
MemoryOptions(o) ==
  {[o EXCEPT !.memory = "emmc", !.sector = 512], [o EXCEPT !.memory = "ufs", !.sector = 4096]}

(* -o -disk_sector_size                                                    *)
OtherOptions(o) ==
  {[o EXCEPT !.out = TRUE]} \union {[o EXCEPT !.sector = s] : s \in {512, 4096}}
    \union MemoryOptions(o)

GiveOption ==
  /\ pc = "options" /\ left > 0
  /\ \/ /\ opt' \in TransferOptions(opt) \union TargetOptions(opt)
                      \union ImageOptions(opt) \union OtherOptions(opt)
        /\ left' = left - 1
     \/ opt' \in ConfigOptions(opt) /\ left' = left - 1
     \/ opt' \in AtTheEnd(opt) /\ left' = 0
  /\ UNCHANGED <<diskVars, pc, todo, status, failed, port, firehose, emergency>>

(* -l prints the list and goes on.                                         *)
ListOption ==
  /\ pc = "options" /\ left > 0 /\ left' = left - 1
  /\ InitDiskList
  /\ UNCHANGED <<opt, pc, todo, status, failed, port, firehose, emergency>>

(* -b, -c and -p end the program when a word is missing.                   *)
BadOption ==
  /\ pc = "options" /\ left > 0
  /\ status' = "USAGE" /\ pc' = "exit"
  /\ UNCHANGED <<diskVars, opt, left, todo, failed, port, firehose, emergency>>

-----------------------------------------------------------------------------
(* A step: what is done, on what, and what its status does.  "keep" makes  *)
(* it the status of the handler; "return" and "skip" too, and a failure    *)
(* leaves the handler, or all of it but the last step; "ignore" loses it.  *)
Step(do, on, then) == [do |-> do, on |-> on, then |-> then]

(* The steps, n times over.                                                *)
Times(n, steps) == [k \in 1 .. n * Len(steps) |-> steps[((k - 1) % Len(steps)) + 1]]

OpenPort == <<Step("port", "tool", "ignore")>>
Connect == <<Step("connect", "firehose", "return")>>

(* (mutated: the sector size set behind the connection that corrects it)   *)
ConnectFirst == Connect \o <<Step("sector", "tool", "ignore")>>
Connection == <<Step("sector", "tool", "ignore")>> \o Connect
OnDisk(steps) ==
  <<Step("list", "tool", "ignore"), Step("open", "tool", "keep")>>
    \o steps \o <<Step("close", "tool", "ignore")>>

(* The flash programmer, by Sahara or by the boot loader's protocol; with  *)
(* Firehose the active partition is set at once, before the command.       *)
LoadFlashProg ==
  <<Step("load", IF opt.chipset = 8974 THEN "sahara" ELSE "dload", "keep")>>

Load ==
  OpenPort \o LoadFlashProg
    \o IF opt.protocol # "FIREHOSE" THEN <<>>
       ELSE <<Step("init", "tool", "ignore")>>
              \o IF opt.active THEN Connect \o <<Step("active", "firehose", "keep")>> ELSE <<>>

(* (mutated: on the disk, too, the status is not looked at)                *)
EraseUnchecked ==
  IF emergency THEN Connection \o <<Step("erase", "firehose", "ignore")>>
  ELSE OnDisk(<<Step("erase", "disk", "ignore")>>)
EraseDisk ==
  IF emergency THEN Connection \o <<Step("erase", "firehose", "ignore")>>
  ELSE OnDisk(<<Step("erase", "disk", "keep")>>)

RawDiskDump ==
  IF emergency THEN Connection \o <<Step("dump", "firehose", "keep")>>
  ELSE OnDisk(<<Step("dump", "disk", "keep")>>)

ReadGPT ==
  IF emergency THEN Connection \o Times(MaxLuns, <<Step("table", "firehose", "ignore")>>)
  ELSE OnDisk(<<Step("table", "disk", "keep")>>)

WriteGPT ==
  IF emergency THEN Connection \o <<Step("write", "firehose", "keep")>>
  ELSE OnDisk(<<Step("write", "disk", "keep")>>)

WipeDisk == OnDisk(<<Step("wipe", "disk", "keep")>>)
RawDiskTest == OnDisk(<<Step("test", "disk", "keep")>>)

CreateGPP ==
  IF opt.protocol = "STREAMING"
  THEN <<Step("hello", "dload", "return"), Step("prtn", "dload", "return"),
         Step("gpp", "dload", "keep")>>
  ELSE Connection \o <<Step("gpp", "firehose", "keep"), Step("activate", "firehose", "keep")>>

ResetDevice ==
  IF ~emergency THEN <<>>
  ELSE IF opt.protocol = "FIREHOSE" THEN Connect \o <<Step("reset", "firehose", "keep")>>
  ELSE <<Step("reset", "dload", "keep")>>

FFUProgram ==
  Connection \o <<Step("preload", "file", "return"), Step("program", "firehose", "keep"),
                  Step("release", "tool", "ignore")>>

(* What closing the image returns is what is reported.                     *)
FFULoad ==
  <<Step("preload", "file", "skip"), Step("split", "file", "keep"),
    Step("release", "tool", "keep")>>

FFURawProgram == <<Step("split", "file", "keep")>>

(* (mutated: a file that fails does not end the loop)                      *)
GoOnWithXml == Connection \o
  Times(opt.xml, <<Step("preload", "file", "return"), Step("xml", "firehose", "keep"),
                   Step("patch", "firehose", "ignore")>>)
FirehoseXml == Connection \o
  Times(opt.xml, <<Step("preload", "file", "return"), Step("xml", "firehose", "return"),
                   Step("patch", "firehose", "ignore")>>)

StreamingXml ==
  <<Step("hello", "dload", "return")>>
    \o Times(opt.xml, <<Step("prtn", "dload", "ignore"), Step("patch", "dload", "return"),
                        Step("xml", "dload", "keep")>>)
    \o <<Step("active", "dload", "ignore"), Step("reset", "dload", "ignore"),
         Step("unprtn", "dload", "ignore")>>

EDownloadProgram ==
  IF opt.single
  THEN <<Step("hello", "dload", "return"), Step("prtn", "dload", "ignore"),
         Step("image", "dload", "keep"), Step("unprtn", "dload", "ignore")>>
  ELSE IF opt.protocol = "STREAMING" THEN StreamingXml ELSE FirehoseXml

(* A file that cannot be loaded ends the program with the disk open; the   *)
(* status of a file that is programmed gives way to the next one's.        *)
RawDiskProgram ==
  LET files == Times(opt.xml, <<Step("preload", "file", "return"), Step("xml", "disk", "keep")>>)
  IN  IF opt.out
      THEN <<Step("create", "tool", "keep")>> \o files \o <<Step("close", "tool", "ignore")>>
      ELSE OnDisk(files)

DumpInfo ==
  IF opt.protocol = "FIREHOSE" THEN OpenPort \o <<Step("info", "sahara", "keep")>>
  ELSE OpenPort \o <<Step("unsupported", "tool", "keep")>>

RawSerialSend ==
  <<Step("count", "words", "return")>> \o OpenPort \o <<Step("raw", "port", "keep")>>

-----------------------------------------------------------------------------
(* What a command needs, for those that need anything.                     *)
Needed ==
  CASE opt.cmd = "DUMP" -> opt.out /\ opt.disk # None
    [] opt.cmd \in {"SPLIT_FFU", "FFU"} -> opt.out
    [] opt.cmd \in {"LOAD_FFU", "GPP"} -> opt.disk # None /\ opt.flash
    [] opt.cmd = "WRITE" -> opt.disk # None /\ ~(opt.single /\ opt.xml > 0)
    [] opt.cmd = "WIPE" -> opt.disk > 0
    [] opt.cmd \in {"NONE", "RESET"} -> TRUE
    [] OTHER -> opt.disk # None

Handler ==
  CASE opt.cmd = "NONE" -> <<>>
    [] opt.cmd = "DUMP" -> RawDiskDump
    [] opt.cmd = "ERASE" -> EraseDisk
    [] opt.cmd = "SPLIT_FFU" -> FFURawProgram
    [] opt.cmd = "FFU" -> FFULoad
    [] opt.cmd = "LOAD_FFU" -> FFUProgram
    [] opt.cmd = "WRITE" -> IF emergency THEN EDownloadProgram ELSE RawDiskProgram
    [] opt.cmd = "WIPE" -> WipeDisk
    [] opt.cmd = "RAW" -> RawSerialSend
    [] opt.cmd = "TEST" -> RawDiskTest
    [] opt.cmd = "GPP" -> CreateGPP
    [] opt.cmd = "WRITE_GPT" -> WriteGPT
    [] opt.cmd = "RESET" -> ResetDevice
    [] opt.cmd = "GPT" -> ReadGPT
    [] OTHER -> DumpInfo

OptionsEnd ==
  /\ pc = "options"
  /\ pc' = "load" /\ todo' = IF opt.flash THEN Load ELSE <<>>
  /\ UNCHANGED <<diskVars, opt, left, status, failed, port, firehose, emergency>>

Dispatch ==
  /\ pc = "load" /\ todo = <<>>
  /\ \/ /\ ~Needed
        /\ status' = "USAGE" /\ pc' = "exit" /\ UNCHANGED todo
     \/ /\ Needed
        /\ todo' = Handler /\ pc' = "handler"
        /\ status' = IF opt.cmd = "NONE" THEN status ELSE "SUCCESS"
     \/ /\ Needed /\ opt.cmd = "GPP" /\ ~opt.quiet    \* the user thinks better of it
        /\ pc' = "exit" /\ UNCHANGED <<todo, status>>
  /\ UNCHANGED <<diskVars, opt, left, failed, port, firehose, emergency>>

Exit ==
  /\ pc = "handler" /\ todo = <<>>
  /\ pc' = "exit"
  /\ UNCHANGED <<diskVars, opt, left, todo, status, failed, port, firehose, emergency>>

-----------------------------------------------------------------------------
next == Head(todo)
Does(do) == todo # <<>> /\ next.do = do

(* What every step does: its status, the steps that are left, and what has *)
(* failed of it.                                                           *)
Returned(ok, faults) ==
  /\ todo' = IF ok \/ next.then \in {"keep", "ignore"} THEN Tail(todo)
             ELSE IF next.then = "return" THEN <<>> ELSE <<Last(todo)>>
  /\ status' = IF next.then = "ignore" THEN status ELSE IF ok THEN "SUCCESS" ELSE "FAULT"
  /\ failed' = failed \union faults
  /\ pc' = IF pc = "load" /\ ~ok /\ next.then = "return" THEN "exit" ELSE pc
  /\ UNCHANGED <<opt, left>>

Taken(ok) == Returned(ok, IF ok THEN {} ELSE {next.do})

PortOpened ==
  /\ Does("port")
  /\ port' \in BOOLEAN /\ Taken(port')
  /\ UNCHANGED <<diskVars, firehose, emergency>>

(* LoadFlashProg, whose failure is only a warning.                         *)
Loaded ==
  /\ Does("load")
  /\ \E ok \in {FALSE, port} : Taken(ok)
  /\ emergency' = TRUE
  /\ UNCHANGED <<diskVars, port, firehose>>

FirehoseInit ==
  /\ Does("init") /\ Taken(TRUE)
  /\ firehose' = [firehose EXCEPT !.ready = TRUE]
  /\ UNCHANGED <<diskVars, port, emergency>>

SetDiskSectorSize ==
  /\ Does("sector") /\ Taken(TRUE)
  /\ firehose' = [firehose EXCEPT !.sector = opt.sector]
  /\ UNCHANGED <<diskVars, port, emergency>>

(* ConnectToFlashProg takes 512 for "nothing said" and makes it 4096 for   *)
(* these memories, before it asks the device: that may be all it gets to,  *)
(* or, without its buffers, not even that.  An object that has no port     *)
(* cannot be connected: the program crashes.                               *)
SectorSize(size) == IF opt.memory = "ufs" /\ size = 512 THEN 4096 ELSE size

Connected ==
  /\ Does("connect")
  /\ IF firehose.ready
     THEN \E ok \in {FALSE, port}, size \in {firehose.sector, SectorSize(firehose.sector)} :
            /\ Taken(ok) /\ (ok => size = SectorSize(firehose.sector))
            /\ firehose' = [firehose EXCEPT !.connected = ok, !.sector = size]
     ELSE /\ pc' = "exit" /\ status' = "CRASH" /\ todo' = <<>>
          /\ UNCHANGED <<opt, left, failed, firehose>>
  /\ UNCHANGED <<diskVars, port, emergency>>

DisksListed ==
  /\ Does("list") /\ InitDiskList /\ Taken(TRUE)
  /\ UNCHANGED <<port, firehose, emergency>>

DiskOpened ==
  /\ Does("open") /\ OpenDevice(opt.disk)
  /\ todo' = Tail(todo) /\ status' = "SUCCESS"
  /\ failed' = IF hDisk' = Invalid THEN failed \union {"open"} ELSE failed
  /\ UNCHANGED <<opt, left, pc, port, firehose, emergency>>

FileOpened ==
  /\ Does("create") /\ OpenDiskFile
  /\ IF hDisk' # Invalid THEN Taken(TRUE)
     ELSE /\ todo' = <<Last(todo)>> /\ status' = "FAULT" /\ failed' = failed \union {"create"}
          /\ UNCHANGED <<opt, left, pc>>
  /\ UNCHANGED <<port, firehose, emergency>>

DiskClosed ==
  /\ Does("close") /\ CloseDevice /\ Taken(TRUE)
  /\ UNCHANGED <<port, firehose, emergency>>

(* Nothing is read from what is not open, and nothing found on it.  But    *)
(* FastCopy takes the missing handle of a dump for "no input" and writes   *)
(* zeros, and as the target of a copy it goes unnoticed when one round is  *)
(* all there is; WriteGPT, not finding the name, writes all the same.      *)
Outcomes ==
  CASE next.on \in {"file", "words"} -> BOOLEAN
    [] next.on = "tool" -> {next.do # "unsupported"}
    [] next.on \in {"port", "sahara", "dload", "firehose"} -> {FALSE, port}
    [] OTHER -> IF hDisk = Invalid /\ (\/ next.do \in {"table", "wipe", "test"}
                                       \/ next.do \in {"dump", "erase"} /\ opt.named)
                THEN {FALSE} ELSE BOOLEAN

(* Steps that can fail in part and return success nevertheless: a raw read *)
(* or a last write that fails in FastCopy, a sparse chunk, a block of an   *)
(* FFU file, what Sahara is asked for, a write of the disk test.           *)
Careless == {"dump", "erase", "write", "xml", "program", "split", "info", "test"}

Worked ==
  /\ todo # <<>>
  /\ next.do \notin {"port", "load", "init", "sector", "connect", "list", "open", "create", "close"}
  /\ \/ \E ok \in Outcomes : Taken(ok)
     \/ TRUE \in Outcomes /\ next.do \in Careless /\ Returned(TRUE, {"unnoticed"})
  /\ UNCHANGED <<diskVars, port, firehose, emergency>>

Next ==
  \/ GiveOption \/ ListOption \/ BadOption \/ OptionsEnd \/ Dispatch \/ Exit
  \/ PortOpened \/ Loaded \/ FirehoseInit \/ SetDiskSectorSize \/ Connected
  \/ DisksListed \/ DiskOpened \/ FileOpened \/ DiskClosed \/ Worked

Spec == Init /\ [][Next]_vars

-----------------------------------------------------------------------------
Commands ==
  {"NONE", "DUMP", "ERASE", "WRITE", "WIPE", "GPP", "TEST", "WRITE_GPT", "RESET", "FFU",
   "GPT", "SPLIT_FFU", "RAW", "LOAD_FFU", "INFO", "DEBUG_INFO"}

Invocations ==
  [cmd : Commands, disk : Drives \union {None}, flash : BOOLEAN, xml : 0 .. MaxXml,
   single : BOOLEAN, named : BOOLEAN, out : BOOLEAN, active : BOOLEAN, quiet : BOOLEAN,
   protocol : {"STREAMING", "FIREHOSE"}, chipset : {8960, 8974}, sector : {512, 4096},
   memory : {"emmc", "ufs"}]

(* Types.                                                                  *)
TypeOK ==
  /\ volumes \in [0 .. Volumes -> Drives \union {NoDisk}]
  /\ disks \in [Drives -> 0 .. Volumes] /\ mounted \subseteq 0 .. Volumes
  /\ hDisk \in Drives \union {Closed, Image, Invalid}
  /\ opt \in Invocations /\ left \in 0 .. MaxOptions
  /\ pc \in {"options", "load", "handler", "exit"}
  /\ status \in {"SUCCESS", "FAULT", "USAGE", "CRASH"}
  /\ port \in BOOLEAN /\ emergency \in BOOLEAN
  /\ firehose \in [ready : BOOLEAN, connected : BOOLEAN, sector : {512, 4096}]

(* The device is spoken to by an object that has a port and is connected,  *)
(* and sectors are exchanged in the size the options ask for, whatever     *)
(* their order, however often the object was connected before and whatever *)
(* size that left it with.  What is asked for is what the options set, but *)
(* 4096 where that is 512 and the memory ufs, spinor or nand: that is how  *)
(* the code has it, even for a 512 that was given.  (With -protocol        *)
(* STREAMING the handlers that know Firehose only have no such object.)    *)
Asked == IF opt.sector = 512 /\ opt.memory = "ufs" THEN 4096 ELSE opt.sector

ReadyFirst ==
  todo # <<>> /\ next.on = "firehose" =>
    /\ emergency
    /\ next.do = "connect" /\ opt.protocol = "FIREHOSE" => firehose.ready
    /\ next.do # "connect" => firehose.connected
    /\ next.do \in {"dump", "erase", "table", "write", "xml", "patch", "program"}
         => firehose.sector = Asked

(* What is done to a disk of the computer is done to the one that -p       *)
(* names, while it is open, and with a flash programmer loaded to none,    *)
(* but for -w and -t; a volume that is not on it stays mounted.            *)
DiskAsGiven ==
  /\ todo # <<>> /\ next.on = "disk" =>
       /\ hDisk \in {opt.disk, Image, Invalid}
       /\ hDisk = Image => opt.out /\ opt.cmd = "WRITE"
       /\ emergency => opt.cmd \in {"WIPE", "TEST"}
  /\ \A v \in (0 .. Volumes) \ mounted : volumes[v] = opt.disk

(* For these commands success means that no step returned a failure: the   *)
(* handler heeds the status of each, and no later one hides it.  Excepted  *)
(* are a port, the programmer that may have been there already, the active *)
(* partition, the patches behind an XML file, and the opening of the disk  *)
(* (see OpenFailureSeen); and what a step does not notice itself, which no *)
(* handler can make good (see Careless: sparse chunks of an XML file, raw  *)
(* reads of a dump, the last write to a disk).  Whether a step does its    *)
(* work is the subject of the modules about it.                            *)
Trusted == {"DUMP", "WRITE_GPT", "WIPE", "RAW"}

TrustedSuccess ==
  /\ pc = "exit" /\ status = "SUCCESS"
  /\ \/ opt.cmd \in Trusted
     \/ opt.cmd = "WRITE" /\ emergency /\ ~opt.single /\ opt.protocol = "FIREHOSE"
     \/ opt.cmd = "ERASE" /\ ~emergency
  => failed \subseteq {"port", "load", "active", "patch", "open", "unnoticed"}

(* A disk that cannot be opened is not reported as worked on: the handlers *)
(* look at the status of OpenDevice for that, and RawDiskTest has a        *)
(* message for it.                                                         *)
OpenFailureSeen ==
  pc = "exit" /\ "open" \in failed => status # "SUCCESS"
=============================================================================
