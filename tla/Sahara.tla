------------------------------- MODULE Sahara -------------------------------
(***************************************************************************)
(* The Sahara protocol of the primary boot loader (src/src/sahara.cpp):    *)
(* ConnectToDevice with the PblHack that brings a silent device back,      *)
(* LoadFlashProg, and DumpDeviceInfo and DumpDebugInfo.                    *)
(*                                                                         *)
(* The device sends packets, each of which arrives whole (all fit one USB  *)
(* packet, but for the debug data, whose last part may come later); the    *)
(* host reads words off a pipe and sees no packet boundaries.  Every word  *)
(* knows the message of the host it answers, which the host does not see.  *)
(* A read may come up empty although the device has something to say: it   *)
(* is only slow.                                                           *)
(***************************************************************************)
EXTENDS Integers, Sequences

CONSTANTS
  Operations,   \* a subset of DOMAIN Commands
  ImageSize,    \* pieces of the flash programmer the device asks for
  FileSizes,    \* pieces the file has
  BufSize,      \* pieces dataBuf holds (128 KB)
  Word,         \* pieces that 32 bits can count (4 GB)
  MaxRequest,   \* the most pieces the device asks for at once
  Requests,     \* bound: how often it asks
  Tries         \* reads of a header before LoadFlashProg gives up

(* What DumpDeviceInfo and DumpDebugInfo ask for.                          *)
Commands == [load  |-> <<>>,
             info  |-> <<"SERIAL_NUM", "MSM_HW_ID", "OEM_PK_HASH", "SW_VERSION">>,
             debug |-> <<"DEBUG_DATA">>]

ASSUME SaharaAssumption ==
  /\ Operations \subseteq DOMAIN Commands
  /\ FileSizes \subseteq Nat
  /\ {ImageSize, BufSize, Word, MaxRequest, Requests, Tries} \subseteq Nat \ {0}
  /\ ImageSize <= Word

VARIABLES
  op, fileSize,
  overrun,    \* history: has more been read into dataBuf than it holds, for a
              \* 32-bit request?
  pc, status,
  tries,      \* the loop over the header reads
  command,    \* the number of the command
  info,       \* what has been stored as the answer to each command
  link,       \* "up" or "down"
  sent,       \* messages sent by the host; they are numbered
  early,      \* has a read returned with something (more) still to come?
  own,        \* have all reads returned answers to the last message sent?
  pipe,       \* words that have arrived at the host
  inbox,      \* messages on their way to the device
  rest,       \* words of the debug data still to arrive
  mode,       \* the device: "boot", "hello", "ready", "image", "end", "done", "failed"
  loses,      \* will the next packet be lost (data toggle after a pipe reset)?
  asks,       \* how often it has asked for a piece of the image
  want,       \* what it has asked for
  got         \* what it has, by position

call == <<op, fileSize, overrun>>
device == <<rest, mode, loses, asks, want, got>>
vars == <<call, pc, status, tries, command, info, link, sent, early, own,
          pipe, inbox, device>>

Smaller(a, b) == IF a < b THEN a ELSE b

(* Lengths of the packets, in DWORDs (those of data are examples).         *)
Size == [HELLO_REQ |-> 12, READ_DATA |-> 5, READ_DATA_64 |-> 8, END_TRANSFER |-> 4,
         DONE_RSP |-> 3, CMD_READY |-> 2, EXECUTE_RSP |-> 4, DATA |-> 8]

Packet(cmd, arg, to) ==
  [k \in 1 .. Size[cmd] |-> [cmd |-> cmd, k |-> k, arg |-> arg, to |-> to]]

NoRequest == [from |-> 0, len |-> 0]

(* The command a packet in a buffer begins with.                           *)
CmdOf(words) == IF words # <<>> /\ words[1].k = 1 THEN words[1].cmd ELSE "other"

(* What of the file goes to the device; offset and length are cut off to   *)
(* 32 bits (mutated: the file pointer is left where the last read ended).  *)
NoSeek(r) == [k \in 1 .. Smaller(r.len % Word, fileSize) |-> k]
Pieces(r) ==
  LET from == r.from % Word IN
    [k \in 1 .. IF from < fileSize THEN Smaller(r.len % Word, fileSize - from) ELSE 0
       |-> from + k]

(* The status of the image's end; what is missing of it reads as success.  *)
EndIsGood(words) == words # <<>> => words[1].arg = "SUCCESS"

(* Is a request too large?  Only one of 64 bits is looked at, and only what *)
(* is left of its length (mutated: none is).                               *)
NeverTooLarge(words) == FALSE
TooLarge(words) == words[1].cmd = "READ_DATA_64" /\ words[1].arg.len % Word > BufSize

(* The loop over the reads of a header (mutated: it does not count).       *)
SameTry(n) == n
NextTry(n) == n + 1

(* What ReadData asks for (mutated: the first of the data, again).         *)
FirstCommand == Commands[op][1]
ClientCmd == Commands[op][command]

-----------------------------------------------------------------------------
Init ==
  /\ op \in Operations /\ fileSize \in FileSizes /\ overrun = FALSE
  /\ pc = "hello" /\ status = "SUCCESS" /\ tries = 0 /\ command = 1
  /\ info = [c \in 1 .. Len(Commands[op]) |-> "none"]
  /\ link = "up" /\ sent = 0 /\ early = FALSE /\ own = TRUE
  /\ pipe = <<>> /\ inbox = <<>> /\ rest = <<>>
  /\ mode \in {"boot", "hello"} /\ loses \in BOOLEAN
  /\ asks = 0 /\ want = NoRequest /\ got = [k \in 1 .. ImageSize |-> 0]

(* sport->Read of up to n words.                                           *)
Due == link = "up" /\ (inbox # <<>> \/ rest # <<>> \/ mode = "boot")
Taken(n) == SubSeq(pipe, 1, Smaller(n, Len(pipe)))

Read(n) ==
  /\ pipe # <<>>
  /\ pipe' = SubSeq(pipe, n + 1, Len(pipe))
  /\ own' = (own /\ \A k \in DOMAIN Taken(n) : Taken(n)[k].to = sent)
  /\ UNCHANGED early

ReadNothing ==
  /\ pipe = <<>>
  /\ early' = (early \/ Due)
  /\ UNCHANGED <<pipe, own>>

(* sport->Write.                                                           *)
Write(cmd, arg) ==
  /\ link = "up"
  /\ sent' = sent + 1
  /\ inbox' = Append(inbox, [cmd |-> cmd, arg |-> arg, n |-> sent + 1])

WriteFails == link = "down" /\ UNCHANGED <<sent, inbox>>

Stop(s) == pc' = "done" /\ status' = s
Go(to) == pc' = to /\ UNCHANGED status

host == <<tries, command, info>>

(* ConnectToDevice(true, mode): a hello within 10 ms, ...                  *)
HelloThere ==
  /\ pc = "hello" /\ Read(12) /\ CmdOf(Taken(12)) = "HELLO_REQ"
  /\ Go("respond")
  /\ UNCHANGED <<call, host, link, sent, inbox, device>>

(* ... something else, which is read to its end, or nothing.               *)
HelloMissing ==
  /\ pc = "hello" /\ CmdOf(Taken(12)) # "HELLO_REQ"
  /\ early' = (early \/ (pipe = <<>> /\ Due))
  /\ pipe' = <<>> /\ UNCHANGED own
  /\ Go("pbl")
  /\ UNCHANGED <<call, host, link, sent, inbox, device>>

(* PblHack: ConnectToDevice(false, 3), which flushes and responds to the   *)
(* hello that is taken to have come; ...                                   *)
PblRespond ==
  /\ pc = "pbl"
  /\ pipe' = <<>>
  /\ \/ Write("HELLO_RSP", "command") /\ Go("pblReady")
     \/ WriteFails /\ Stop("INVALID_HANDLE")
  /\ UNCHANGED <<call, host, link, early, own, device>>

(* ... CMD_READY is good, and so is nothing at all (mutated: it is not);   *)
(* another packet is not; ...                                              *)
SilenceFails == Stop("INVALID_HANDLE")
SilenceIsGood == Go("pblSwitch")
ReadyExpected(words) == CmdOf(words) = "CMD_READY"

PblReady ==
  /\ pc = "pblReady"
  /\ \/ ReadNothing /\ SilenceIsGood
     \/ Read(4) /\ ReadyExpected(Taken(4)) /\ Go("pblSwitch")
     \/ Read(4) /\ ~ReadyExpected(Taken(4)) /\ Stop("INVALID_HANDLE")
  /\ UNCHANGED <<call, host, link, sent, inbox, device>>

(* ... and ModeSwitch(0) brings the device back to its hello.  The answer  *)
(* is read so that nothing stays in the pipe.                              *)
ModeSwitchRead == Read(64) \/ ReadNothing

ModeSwitch ==
  /\ pc \in {"pblSwitch", "switch"}
  /\ Write("SWITCH_MODE", "image") \/ WriteFails
  /\ Go(IF pc = "switch" THEN "switched" ELSE "pblSwitched")
  /\ UNCHANGED <<call, host, link, early, own, pipe, device>>

PblSwitched ==
  /\ pc = "pblSwitched"
  /\ ModeSwitchRead
  /\ IF link = "up" THEN Go("respond") ELSE Stop("INVALID_HANDLE")
  /\ UNCHANGED <<call, host, link, sent, inbox, device>>

(* The response to the hello, or to the one taken to have come.            *)
Respond ==
  /\ pc = "respond"
  /\ \/ /\ Write("HELLO_RSP", IF op = "load" THEN "image" ELSE "command")
        /\ Go(IF op = "load" THEN "open" ELSE "ready")
     \/ WriteFails /\ Stop("INVALID_HANDLE")
  /\ UNCHANGED <<call, host, link, early, own, pipe, device>>

-----------------------------------------------------------------------------
(* LoadFlashProg: the file of the flash programmer, ...                    *)
Open ==
  /\ pc = "open"
  /\ Go("header")
  /\ UNCHANGED <<call, host, link, sent, early, own, pipe, inbox, device>>

(* ... which may not be there, or cannot be read.                          *)
FileFails ==
  /\ pc \in {"open", "request"}
  /\ Stop("FILE_ERROR")
  /\ UNCHANGED <<call, host, link, sent, early, own, pipe, inbox, device>>

(* The header of the next packet says what to do ...                       *)
Header ==
  /\ pc = "header" /\ Read(2)
  /\ LET cmd == CmdOf(Taken(2)) IN
       \/ cmd \in {"READ_DATA", "READ_DATA_64"} /\ Go("request")
       \/ cmd = "END_TRANSFER" /\ Go("end")
       \/ cmd \notin {"READ_DATA", "READ_DATA_64", "END_TRANSFER"} /\ Stop("WRITE_FAULT")
  /\ tries' = 0
  /\ UNCHANGED <<call, command, info, link, sent, inbox, device>>

(* ... and may be some time in coming.                                     *)
NoHeader ==
  /\ pc = "header" /\ pipe = <<>>
  /\ IF NextTry(tries) = Tries THEN Stop("TIMEOUT") /\ UNCHANGED tries
     ELSE tries' = NextTry(tries) /\ UNCHANGED <<pc, status>>
  /\ UNCHANGED <<call, command, info, link, sent, early, own, pipe, inbox, device>>

(* A request is served from the file; one of 32 bits may be for more than  *)
(* dataBuf holds.                                                          *)
Body(words) == words[1].arg

Serve ==
  /\ pc = "request" /\ pipe # <<>> /\ Read(Size[pipe[1].cmd] - 2)
  /\ \/ TooLarge(pipe) /\ Stop("INSUFFICIENT_BUFFER") /\ UNCHANGED <<sent, inbox, overrun>>
     \/ /\ ~TooLarge(pipe)
        /\ Write("payload", Pieces(Body(pipe)))
        /\ overrun' = (overrun \/ (pipe[1].cmd = "READ_DATA" /\ Len(Pieces(Body(pipe))) > BufSize))
        /\ Go("header")
  /\ UNCHANGED <<op, fileSize, host, link, device>>

(* Then memory that is not its own has been written to: the program may    *)
(* end at any time, or go on.                                              *)
Crash ==
  /\ overrun /\ pc # "done"
  /\ Stop("CRASHED")
  /\ UNCHANGED <<call, host, link, sent, early, own, pipe, inbox, device>>

(* Without the link the rest of the request is missing and the write fails.*)
ServeFails ==
  /\ pc = "request" /\ ReadNothing /\ WriteFails
  /\ Stop("WRITE_ERROR")
  /\ UNCHANGED <<call, host, link, device>>

(* The end of the image, and the last handshake.                           *)
End ==
  /\ pc = "end" /\ (Read(2) \/ ReadNothing)
  /\ \/ EndIsGood(pipe) /\ Write("DONE_REQ", "none") /\ Go("doneRsp")
     \/ EndIsGood(pipe) /\ WriteFails /\ Stop("WRITE_ERROR")
     \/ ~EndIsGood(pipe) /\ Stop("IMAGE_ERROR") /\ UNCHANGED <<sent, inbox>>
  /\ UNCHANGED <<call, host, link, device>>

Done ==
  /\ pc = "doneRsp" /\ (Read(3) \/ ReadNothing)
  /\ Stop(IF CmdOf(Taken(3)) = "DONE_RSP" THEN "SUCCESS" ELSE "WRITE_FAULT")
  /\ UNCHANGED <<call, host, link, sent, inbox, device>>

-----------------------------------------------------------------------------
(* DumpDeviceInfo and DumpDebugInfo: the device is ready for commands, ... *)
Ready ==
  /\ pc = "ready" /\ (Read(4) \/ ReadNothing)
  /\ IF CmdOf(Taken(4)) = "CMD_READY" THEN Go("execute") ELSE Stop("INVALID_PARAMETER")
  /\ UNCHANGED <<call, host, link, sent, inbox, device>>

(* ... ReadData asks for each of the data, ...                             *)
LastCommand == command = Len(Commands[op])
NextCommand ==
  IF LastCommand THEN Go("switch") /\ UNCHANGED command
                 ELSE Go("execute") /\ command' = command + 1

Execute ==
  /\ pc = "execute"
  /\ \/ Write("EXECUTE_REQ", ClientCmd) /\ Go("executeRsp")
        /\ UNCHANGED command
     \/ WriteFails /\ NextCommand
  /\ UNCHANGED <<call, tries, info, link, early, own, pipe, device>>

(* ... is told how much there is (anything is possible if this is not the  *)
(* packet it is taken for) and asks for that; ...                          *)
LengthFits(words) ==
  IF CmdOf(words) = "EXECUTE_RSP" THEN words[1].arg # "nothing" ELSE Len(words) = 4

ExecuteRsp ==
  /\ pc = "executeRsp"
  /\ \/ /\ Read(4) /\ LengthFits(Taken(4))
        /\ \/ /\ Write("EXECUTE_DATA", ClientCmd)
              /\ Go("data") /\ UNCHANGED command
           \/ WriteFails /\ NextCommand
     \/ /\ Read(4)
        /\ CmdOf(Taken(4)) = "EXECUTE_RSP" => ~LengthFits(Taken(4))
        /\ NextCommand /\ UNCHANGED <<sent, inbox>>
     \/ ReadNothing /\ NextCommand /\ UNCHANGED <<sent, inbox>>
  /\ UNCHANGED <<call, tries, info, link, device>>

(* ... what comes is stored, all that has come.                            *)
Data ==
  /\ pc = "data"
  /\ \/ /\ pipe # <<>> /\ pipe' = SubSeq(pipe, 65, Len(pipe))
        /\ own' = (own /\ \A k \in DOMAIN pipe : pipe[k].to = sent)
        /\ early' = (early \/ Due)
        /\ info' = [info EXCEPT ![command] = IF pipe[1].cmd = "DATA" THEN pipe[1].arg
                                                                   ELSE "stray"]
     \/ ReadNothing /\ UNCHANGED info
  /\ NextCommand
  /\ UNCHANGED <<call, tries, link, sent, inbox, device>>

(* The file for the debug data cannot be created; the device stays in its  *)
(* command mode.                                                           *)
DebugFileFails ==
  /\ pc = "data" /\ op = "debug" /\ Read(64)
  /\ Stop("FILE_ERROR")
  /\ UNCHANGED <<call, host, link, sent, inbox, device>>

(* At the end the device is sent back to its hello.                        *)
Switched ==
  /\ pc = "switched" /\ ModeSwitchRead
  /\ Stop("SUCCESS")
  /\ UNCHANGED <<call, host, link, sent, inbox, device>>

Host ==
  \/ HelloThere \/ HelloMissing \/ PblRespond \/ PblReady \/ ModeSwitch \/ PblSwitched
  \/ Respond
  \/ Open \/ FileFails \/ Header \/ NoHeader \/ Serve \/ Crash \/ ServeFails \/ End \/ Done
  \/ Ready \/ Execute \/ ExecuteRsp \/ Data \/ DebugFileFails \/ Switched

-----------------------------------------------------------------------------
(* The device sends a packet; the first may be lost.                       *)
Say(cmd, arg, to) ==
  /\ pipe' = IF loses THEN pipe ELSE pipe \o Packet(cmd, arg, to)
  /\ loses' = FALSE

untouched == <<call, pc, status, host, link, sent, early, own>>

DeviceBoots ==
  /\ link = "up" /\ mode = "boot"
  /\ Say("HELLO_REQ", "none", 0)
  /\ mode' = "hello"
  /\ UNCHANGED <<untouched, inbox, rest, asks, want, got>>

(* It takes the next message.                                              *)
message == Head(inbox)
Hear(cmd) ==
  /\ link = "up" /\ inbox # <<>> /\ message.cmd = cmd
  /\ inbox' = Tail(inbox)

(* It asks for some of the image, anywhere and in any order, or for more   *)
(* than there is; when it has everything it ends the transfer; it may find *)
(* fault with the image.                                                   *)
Ask(n) ==
  \/ /\ asks < Requests
     /\ \E cmd \in {"READ_DATA", "READ_DATA_64"},
           from \in 0 .. ImageSize - 1, len \in 1 .. MaxRequest :
          /\ cmd = "READ_DATA" => len < Word
          /\ want' = [from |-> from, len |-> len]
          /\ Say(cmd, want', n)
     /\ asks' = asks + 1 /\ mode' = "image"
  \/ /\ \A k \in 1 .. ImageSize : got'[k] # 0
     /\ Say("END_TRANSFER", "SUCCESS", n)
     /\ mode' = "end" /\ want' = NoRequest /\ UNCHANGED asks
  \/ /\ Say("END_TRANSFER", "FAILED", n)
     /\ mode' = "failed" /\ want' = NoRequest /\ UNCHANGED asks

DeviceHello ==
  /\ mode = "hello" /\ Hear("HELLO_RSP")
  /\ UNCHANGED got
  /\ IF message.arg = "command"
     THEN Say("CMD_READY", "none", message.n) /\ mode' = "ready" /\ UNCHANGED <<asks, want>>
     ELSE Ask(message.n)
  /\ UNCHANGED <<untouched, rest>>

DeviceSwitches ==
  /\ mode = "ready" /\ Hear("SWITCH_MODE")
  /\ Say("HELLO_REQ", "none", message.n) /\ mode' = "hello"
  /\ UNCHANGED <<untouched, rest, asks, want, got>>

DeviceExecutes ==
  /\ mode = "ready" /\ Hear("EXECUTE_REQ")
  /\ \E length \in {"nothing", "some"} : Say("EXECUTE_RSP", length, message.n)
  /\ UNCHANGED <<untouched, rest, mode, asks, want, got>>

(* Data; of the debug data some comes later.                               *)
DeviceData ==
  /\ mode = "ready" /\ Hear("EXECUTE_DATA")
  /\ Say("DATA", message.arg, message.n)
  /\ rest' = rest \o IF message.arg = "DEBUG_DATA"
                     THEN Packet("DATA", message.arg, message.n) ELSE <<>>
  /\ UNCHANGED <<untouched, mode, asks, want, got>>

DeviceRest ==
  /\ link = "up" /\ rest # <<>>
  /\ pipe' = pipe \o rest /\ rest' = <<>>
  /\ UNCHANGED <<untouched, inbox, mode, loses, asks, want, got>>

(* A piece of the image; it waits for what is missing.                     *)
DeviceTakes ==
  /\ mode = "image" /\ Hear("payload")
  /\ got' = [k \in 1 .. ImageSize |->
               IF k - want.from \in DOMAIN message.arg THEN message.arg[k - want.from]
                                                       ELSE got[k]]
  /\ IF Len(message.arg) = want.len THEN Ask(message.n)
     ELSE UNCHANGED <<pipe, mode, loses, asks, want>>
  /\ UNCHANGED <<untouched, rest>>

DeviceDone ==
  /\ mode = "end" /\ Hear("DONE_REQ")
  /\ Say("DONE_RSP", "none", message.n) /\ mode' = "done"
  /\ UNCHANGED <<untouched, rest, asks, want, got>>

(* What it does not expect it ignores, or complains about.                 *)
Expected == CASE mode = "hello" -> {"HELLO_RSP"}
              [] mode = "ready" -> {"SWITCH_MODE", "EXECUTE_REQ", "EXECUTE_DATA"}
              [] mode = "image" -> {"payload"}
              [] mode = "end" -> {"DONE_REQ"}
              [] OTHER -> {}

DeviceConfused ==
  /\ inbox # <<>> /\ message.cmd \notin Expected /\ Hear(message.cmd)
  /\ \/ Say("END_TRANSFER", "FAILED", message.n)
     \/ UNCHANGED <<pipe, loses>>
  /\ UNCHANGED <<untouched, rest, mode, asks, want, got>>

LinkDown ==
  /\ link = "up" /\ link' = "down"
  /\ pipe' = <<>> /\ inbox' = <<>> /\ rest' = <<>>
  /\ UNCHANGED <<call, pc, status, host, sent, early, own, mode, loses, asks, want, got>>

Device ==
  \/ DeviceBoots \/ DeviceHello \/ DeviceSwitches \/ DeviceExecutes \/ DeviceData
  \/ DeviceRest \/ DeviceTakes \/ DeviceDone \/ DeviceConfused

Next == Host \/ Device \/ LinkDown

(* The host runs.                                                          *)
Spec == Init /\ [][Next]_vars
FairSpec == Spec /\ WF_vars(Host)

-----------------------------------------------------------------------------
Statuses == {"SUCCESS", "INVALID_HANDLE", "FILE_ERROR", "WRITE_FAULT", "TIMEOUT",
             "INSUFFICIENT_BUFFER", "WRITE_ERROR", "IMAGE_ERROR", "INVALID_PARAMETER",
             "CRASHED"}

(* Types; LoadFlashProg stays within its tries, and a payload larger than  *)
(* dataBuf is the work of a 32-bit request, which nobody checks: the check *)
(* of the others holds, for lengths of more than 32 bits, too.             *)
TypeOK ==
  /\ op \in Operations /\ fileSize \in FileSizes /\ status \in Statuses
  /\ tries \in 0 .. Tries - 1 /\ command \in Nat
  /\ link \in {"up", "down"} /\ sent \in Nat
  /\ {overrun, early, own, loses} \subseteq BOOLEAN
  /\ mode \in {"boot", "hello", "ready", "image", "end", "done", "failed"}
  /\ got \in [1 .. ImageSize -> 0 .. ImageSize]
  /\ \A k \in DOMAIN inbox :
       inbox[k].cmd = "payload" => overrun \/ Len(inbox[k].arg) \in 0 .. BufSize

(* As long as no read came too early, ConnectToDevice succeeds, whether    *)
(* the hello had come, had been read before, or was lost with the data     *)
(* toggle: PblHack needs one packet to get through each way.               *)
PblRecovers ==
  pc = "done" /\ ~early /\ link = "up" =>
    status \notin {"INVALID_HANDLE", "WRITE_FAULT", "INVALID_PARAMETER"}

(* A flash programmer reported as loaded is on the device, every piece of  *)
(* it in its place, and the device has left its boot loader; whatever came *)
(* late and whatever was asked for.                                        *)
ImageLoaded ==
  op = "load" /\ pc = "done" /\ status = "SUCCESS" =>
    mode = "done" /\ \A k \in 1 .. ImageSize : got[k] = k

(* As long as no read came too early, what the host reads is the answer to *)
(* what it sent last (PblHack and ModeSwitch leave host and device in      *)
(* step), and what DumpDeviceInfo prints under a name is what the device   *)
(* gave for it.                                                            *)
InfoIsOwn ==
  ~early => own /\ \A c \in DOMAIN info : info[c] \in {"none", Commands[op][c]}

(* Every operation returns, however slow the device.                       *)
Returns == <>(pc = "done")
=============================================================================
