------------------------- MODULE CommandLine_proofs -------------------------
(***************************************************************************)
(* Proofs about CommandLine, for any number of options, XML files and      *)
(* volumes and any disks: types, that a disk is touched as given, that the *)
(* device has been made ready for what is asked of it, and that success    *)
(* means that everything was done.                                         *)
(***************************************************************************)
EXTENDS CommandLine, SequenceTheorems, WellFoundedInduction, TLAPS

(* The steps there are.                                                    *)
Works ==
  {"load", "init", "sector", "connect", "erase", "dump", "table", "write", "wipe", "test",
   "hello", "prtn", "unprtn", "gpp", "activate", "active", "reset", "preload", "program",
   "release", "split", "xml", "patch", "image", "info", "unsupported", "count", "raw", "port"}
Objects == {"tool", "file", "words", "port", "disk", "sahara", "dload", "firehose"}
Steps ==
  [do : Works \union {"list", "open", "create", "close"}, on : Objects,
   then : {"keep", "ignore", "return", "skip"}]

(* What moves the handle; what a step may be at all, while the programmer  *)
(* is loaded and in a handler.                                             *)
Opening == {"open", "create"}
Moves == Opening \union {"list", "close"}
Loading == {s \in Steps : s.on # "disk" /\ s.do \notin Opening}
Elsewhere == {s \in Loading : s.do # "load"}
Handled ==
  {s \in Steps :
     /\ s.do # "load"
     /\ s.do = "open" => opt.disk \in Drives
     /\ s.do = "create" => opt.out /\ opt.cmd = "WRITE"
     /\ s.on = "disk" => s.do \notin Moves /\ (emergency => opt.cmd \in {"WIPE", "TEST"})}

(* Each step on the disk finds it opened before, and nothing done to the   *)
(* handle in between; the last step is never one.                          *)
Quiet(t, j, k) == \A i \in j .. k - 1 : t[i].do \notin Moves
OpenedIn(t, k) == \E j \in 1 .. k - 1 : t[j].do \in Opening /\ Quiet(t, j + 1, k)
Opens(t) == \A k \in 1 .. Len(t) : t[k].on = "disk" => OpenedIn(t, k)
EndsElsewhere(t) == t # <<>> => t[Len(t)].on # "disk"

PhaseInv ==
  /\ pc = "options" => todo = <<>> /\ mounted = 0 .. Volumes /\ hDisk # Image
  /\ pc = "load" => todo \in Seq(Loading) /\ hDisk # Image
  /\ pc = "handler" => todo \in Seq(Handled)
  /\ pc = "exit" => todo = <<>>

HandleInv ==
  /\ hDisk = Image => opt.out /\ opt.cmd = "WRITE"
  /\ \A k \in 1 .. Len(todo) : todo[k].on = "disk" =>
       \/ OpenedIn(todo, k)
       \/ hDisk \in {opt.disk, Image, Invalid} /\ Quiet(todo, 1, k)
  /\ EndsElsewhere(todo)

VolumeInv ==
  /\ \A d \in Drives : disks[d] # 0 => volumes[disks[d]] = d
  /\ \A v \in (0 .. Volumes) \ mounted : volumes[v] = opt.disk

IInv == TypeOK /\ PhaseInv /\ HandleInv /\ VolumeInv

-----------------------------------------------------------------------------
LEMMA Single ==
  ASSUME NEW S, NEW a \in S, NEW b \in S, NEW c \in S
  PROVE  /\ <<a>> \in Seq(S) /\ <<a, b>> \in Seq(S) /\ <<a, b, c>> \in Seq(S)
  OBVIOUS

(* Steps n times over are the same steps.                                  *)
LEMMA TimesTyped ==
  ASSUME NEW S, NEW steps \in Seq(S), Len(steps) \in {1, 2, 3}, NEW n \in Nat
  PROVE  Times(n, steps) \in Seq(S)
<1> DEFINE l == Len(steps)
<1>1. n * l \in Nat
  BY LenProperties
<1>2. \A k \in 1 .. n * l : ((k - 1) % l) + 1 \in 1 .. l
  <2>1. \A k \in Nat \ {0} : (k - 1) % 1 = 0 /\ (k - 1) % 2 \in 0 .. 1 /\ (k - 1) % 3 \in 0 .. 2
    OBVIOUS
  <2> QED
    BY <1>1, <2>1
<1>3. \A k \in 1 .. n * l : steps[((k - 1) % l) + 1] \in S
  BY <1>2, ElementOfSeq
<1> QED
  BY <1>1, <1>3, IsASeq DEF Times

(* Steps between an opening and a last one that is elsewhere.              *)
LEMMA Bracketed ==
  ASSUME NEW S, S \subseteq Steps,
         NEW head \in Seq(S), NEW work \in Seq(S), NEW last \in S,
         Len(head) > 0, head[Len(head)].do \in Opening,
         \A k \in 1 .. Len(head) : head[k].on # "disk",
         \A k \in 1 .. Len(work) : work[k].do \notin Moves,
         last.on # "disk"
  PROVE  LET t == head \o work \o <<last>>
         IN  t \in Seq(S) /\ Opens(t) /\ EndsElsewhere(t)
<1> DEFINE a == Len(head)
           n == Len(work)
           m == head \o work
           t == m \o <<last>>
<1>1. a \in Nat \ {0} /\ n \in Nat
  BY LenProperties
<1>2. /\ m \in Seq(S) /\ Len(m) = a + n
      /\ \A k \in 1 .. a + n : m[k] = IF k <= a THEN head[k] ELSE work[k - a]
  BY <1>1, ConcatProperties
<1>3. <<last>> \in Seq(S) /\ Len(<<last>>) = 1 /\ <<last>>[1] = last
  OBVIOUS
<1> HIDE DEF m
<1>4. /\ t \in Seq(S) /\ Len(t) = a + n + 1
      /\ \A k \in 1 .. a + n + 1 : t[k] = IF k <= a + n THEN m[k] ELSE <<last>>[k - (a + n)]
  BY <1>1, <1>2, <1>3, ConcatProperties
<1>5. \A k \in 1 .. a + n + 1 :
        t[k] = IF k <= a THEN head[k] ELSE IF k <= a + n THEN work[k - a] ELSE last
  <2> HIDE DEF t, a, n
  <2>1. \A k \in 1 .. a + n : t[k] = m[k]
    BY <1>1, <1>4
  <2>2. t[a + n + 1] = last
    <3>1. a + n + 1 \in 1 .. a + n + 1 /\ ~(a + n + 1 <= a + n) /\ (a + n + 1) - (a + n) = 1
      BY <1>1
    <3> QED
      BY <1>3, <1>4, <3>1
  <2> QED
    BY <1>1, <1>2, <2>1, <2>2
<1> HIDE DEF t
<1>6. Opens(t)
  <2> SUFFICES ASSUME NEW k \in 1 .. a + n + 1, t[k].on = "disk" PROVE OpenedIn(t, k)
    BY <1>4 DEF Opens
  <2>1. k > a /\ k <= a + n
    BY <1>1, <1>5
  <2>2. t[a].do \in Opening /\ a \in 1 .. k - 1
    BY <1>1, <1>5, <2>1
  <2>3. \A i \in a + 1 .. k - 1 : t[i].do \notin Moves
    <3>1. \A i \in a + 1 .. k - 1 : i - a \in 1 .. n /\ t[i] = work[i - a]
      BY <1>1, <1>5, <2>1
    <3> QED
      BY <3>1
  <2> QED
    BY <2>2, <2>3 DEF OpenedIn, Quiet
<1>7. EndsElsewhere(t)
  <2>1. t[a + n + 1] = last
    <3>1. a + n + 1 \in 1 .. a + n + 1 /\ ~(a + n + 1 <= a) /\ ~(a + n + 1 <= a + n)
      BY <1>1
    <3> QED
      BY <1>5, <3>1
  <2> QED
    BY <1>4, <2>1 DEF EndsElsewhere
<1> QED
  BY <1>4, <1>6, <1>7 DEF t, m

(* Steps that are all elsewhere.                                           *)
LEMMA NoneOnDisk ==
  ASSUME NEW t \in Seq(Elsewhere)
  PROVE  Opens(t) /\ EndsElsewhere(t)
<1>1. \A k \in 1 .. Len(t) : t[k] \in Elsewhere
  BY ElementOfSeq
<1>2. t # <<>> => Len(t) \in 1 .. Len(t)
  BY EmptySeq, LenProperties
<1> QED
  BY <1>1, <1>2 DEF Opens, EndsElsewhere, Elsewhere, Loading

-----------------------------------------------------------------------------
(* The sequences of steps: those of a device are elsewhere, those of a     *)
(* disk open it first.                                                     *)
LEMMA BeginningsTyped ==
  OpenPort \in Seq(Elsewhere) /\ Connect \in Seq(Elsewhere) /\ Connection \in Seq(Elsewhere)
<1>1. /\ Step("port", "tool", "ignore") \in Elsewhere
      /\ Step("connect", "firehose", "return") \in Elsewhere
      /\ Step("sector", "tool", "ignore") \in Elsewhere
  BY DEF Step, Steps, Works, Objects, Loading, Elsewhere, Opening
<1>2. OpenPort \in Seq(Elsewhere) /\ Connect \in Seq(Elsewhere)
      /\ <<Step("sector", "tool", "ignore")>> \in Seq(Elsewhere)
  BY <1>1, Single DEF OpenPort, Connect
<1> QED
  BY <1>2, ConcatProperties DEF Connection

LEMMA LoadTyped == Load \in Seq(Loading)
<1>1. LoadFlashProg \in Seq(Loading)
  <2>1. /\ Step("load", "sahara", "keep") \in Loading
        /\ Step("load", "dload", "keep") \in Loading
    BY DEF Step, Steps, Works, Objects, Loading, Elsewhere, Opening
  <2> QED
    BY <2>1, Single DEF LoadFlashProg
<1>2. /\ Step("init", "tool", "ignore") \in Loading
      /\ Step("active", "firehose", "keep") \in Loading
  BY DEF Step, Steps, Works, Objects, Loading, Elsewhere, Opening
<1>3. /\ <<Step("init", "tool", "ignore")>> \in Seq(Loading)
      /\ <<Step("active", "firehose", "keep")>> \in Seq(Loading)
      /\ <<>> \in Seq(Loading)
  BY <1>2, Single, EmptySeq
<1>4. OpenPort \in Seq(Loading) /\ Connect \in Seq(Loading)
  <2>1. Elsewhere \subseteq Loading
    BY DEF Elsewhere
  <2> QED
    BY <2>1, BeginningsTyped, SeqMonotonic
<1> QED
  BY <1>1, <1>3, <1>4, ConcatProperties DEF Load

(* What the protocols do.                                                  *)
LEMMA ProtocolsTyped ==
  ASSUME opt \in Invocations
  PROVE  /\ CreateGPP \in Seq(Elsewhere) /\ ResetDevice \in Seq(Elsewhere)
         /\ FFUProgram \in Seq(Elsewhere) /\ FFULoad \in Seq(Elsewhere)
         /\ FFURawProgram \in Seq(Elsewhere) /\ DumpInfo \in Seq(Elsewhere)
         /\ RawSerialSend \in Seq(Elsewhere) /\ EDownloadProgram \in Seq(Elsewhere)
<1>0. opt.xml \in Nat
  BY CommandAssumption DEF Invocations
<1> DEFINE Tame(t) == t \in Seq(Elsewhere)
<1>1. Tame(CreateGPP)
  <2>1. /\ Step("hello", "dload", "return") \in Elsewhere
        /\ Step("prtn", "dload", "return") \in Elsewhere
        /\ Step("gpp", "dload", "keep") \in Elsewhere
        /\ Step("gpp", "firehose", "keep") \in Elsewhere
        /\ Step("activate", "firehose", "keep") \in Elsewhere
    BY DEF Step, Steps, Works, Objects, Loading, Elsewhere, Opening
  <2>2. /\ Tame(<<Step("hello", "dload", "return"), Step("prtn", "dload", "return"),
                  Step("gpp", "dload", "keep")>>)
        /\ Tame(<<Step("gpp", "firehose", "keep"), Step("activate", "firehose", "keep")>>)
    BY <2>1, Single
  <2> QED
    BY <2>2, BeginningsTyped, ConcatProperties DEF CreateGPP
<1>2. Tame(ResetDevice)
  <2>1. /\ Step("reset", "firehose", "keep") \in Elsewhere
        /\ Step("reset", "dload", "keep") \in Elsewhere
    BY DEF Step, Steps, Works, Objects, Loading, Elsewhere, Opening
  <2>2. /\ Tame(<<Step("reset", "firehose", "keep")>>) /\ Tame(<<Step("reset", "dload", "keep")>>)
        /\ Tame(<<>>)
    BY <2>1, Single, EmptySeq
  <2> QED
    BY <2>2, BeginningsTyped, ConcatProperties DEF ResetDevice
<1>3. Tame(FFUProgram) /\ Tame(FFULoad) /\ Tame(FFURawProgram)
  <2>1. /\ Step("preload", "file", "return") \in Elsewhere
        /\ Step("program", "firehose", "keep") \in Elsewhere
        /\ Step("release", "tool", "ignore") \in Elsewhere
        /\ Step("preload", "file", "skip") \in Elsewhere
        /\ Step("split", "file", "keep") \in Elsewhere
        /\ Step("release", "tool", "keep") \in Elsewhere
    BY DEF Step, Steps, Works, Objects, Loading, Elsewhere, Opening
  <2>2. Tame(<<Step("preload", "file", "return"), Step("program", "firehose", "keep"),
               Step("release", "tool", "ignore")>>)
    BY <2>1, Single
  <2> QED
    BY <2>1, <2>2, Single, BeginningsTyped, ConcatProperties DEF FFUProgram, FFULoad, FFURawProgram
<1>4. Tame(DumpInfo) /\ Tame(RawSerialSend)
  <2>1. /\ Step("info", "sahara", "keep") \in Elsewhere
        /\ Step("unsupported", "tool", "keep") \in Elsewhere
        /\ Step("count", "words", "return") \in Elsewhere
        /\ Step("raw", "port", "keep") \in Elsewhere
    BY DEF Step, Steps, Works, Objects, Loading, Elsewhere, Opening
  <2>2. /\ Tame(<<Step("info", "sahara", "keep")>>) /\ Tame(<<Step("unsupported", "tool", "keep")>>)
        /\ Tame(<<Step("count", "words", "return")>>) /\ Tame(<<Step("raw", "port", "keep")>>)
    BY <2>1, Single
  <2>3. Tame(<<Step("count", "words", "return")>> \o OpenPort)
    BY <2>2, BeginningsTyped, ConcatProperties
  <2> QED
    BY <2>2, <2>3, BeginningsTyped, ConcatProperties DEF DumpInfo, RawSerialSend
<1>5. Tame(EDownloadProgram)
  <2>1. /\ Step("hello", "dload", "return") \in Elsewhere
        /\ Step("prtn", "dload", "ignore") \in Elsewhere
        /\ Step("image", "dload", "keep") \in Elsewhere
        /\ Step("unprtn", "dload", "ignore") \in Elsewhere
        /\ Step("patch", "dload", "return") \in Elsewhere
        /\ Step("xml", "dload", "keep") \in Elsewhere
        /\ Step("active", "dload", "ignore") \in Elsewhere
        /\ Step("reset", "dload", "ignore") \in Elsewhere
    BY DEF Step, Steps, Works, Objects, Loading, Elsewhere, Opening
  <2>2. /\ Step("preload", "file", "return") \in Elsewhere
        /\ Step("xml", "firehose", "return") \in Elsewhere
        /\ Step("patch", "firehose", "ignore") \in Elsewhere
    BY DEF Step, Steps, Works, Objects, Loading, Elsewhere, Opening
  <2>3. Tame(FirehoseXml)
    <3> DEFINE file == <<Step("preload", "file", "return"), Step("xml", "firehose", "return"),
                         Step("patch", "firehose", "ignore")>>
    <3>1. Tame(file) /\ Len(file) = 3
      BY <2>2, Single
    <3> HIDE DEF file
    <3>2. Tame(Times(opt.xml, file))
      BY <1>0, <3>1, TimesTyped
    <3> QED
      BY <3>2, BeginningsTyped, ConcatProperties DEF FirehoseXml, file
  <2>4. Tame(StreamingXml)
    <3> DEFINE file == <<Step("prtn", "dload", "ignore"), Step("patch", "dload", "return"),
                         Step("xml", "dload", "keep")>>
               end == <<Step("active", "dload", "ignore"), Step("reset", "dload", "ignore"),
                        Step("unprtn", "dload", "ignore")>>
    <3>1. Tame(file) /\ Len(file) = 3 /\ Tame(end) /\ Tame(<<Step("hello", "dload", "return")>>)
      BY <2>1, Single
    <3> HIDE DEF file, end
    <3>2. Tame(Times(opt.xml, file))
      BY <1>0, <3>1, TimesTyped
    <3>3. Tame(<<Step("hello", "dload", "return")>> \o Times(opt.xml, file))
      BY <3>1, <3>2, ConcatProperties
    <3> QED
      BY <3>1, <3>3, ConcatProperties DEF StreamingXml, file, end
  <2>5. Tame(<<Step("hello", "dload", "return"), Step("prtn", "dload", "ignore"),
               Step("image", "dload", "keep"), Step("unprtn", "dload", "ignore")>>)
    BY <2>1
  <2> QED
    BY <2>3, <2>4, <2>5 DEF EDownloadProgram
<1> QED
  BY <1>1, <1>2, <1>3, <1>4, <1>5

(* What is done to a disk.                                                 *)
DiskWork == {s \in Handled : s.do \notin Moves}

LEMMA OnDiskTyped ==
  ASSUME opt.disk \in Drives, NEW work \in Seq(DiskWork)
  PROVE  /\ OnDisk(work) \in Seq(Handled)
         /\ Opens(OnDisk(work)) /\ EndsElsewhere(OnDisk(work))
<1> DEFINE l == Step("list", "tool", "ignore")
           o == Step("open", "tool", "keep")
           c == Step("close", "tool", "ignore")
<1>1. /\ l \in Handled /\ o \in Handled /\ c \in Handled
      /\ o.do \in Opening /\ l.on # "disk" /\ o.on # "disk" /\ c.on # "disk"
  BY DEF Step, Steps, Works, Objects, Handled, Opening
<1>2. work \in Seq(Handled) /\ \A k \in 1 .. Len(work) : work[k].do \notin Moves
  <2>1. DiskWork \subseteq Handled
    BY DEF DiskWork
  <2>2. \A k \in 1 .. Len(work) : work[k] \in DiskWork
    BY ElementOfSeq
  <2> QED
    BY <2>1, <2>2, SeqMonotonic DEF DiskWork
<1>3. Handled \subseteq Steps
  BY DEF Handled
<1>4. OnDisk(work) = <<l, o>> \o work \o <<c>>
  BY DEF OnDisk
<1> HIDE DEF l, o, c
<1> DEFINE head == <<l, o>>
<1>5. head \in Seq(Handled) /\ Len(head) = 2 /\ head[1] = l /\ head[2] = o
  BY <1>1
<1> HIDE DEF head
<1> QED
  <2>1. \A k \in 1 .. Len(head) : head[k].on # "disk"
    BY <1>1, <1>5
  <2>2. Len(head) > 0 /\ head[Len(head)].do \in Opening
    BY <1>1, <1>5
  <2>3. LET t == head \o work \o <<c>>
        IN  t \in Seq(Handled) /\ Opens(t) /\ EndsElsewhere(t)
    BY <1>1, <1>2, <1>3, <1>5, <2>1, <2>2, Bracketed
  <2> QED
    BY <1>4, <2>3 DEF head

(* A file in the disk's stead is created, in the same way.                 *)
LEMMA RawDiskTyped ==
  ASSUME opt \in Invocations, opt.disk \in Drives, opt.cmd = "WRITE", ~emergency
  PROVE  /\ RawDiskProgram \in Seq(Handled)
         /\ Opens(RawDiskProgram) /\ EndsElsewhere(RawDiskProgram)
<1> DEFINE p == Step("preload", "file", "return")
           x == Step("xml", "disk", "keep")
           file == <<p, x>>
           files == Times(opt.xml, file)
           create == Step("create", "tool", "keep")
           c == Step("close", "tool", "ignore")
<1>1. p \in DiskWork /\ x \in DiskWork
  BY DEF Step, Steps, Works, Objects, Handled, Opening, Moves, DiskWork
<1>2. file \in Seq(DiskWork) /\ Len(file) = 2
  <2> HIDE DEF p, x
  <2> QED
    BY <1>1
<1>3. opt.xml \in Nat
  BY CommandAssumption DEF Invocations
<1>4. RawDiskProgram = IF opt.out THEN <<create>> \o files \o <<c>> ELSE OnDisk(files)
  BY DEF RawDiskProgram
<1> HIDE DEF file
<1>5. files \in Seq(DiskWork)
  BY <1>2, <1>3, TimesTyped
<1> HIDE DEF files
<1>6. CASE ~opt.out
  BY <1>4, <1>5, <1>6, OnDiskTyped
<1>7. CASE opt.out
  <2>1. /\ create \in Handled /\ c \in Handled
        /\ create.do \in Opening /\ create.on # "disk" /\ c.on # "disk"
    BY <1>7 DEF Step, Steps, Works, Objects, Handled, Opening
  <2>2. files \in Seq(Handled) /\ \A k \in 1 .. Len(files) : files[k].do \notin Moves
    <3>1. DiskWork \subseteq Handled
      BY DEF DiskWork
    <3>2. \A k \in 1 .. Len(files) : files[k] \in DiskWork
      BY <1>5, ElementOfSeq
    <3> QED
      BY <1>5, <3>1, <3>2, SeqMonotonic DEF DiskWork
  <2>3. Handled \subseteq Steps
    BY DEF Handled
  <2> HIDE DEF create, c
  <2> DEFINE head == <<create>>
  <2>4. head \in Seq(Handled) /\ Len(head) = 1 /\ head[1] = create
    BY <2>1
  <2> HIDE DEF head
  <2>5. (\A k \in 1 .. Len(head) : head[k].on # "disk") /\ Len(head) > 0
        /\ head[Len(head)].do \in Opening
    BY <2>1, <2>4
  <2>6. LET t == head \o files \o <<c>>
        IN  t \in Seq(Handled) /\ Opens(t) /\ EndsElsewhere(t)
    BY <2>1, <2>2, <2>3, <2>4, <2>5, Bracketed
  <2> QED
    BY <1>4, <1>7, <2>6 DEF head
<1> QED
  BY <1>6, <1>7

LEMMA ElsewhereHandled ==
  ASSUME NEW t \in Seq(Elsewhere)
  PROVE  t \in Seq(Handled) /\ Opens(t) /\ EndsElsewhere(t)
<1>1. Elsewhere \subseteq Handled
  BY DEF Elsewhere, Loading, Handled, Opening
<1> QED
  BY <1>1, SeqMonotonic, NoneOnDisk

LEMMA HandlerTyped ==
  ASSUME opt \in Invocations, Needed
  PROVE  Handler \in Seq(Handled) /\ Opens(Handler) /\ EndsElsewhere(Handler)
<1> DEFINE Fine(t) == t \in Seq(Handled) /\ Opens(t) /\ EndsElsewhere(t)
           Tame(t) == t \in Seq(Elsewhere)
<1>1. \A t : Tame(t) => Fine(t)
  BY ElsewhereHandled
<1>2. opt.disk \in Drives \union {-1} /\ opt.cmd \in Commands
  BY DEF Invocations, None
<1>3. opt.cmd \notin {"NONE", "RESET", "SPLIT_FFU", "FFU"} => opt.disk \in Drives
  <2>1. opt.disk # -1 => opt.disk \in Drives
    BY <1>2
  <2>2. opt.disk > 0 => opt.disk # -1
    BY <1>2, DriveAssumption
  <2> QED
    BY <2>1, <2>2, <1>2 DEF Needed, Commands, None
<1>4. \A s \in DiskWork : opt.disk \in Drives => Fine(OnDisk(<<s>>))
  <2>1. \A s \in DiskWork : <<s>> \in Seq(DiskWork)
    OBVIOUS
  <2> QED
    BY <2>1, OnDiskTyped
<1>5. CASE opt.cmd = "NONE"
  <2>1. Tame(<<>>)
    BY EmptySeq
  <2> QED
    BY <1>1, <1>5, <2>1 DEF Handler
<1>6. CASE opt.cmd = "DUMP"
  <2>1. CASE emergency
    <3>1. Tame(<<Step("dump", "firehose", "keep")>>)
      <4>1. Step("dump", "firehose", "keep") \in Elsewhere
        BY DEF Step, Steps, Works, Objects, Loading, Elsewhere, Opening
      <4> QED
        BY <4>1, Single
    <3> QED
      BY <1>1, <1>6, <2>1, <3>1, BeginningsTyped, ConcatProperties DEF Handler, RawDiskDump
  <2>2. CASE ~emergency
    <3>1. Step("dump", "disk", "keep") \in DiskWork
      BY <2>2 DEF Step, Steps, Works, Objects, Handled, Opening, Moves, DiskWork
    <3> QED
      BY <1>3, <1>4, <1>6, <2>2, <3>1 DEF Handler, RawDiskDump
  <2> QED
    BY <2>1, <2>2
<1>7. CASE opt.cmd = "ERASE"
  <2>1. CASE emergency
    <3>1. Tame(<<Step("erase", "firehose", "ignore")>>)
      <4>1. Step("erase", "firehose", "ignore") \in Elsewhere
        BY DEF Step, Steps, Works, Objects, Loading, Elsewhere, Opening
      <4> QED
        BY <4>1, Single
    <3> QED
      BY <1>1, <1>7, <2>1, <3>1, BeginningsTyped, ConcatProperties DEF Handler, EraseDisk
  <2>2. CASE ~emergency
    <3>1. Step("erase", "disk", "keep") \in DiskWork
      BY <2>2 DEF Step, Steps, Works, Objects, Handled, Opening, Moves, DiskWork
    <3> QED
      BY <1>3, <1>4, <1>7, <2>2, <3>1 DEF Handler, EraseDisk
  <2> QED
    BY <2>1, <2>2
<1>8. CASE opt.cmd = "GPT"
  <2>1. CASE emergency
    <3> DEFINE table == <<Step("table", "firehose", "ignore")>>
    <3>1. Tame(table) /\ Len(table) = 1
      <4>1. Step("table", "firehose", "ignore") \in Elsewhere
        BY DEF Step, Steps, Works, Objects, Loading, Elsewhere, Opening
      <4> QED
        BY <4>1, Single
    <3> HIDE DEF table
    <3>2. Tame(Times(MaxLuns, table))
      BY <3>1, TimesTyped, CommandAssumption
    <3>3. Tame(Connection \o Times(MaxLuns, table))
      BY <3>2, BeginningsTyped, ConcatProperties
    <3> QED
      BY <1>1, <1>8, <2>1, <3>3 DEF Handler, ReadGPT, table
  <2>2. CASE ~emergency
    <3>1. Step("table", "disk", "keep") \in DiskWork
      BY <2>2 DEF Step, Steps, Works, Objects, Handled, Opening, Moves, DiskWork
    <3> QED
      BY <1>3, <1>4, <1>8, <2>2, <3>1 DEF Handler, ReadGPT
  <2> QED
    BY <2>1, <2>2
<1>9. CASE opt.cmd = "WRITE_GPT"
  <2>1. CASE emergency
    <3>1. Tame(<<Step("write", "firehose", "keep")>>)
      <4>1. Step("write", "firehose", "keep") \in Elsewhere
        BY DEF Step, Steps, Works, Objects, Loading, Elsewhere, Opening
      <4> QED
        BY <4>1, Single
    <3> QED
      BY <1>1, <1>9, <2>1, <3>1, BeginningsTyped, ConcatProperties DEF Handler, WriteGPT
  <2>2. CASE ~emergency
    <3>1. Step("write", "disk", "keep") \in DiskWork
      BY <2>2 DEF Step, Steps, Works, Objects, Handled, Opening, Moves, DiskWork
    <3> QED
      BY <1>3, <1>4, <1>9, <2>2, <3>1 DEF Handler, WriteGPT
  <2> QED
    BY <2>1, <2>2
<1>10. CASE opt.cmd = "WIPE"
  <2>1. Step("wipe", "disk", "keep") \in DiskWork
    BY <1>10 DEF Step, Steps, Works, Objects, Handled, Opening, Moves, DiskWork
  <2> QED
    BY <1>3, <1>4, <1>10, <2>1 DEF Handler, WipeDisk
<1>11. CASE opt.cmd = "TEST"
  <2>1. Step("test", "disk", "keep") \in DiskWork
    BY <1>11 DEF Step, Steps, Works, Objects, Handled, Opening, Moves, DiskWork
  <2> QED
    BY <1>3, <1>4, <1>11, <2>1 DEF Handler, RawDiskTest
<1>12. CASE opt.cmd = "WRITE"
  <2>1. CASE emergency
    BY <1>1, <1>12, <2>1, ProtocolsTyped DEF Handler
  <2>2. CASE ~emergency
    BY <1>3, <1>12, <2>2, RawDiskTyped DEF Handler
  <2> QED
    BY <2>1, <2>2
<1>13. CASE opt.cmd \in {"SPLIT_FFU", "FFU", "LOAD_FFU", "RAW", "GPP", "RESET", "INFO",
                         "DEBUG_INFO"}
  BY <1>1, <1>13, ProtocolsTyped DEF Handler
<1> QED
  BY <1>2, <1>5, <1>6, <1>7, <1>8, <1>9, <1>10, <1>11, <1>12, <1>13 DEF Commands

-----------------------------------------------------------------------------
(* Every option leaves an invocation: fields are set to what they may be.  *)
(* (TRUE is given as a value of BOOLEAN: the provers lose it otherwise.)   *)
LEMMA FlagsTyped ==
  ASSUME NEW o \in Invocations
  PROVE  /\ o.named \in BOOLEAN
         /\ [o EXCEPT !.flash = TRUE] \in Invocations
         /\ [o EXCEPT !.single = TRUE] \in Invocations
         /\ [o EXCEPT !.named = TRUE] \in Invocations
         /\ [o EXCEPT !.named = o.named] \in Invocations
         /\ [o EXCEPT !.out = TRUE] \in Invocations
         /\ [o EXCEPT !.active = TRUE] \in Invocations
         /\ [o EXCEPT !.quiet = TRUE] \in Invocations
<1>1. o.named \in BOOLEAN
  BY DEF Invocations
<1>2. \A v \in BOOLEAN :
        /\ [o EXCEPT !.flash = v] \in Invocations
        /\ [o EXCEPT !.single = v] \in Invocations
        /\ [o EXCEPT !.named = v] \in Invocations
        /\ [o EXCEPT !.out = v] \in Invocations
        /\ [o EXCEPT !.active = v] \in Invocations
        /\ [o EXCEPT !.quiet = v] \in Invocations
  BY DEF Invocations
<1> QED
  BY <1>1, <1>2, Zenon

LEMMA NamedTyped ==
  ASSUME NEW o \in Invocations, NEW cmd \in Commands, NEW p \in Named(o, cmd)
  PROVE  p \in Invocations
<1> DEFINE q == [o EXCEPT !.cmd = cmd]
<1>1. p = [q EXCEPT !.named = TRUE] \/ p = [q EXCEPT !.named = o.named]
  BY Zenon DEF Named
<1>2. q \in Invocations
  BY DEF Invocations
<1>3. \A v \in BOOLEAN : [q EXCEPT !.named = v] \in Invocations
  <2> HIDE DEF q
  <2> QED
    BY <1>2 DEF Invocations
<1>4. o.named \in BOOLEAN
  BY FlagsTyped
<1> QED
  BY <1>1, <1>3, <1>4, Zenon

LEMMA OptionsTyped ==
  ASSUME NEW o \in Invocations,
         NEW p \in TransferOptions(o) \union TargetOptions(o) \union ImageOptions(o)
                     \union OtherOptions(o) \union ConfigOptions(o) \union AtTheEnd(o)
  PROVE  p \in Invocations
<1>0. \A c \in Commands : [o EXCEPT !.cmd = c] \in Invocations
  BY DEF Invocations
<1>1. CASE p \in TransferOptions(o)
  <2>1. CASE p \in Named(o, "DUMP") \union Named(o, "ERASE")
    BY <2>1, NamedTyped DEF Commands
  <2>2. CASE p = [o EXCEPT !.cmd = "WIPE"]
    BY <1>0, <2>2 DEF Commands
  <2>3. CASE o.xml < MaxXml /\ p = [[o EXCEPT !.cmd = "WRITE"] EXCEPT !.xml = o.xml + 1]
    <3>1. o.xml + 1 \in 0 .. MaxXml
      BY <2>3, CommandAssumption DEF Invocations
    <3>2. [o EXCEPT !.cmd = "WRITE"] \in Invocations
      BY <1>0 DEF Commands
    <3>3. \A q \in Invocations, n \in 0 .. MaxXml : [q EXCEPT !.xml = n] \in Invocations
      BY DEF Invocations
    <3> QED
      BY <2>3, <3>1, <3>2, <3>3
  <2>4. o.xml < MaxXml => [o EXCEPT !.cmd = "WRITE", !.xml = @ + 1]
                            = [[o EXCEPT !.cmd = "WRITE"] EXCEPT !.xml = o.xml + 1]
    BY DEF Invocations
  <2>5. \/ p \in Named(o, "DUMP") \union Named(o, "ERASE") \/ p = [o EXCEPT !.cmd = "WIPE"]
        \/ o.xml < MaxXml /\ p = [o EXCEPT !.cmd = "WRITE", !.xml = @ + 1]
    BY <1>1 DEF TransferOptions
  <2> QED
    BY <2>1, <2>2, <2>3, <2>4, <2>5
<1>2. CASE p \in TargetOptions(o)
  <2>1. CASE \E d \in Drives : p = [o EXCEPT !.disk = d]
    BY <2>1 DEF Invocations
  <2>2. CASE p = [o EXCEPT !.flash = TRUE] \/ p = [o EXCEPT !.quiet = TRUE]
    BY <2>2, FlagsTyped, Zenon
  <2>3. CASE p = [o EXCEPT !.cmd = "TEST"] \/ p = [o EXCEPT !.cmd = "GPP"]
    BY <1>0, <2>3 DEF Commands
  <2>4. CASE p = [o EXCEPT !.cmd = "WRITE", !.single = TRUE]
    <3>1. [o EXCEPT !.cmd = "WRITE"] \in Invocations
      BY <1>0 DEF Commands
    <3> QED
      BY <2>4, <3>1, FlagsTyped, Zenon
  <2> QED
    BY <1>2, <2>1, <2>2, <2>3, <2>4, Zenon DEF TargetOptions
<1>3. CASE p \in ImageOptions(o)
  <2>1. CASE \E w \in Named(o, "WRITE_GPT") : p = [w EXCEPT !.single = TRUE]
    <3>1. \A w \in Named(o, "WRITE_GPT") : w \in Invocations
      BY NamedTyped DEF Commands
    <3> QED
      BY <2>1, <3>1, FlagsTyped, Zenon
  <2>2. CASE p = [o EXCEPT !.cmd = "FFU", !.named = TRUE]
    <3>1. [o EXCEPT !.cmd = "FFU"] \in Invocations
      BY <1>0 DEF Commands
    <3> QED
      BY <2>2, <3>1, FlagsTyped, Zenon
  <2>3. CASE \E c \in {"GPT", "INFO", "DEBUG_INFO", "LOAD_FFU", "RAW", "SPLIT_FFU", "RESET"} :
               p = [o EXCEPT !.cmd = c]
    BY <1>0, <2>3 DEF Commands
  <2> QED
    BY <1>3, <2>1, <2>2, <2>3, Zenon DEF ImageOptions
<1>4. CASE p \in OtherOptions(o)
  <2>1. CASE p = [o EXCEPT !.out = TRUE]
    BY <2>1, FlagsTyped, Zenon
  <2>2. CASE p \in {[o EXCEPT !.sector = s] : s \in {512, 4096}}
    BY <2>2 DEF Invocations
  <2>3. CASE p \in MemoryOptions(o)
    <3>1. \A q \in Invocations, m \in {"emmc", "ufs"} : [q EXCEPT !.memory = m] \in Invocations
      BY DEF Invocations
    <3>2. PICK e, u : e = [o EXCEPT !.memory = "emmc"] /\ u = [o EXCEPT !.memory = "ufs"]
      OBVIOUS
    <3>3. e \in Invocations /\ u \in Invocations
      BY <3>1, <3>2
    <3>4. [e EXCEPT !.sector = 512] \in Invocations /\ [u EXCEPT !.sector = 4096] \in Invocations
      BY <3>3 DEF Invocations
    <3>5. /\ [o EXCEPT !.memory = "emmc", !.sector = 512] = [e EXCEPT !.sector = 512]
          /\ [o EXCEPT !.memory = "ufs", !.sector = 4096] = [u EXCEPT !.sector = 4096]
      BY <3>2
    <3> QED
      BY <2>3, <3>4, <3>5 DEF MemoryOptions
  <2> QED
    BY <1>4, <2>1, <2>2, <2>3, SMT DEF OtherOptions
<1>5. CASE p \in ConfigOptions(o)
  <2>1. CASE p = [o EXCEPT !.active = TRUE]
    BY <2>1, FlagsTyped, Zenon
  <2>2. CASE \/ p \in {[o EXCEPT !.protocol = v] : v \in {"STREAMING", "FIREHOSE"}}
             \/ p \in {[o EXCEPT !.chipset = c] : c \in {8960, 8974}}
    BY <2>2 DEF Invocations
  <2> QED
    BY <1>5, <2>1, <2>2, SMT DEF ConfigOptions
<1>6. CASE p \in AtTheEnd(o)
  BY <1>6 DEF AtTheEnd
<1> QED
  BY <1>1, <1>2, <1>3, <1>4, <1>5, <1>6

LEMMA Least ==
  ASSUME NEW S, S \subseteq Nat, S # {}
  PROVE  Min(S) \in S
<1>1. PICK n \in S : \A m \in S : <<m, n>> \notin OpToRel(<, Nat)
  BY NatLessThanWellFounded, WFMin
<1>2. \A m \in S : n <= m
  <2>1. \A m \in S : ~(m < n)
    BY <1>1 DEF OpToRel
  <2> QED
    BY <2>1
<1> QED
  BY <1>2 DEF Min

(* The first volume of a disk is on it, if it is not 0.                    *)
LEMMA FirstVolume ==
  ASSUME NEW d \in Drives, volumes \in [0 .. Volumes -> Drives \union {NoDisk}]
  PROVE  First(d) \in 0 .. Volumes /\ (First(d) # 0 => volumes[First(d)] = d)
<1>1. CASE VolumesOf(d) = {}
  BY <1>1, DriveAssumption DEF First
<1>2. CASE VolumesOf(d) # {}
  <2>1. VolumesOf(d) \subseteq Nat
    BY DriveAssumption DEF VolumesOf
  <2>2. Min(VolumesOf(d)) \in VolumesOf(d)
    BY <1>2, <2>1, Least
  <2> QED
    BY <1>2, <2>2 DEF First, VolumesOf
<1> QED
  BY <1>1, <1>2

-----------------------------------------------------------------------------
(* The next step is one of its phase.                                      *)
LEMMA NextTyped ==
  ASSUME IInv, todo # <<>>
  PROVE  /\ pc \in {"load", "handler"}
         /\ pc = "load" => todo \in Seq(Loading) /\ next \in Loading
         /\ pc = "handler" => todo \in Seq(Handled) /\ next \in Handled
<1>1. pc \in {"load", "handler"}
  BY DEF IInv, TypeOK, PhaseInv
<1>2. \A S : todo \in Seq(S) => next \in S
  BY HeadTailProperties DEF next
<1> QED
  BY <1>1, <1>2 DEF IInv, PhaseInv

(* What is left to do after a step: the rest of it, the last of it, or     *)
(* nothing.  A step on the disk is still behind its opening, which may be  *)
(* the step just taken.                                                    *)
LEMMA TodoStep ==
  ASSUME IInv, todo # <<>>, todo' \in {Tail(todo), <<>>, <<todo[Len(todo)]>>}
  PROVE  /\ pc = "load" => todo' \in Seq(Loading)
         /\ pc = "handler" => todo' \in Seq(Handled)
         /\ EndsElsewhere(todo')
         /\ \A k \in 1 .. Len(todo') : todo'[k].on = "disk" =>
              \/ OpenedIn(todo', k)
              \/ /\ Quiet(todo', 1, k)
                 /\ \/ next.do \in Opening
                    \/ next.do \notin Moves /\ hDisk \in {opt.disk, Image, Invalid}
<1>1. PICK S : (pc = "load" => S = Loading) /\ (pc = "handler" => S = Handled)
  OBVIOUS
<1>2. todo \in Seq(S)
  BY <1>1, NextTyped
<1>3. /\ Len(todo) \in Nat \ {0} /\ Tail(todo) \in Seq(S) /\ Len(Tail(todo)) = Len(todo) - 1
      /\ \A i \in 1 .. Len(Tail(todo)) : Tail(todo)[i] = todo[i + 1]
  BY <1>2, HeadTailProperties, EmptySeq
<1>4. todo[Len(todo)] \in S /\ todo[Len(todo)].on # "disk"
  <2>1. todo[Len(todo)].on # "disk"
    BY DEF IInv, HandleInv, EndsElsewhere
  <2> QED
    BY <1>2, <1>3, <2>1, ElementOfSeq
<1>5. next = todo[1]
  BY <1>2 DEF next
<1>6. CASE todo' = Tail(todo)
  <2>1. EndsElsewhere(todo')
    <3>1. todo' # <<>> => Len(todo') \in 1 .. Len(todo')
      BY <1>3, <1>6, EmptySeq
    <3> QED
      BY <1>3, <1>4, <1>6, <3>1 DEF EndsElsewhere
  <2>2. ASSUME NEW k \in 1 .. Len(todo'), todo'[k].on = "disk"
        PROVE  \/ OpenedIn(todo', k)
               \/ /\ Quiet(todo', 1, k)
                  /\ \/ next.do \in Opening
                     \/ next.do \notin Moves /\ hDisk \in {opt.disk, Image, Invalid}
    <3>1. k + 1 \in 1 .. Len(todo) /\ todo[k + 1].on = "disk" /\ k \in Nat \ {0}
      BY <1>3, <1>6, <2>2
    <3>2. \A i \in 2 .. k : todo'[i - 1] = todo[i]
      BY <1>3, <1>6, <3>1
    <3>3. CASE OpenedIn(todo, k + 1)
      <4>1. PICK j \in 1 .. k : todo[j].do \in Opening /\ Quiet(todo, j + 1, k + 1)
        <5>1. (k + 1) - 1 = k
          BY <3>1
        <5> QED
          BY <3>3, <5>1 DEF OpenedIn
      <4>2. \A i \in j + 1 .. k : todo[i].do \notin Moves
        <5>1. (k + 1) - 1 = k
          BY <3>1
        <5> QED
          BY <4>1, <5>1 DEF Quiet
      <4>3. \A i \in j .. k - 1 : todo'[i].do \notin Moves
        <5>1. \A i \in j .. k - 1 : i + 1 \in j + 1 .. k /\ i + 1 \in 2 .. k /\ (i + 1) - 1 = i
          BY <3>1, <4>1
        <5> QED
          BY <3>2, <4>2, <5>1
      <4>4. CASE j = 1
        BY <1>5, <4>1, <4>3, <4>4 DEF Quiet
      <4>5. CASE j # 1
        <5>1. j - 1 \in 1 .. k - 1 /\ j \in 2 .. k /\ (j - 1) + 1 = j
          BY <3>1, <4>1, <4>5
        <5>2. todo'[j - 1].do \in Opening /\ Quiet(todo', (j - 1) + 1, k)
          BY <3>2, <4>1, <4>3, <5>1 DEF Quiet
        <5> QED
          BY <5>1, <5>2 DEF OpenedIn
      <4> QED
        BY <4>4, <4>5
    <3>4. CASE hDisk \in {opt.disk, Image, Invalid} /\ Quiet(todo, 1, k + 1)
      <4>1. \A i \in 1 .. k : todo[i].do \notin Moves
        <5>1. (k + 1) - 1 = k
          BY <3>1
        <5> QED
          BY <3>4, <5>1 DEF Quiet
      <4>2. \A i \in 1 .. k - 1 : todo'[i].do \notin Moves
        <5>1. \A i \in 1 .. k - 1 : i + 1 \in 1 .. k /\ i + 1 \in 2 .. k /\ (i + 1) - 1 = i
          BY <3>1
        <5> QED
          BY <3>2, <4>1, <5>1
      <4>3. next.do \notin Moves
        BY <1>5, <3>1, <4>1
      <4> QED
        BY <3>4, <4>2, <4>3 DEF Quiet
    <3> QED
      BY <3>1, <3>3, <3>4 DEF IInv, HandleInv
  <2> QED
    BY <1>1, <1>3, <1>6, <2>1, <2>2
<1>7. CASE todo' = <<>>
  <2>1. todo' \in Seq(S) /\ Len(todo') = 0
    BY <1>7, EmptySeq
  <2> QED
    BY <1>1, <1>7, <2>1 DEF EndsElsewhere
<1>8. CASE todo' = <<todo[Len(todo)]>>
  <2> DEFINE e == todo[Len(todo)]
  <2>0. todo' = <<e>> /\ e \in S /\ e.on # "disk"
    BY <1>4, <1>8
  <2> HIDE DEF e
  <2>1. todo' \in Seq(S) /\ Len(todo') = 1 /\ todo'[1] = e
    BY <2>0
  <2> QED
    BY <1>1, <2>0, <2>1 DEF EndsElsewhere
<1> QED
  BY <1>6, <1>7, <1>8

(* The initial states.                                                     *)
LEMMA InitInv == Init => IInv
<1> SUFFICES ASSUME Init PROVE IInv
  OBVIOUS
<1>1. todo = <<>> /\ Len(todo) = 0
  BY DEF Init
<1>2. opt \in Invocations
  <2>1. 0 \in 0 .. MaxXml
    BY CommandAssumption
  <2> QED
    BY <2>1 DEF Init, Defaults, Invocations, Commands, None
<1>3. TypeOK
  <2>1. 0 \in 0 .. Volumes
    BY DriveAssumption
  <2>2. left \in 0 .. MaxOptions
    BY CommandAssumption DEF Init
  <2> QED
    BY <1>2, <2>1, <2>2 DEF Init, DiskInit, TypeOK
<1>4. PhaseInv
  BY <1>1 DEF Init, DiskInit, PhaseInv, Image, Invalid
<1>5. HandleInv
  BY <1>1 DEF Init, DiskInit, HandleInv, EndsElsewhere, Image, Invalid
<1>6. VolumeInv
  BY DEF Init, DiskInit, VolumeInv
<1> QED
  BY <1>3, <1>4, <1>5, <1>6 DEF IInv

(* The disks are listed, whoever asks for it.                              *)
LEMMA ListStep ==
  ASSUME TypeOK, VolumeInv, InitDiskList
  PROVE  /\ volumes' = volumes /\ mounted' = mounted /\ hDisk' \in {Closed, Invalid}
         /\ disks' \in [Drives -> 0 .. Volumes]
         /\ \A d \in Drives : disks'[d] # 0 => volumes'[disks'[d]] = d
BY FirstVolume DEF TypeOK, InitDiskList

(* The steps on the command line and between the phases.                   *)
LEMMA OptionStep ==
  ASSUME IInv, GiveOption \/ ListOption \/ BadOption
  PROVE  IInv'
<1>1. /\ pc = "options" /\ todo = <<>> /\ todo' = <<>> /\ Len(todo') = 0
      /\ mounted = 0 .. Volumes /\ hDisk # Image /\ left \in Nat \ {0}
  BY CommandAssumption
  DEF IInv, TypeOK, PhaseInv, GiveOption, ListOption, BadOption
<1>2. CASE GiveOption
  <2>1. opt' \in Invocations
    BY <1>2, OptionsTyped DEF IInv, TypeOK, GiveOption
  <2>2. left' \in 0 .. MaxOptions
    BY <1>1, <1>2, CommandAssumption DEF IInv, TypeOK, GiveOption
  <2>3. UNCHANGED <<volumes, disks, mounted, hDisk, pc, status, port, firehose, emergency>>
    BY <1>2 DEF GiveOption, diskVars
  <2>4. TypeOK'
    BY <2>1, <2>2, <2>3 DEF IInv, TypeOK
  <2>5. PhaseInv' /\ HandleInv' /\ VolumeInv'
    BY <1>1, <2>3 DEF IInv, PhaseInv, HandleInv, VolumeInv, EndsElsewhere
  <2> QED
    BY <2>4, <2>5 DEF IInv
<1>3. CASE ListOption
  <2>1. /\ volumes' = volumes /\ mounted' = mounted /\ hDisk' \in {Closed, Invalid}
        /\ disks' \in [Drives -> 0 .. Volumes]
        /\ \A d \in Drives : disks'[d] # 0 => volumes'[disks'[d]] = d
    BY <1>3, ListStep DEF IInv, ListOption
  <2>2. left' \in 0 .. MaxOptions
    BY <1>1, <1>3, CommandAssumption DEF IInv, TypeOK, ListOption
  <2>3. UNCHANGED <<opt, pc, status, port, firehose, emergency>>
    BY <1>3 DEF ListOption
  <2>4. TypeOK'
    BY <2>1, <2>2, <2>3 DEF IInv, TypeOK
  <2>5. PhaseInv' /\ HandleInv' /\ VolumeInv'
    BY <1>1, <2>1, <2>3 DEF IInv, PhaseInv, HandleInv, VolumeInv, EndsElsewhere, Closed, Image,
                           Invalid
  <2> QED
    BY <2>4, <2>5 DEF IInv
<1>4. CASE BadOption
  <2>1. /\ UNCHANGED <<volumes, disks, mounted, hDisk, opt, left, port, firehose, emergency>>
        /\ status' = "USAGE" /\ pc' = "exit"
    BY <1>4 DEF BadOption, diskVars
  <2>2. TypeOK'
    BY <2>1 DEF IInv, TypeOK
  <2>3. PhaseInv' /\ HandleInv' /\ VolumeInv'
    BY <1>1, <2>1 DEF IInv, PhaseInv, HandleInv, VolumeInv, EndsElsewhere
  <2> QED
    BY <2>2, <2>3 DEF IInv
<1> QED
  BY <1>2, <1>3, <1>4

LEMMA PhaseStep ==
  ASSUME IInv, OptionsEnd \/ Dispatch \/ Exit
  PROVE  IInv'
<1>1. /\ UNCHANGED <<volumes, disks, mounted, hDisk, opt, left, port, firehose, emergency>>
      /\ VolumeInv'
  BY DEF IInv, VolumeInv, OptionsEnd, Dispatch, Exit, diskVars
<1>2. CASE OptionsEnd
  <2>1. todo' \in Seq(Loading)
    <3>1. <<>> \in Seq(Loading)
      BY EmptySeq
    <3> QED
      BY <1>2, <3>1, LoadTyped DEF OptionsEnd
  <2>2. \A k \in 1 .. Len(todo') : todo'[k].on # "disk"
    <3>1. \A k \in 1 .. Len(todo') : todo'[k] \in Loading
      BY <2>1, ElementOfSeq
    <3> QED
      BY <3>1 DEF Loading
  <2>3. todo' # <<>> => Len(todo') \in 1 .. Len(todo')
    BY <2>1, EmptySeq, LenProperties
  <2>4. pc = "options" /\ pc' = "load" /\ status' = status
    BY <1>2 DEF OptionsEnd
  <2>5. TypeOK'
    BY <1>1, <2>4 DEF IInv, TypeOK
  <2>6. PhaseInv' /\ HandleInv'
    BY <1>1, <2>1, <2>2, <2>3, <2>4 DEF IInv, PhaseInv, HandleInv, EndsElsewhere
  <2> QED
    BY <1>1, <2>5, <2>6 DEF IInv
<1>3. CASE Dispatch
  <2>1. pc = "load" /\ todo = <<>> /\ hDisk # Image /\ Len(todo) = 0
    BY <1>3 DEF IInv, PhaseInv, Dispatch
  <2>2. /\ status' \in {"USAGE", "SUCCESS", status}
        /\ \/ pc' = "exit" /\ todo' = todo
           \/ pc' = "handler" /\ Needed /\ todo' = Handler
    BY <1>3 DEF Dispatch
  <2>3. TypeOK'
    BY <1>1, <2>2 DEF IInv, TypeOK
  <2>4. CASE pc' = "exit" /\ todo' = todo
    <3>1. PhaseInv' /\ HandleInv'
      BY <1>1, <2>1, <2>4 DEF IInv, PhaseInv, HandleInv, EndsElsewhere
    <3> QED
      BY <1>1, <2>3, <3>1 DEF IInv
  <2>5. CASE pc' = "handler" /\ Needed /\ todo' = Handler
    <3>1. Handler \in Seq(Handled) /\ Opens(Handler) /\ EndsElsewhere(Handler)
      BY <2>5, HandlerTyped DEF IInv, TypeOK
    <3>2. Handled' = Handled
      BY <1>1 DEF Handled
    <3>3. PhaseInv'
      BY <1>1, <2>5, <3>1, <3>2 DEF PhaseInv
    <3>4. HandleInv'
      <4>1. EndsElsewhere(todo)' /\ \A k \in 1 .. Len(todo') :
                todo'[k].on = "disk" => OpenedIn(todo', k)
        BY <2>5, <3>1, Zenon DEF Opens, EndsElsewhere
      <4> QED
        BY <1>1, <2>1, <4>1 DEF HandleInv, OpenedIn, Quiet
    <3> QED
      BY <1>1, <2>3, <3>3, <3>4 DEF IInv
  <2> QED
    BY <2>2, <2>4, <2>5
<1>4. CASE Exit
  <2>1. pc' = "exit" /\ todo = <<>> /\ todo' = <<>> /\ Len(todo') = 0 /\ status' = status
    BY <1>4 DEF Exit
  <2>2. TypeOK' /\ PhaseInv'
    BY <1>1, <2>1 DEF IInv, TypeOK, PhaseInv
  <2>3. HandleInv'
    BY <1>1, <2>1 DEF IInv, HandleInv, EndsElsewhere
  <2> QED
    BY <1>1, <2>2, <2>3 DEF IInv
<1> QED
  BY <1>2, <1>3, <1>4

-----------------------------------------------------------------------------
(* A step of a command or of loading the programmer.                       *)
Stepping ==
  \/ PortOpened \/ Loaded \/ FirehoseInit \/ SetDiskSectorSize \/ Connected
  \/ DisksListed \/ DiskOpened \/ FileOpened \/ DiskClosed \/ Worked

(* What its status makes of the control.                                   *)
Turned ==
  /\ opt' = opt /\ left' = left
  /\ todo' \in {Tail(todo), <<>>, <<todo[Len(todo)]>>}
  /\ pc' = pc \/ (pc' = "exit" /\ todo' = <<>>)
  /\ status' \in {"SUCCESS", "FAULT", "USAGE", "CRASH"}

LEMMA ReturnedTurns ==
  ASSUME IInv, todo # <<>>, NEW ok \in BOOLEAN, NEW faults, Returned(ok, faults)
  PROVE  Turned
<1>1. opt' = opt /\ left' = left
  BY DEF Returned
<1>2. todo' \in {Tail(todo), <<>>, <<todo[Len(todo)]>>}
  BY DEF Returned, Last
<1>3. pc' = pc \/ (pc' = "exit" /\ todo' = <<>>)
  <2>1. pc' = IF pc = "load" /\ ~ok /\ next.then = "return" THEN "exit" ELSE pc
    BY Zenon DEF Returned
  <2>2. ~ok /\ next.then = "return" => todo' = <<>>
    BY DEF Returned
  <2> QED
    BY <2>1, <2>2, Zenon
<1>4. status' \in {"SUCCESS", "FAULT", status}
  BY DEF Returned
<1> QED
  BY <1>1, <1>2, <1>3, <1>4 DEF Turned, IInv, TypeOK

LEMMA TakenTurns ==
  ASSUME IInv, todo # <<>>, NEW ok \in BOOLEAN, Taken(ok)
  PROVE  Turned
BY ReturnedTurns DEF Taken

(* Outcomes are outcomes.                                                  *)
LEMMA OutcomesTyped ==
  ASSUME IInv
  PROVE  Outcomes \subseteq BOOLEAN
<1>1. port \in BOOLEAN /\ opt \in Invocations
  BY DEF IInv, TypeOK
<1>2. opt.named \in BOOLEAN
  BY <1>1, FlagsTyped, Zenon
<1> QED
  BY <1>1, <1>2, Zenon DEF Outcomes

LEMMA StepTurns ==
  ASSUME IInv, Stepping
  PROVE  todo # <<>> /\ Turned
<1>0. port \in BOOLEAN /\ TRUE \in BOOLEAN /\ FALSE \in BOOLEAN
  BY DEF IInv, TypeOK
<1>1. CASE PortOpened
  BY <1>1, TakenTurns, Zenon DEF PortOpened, Does
<1>2. CASE Loaded
  BY <1>0, <1>2, TakenTurns, Zenon DEF Loaded, Does
<1>3. CASE FirehoseInit
  BY <1>0, <1>3, TakenTurns, Zenon DEF FirehoseInit, Does
<1>4. CASE SetDiskSectorSize
  BY <1>0, <1>4, TakenTurns, Zenon DEF SetDiskSectorSize, Does
<1>5. CASE Connected
  <2>1. CASE firehose.ready
    BY <1>0, <1>5, <2>1, TakenTurns, Zenon DEF Connected, Does
  <2>2. CASE ~firehose.ready
    BY <1>5, <2>2 DEF Connected, Does, Turned
  <2> QED
    BY <2>1, <2>2
<1>6. CASE DisksListed
  BY <1>0, <1>6, TakenTurns, Zenon DEF DisksListed, Does
<1>7. CASE DiskOpened
  <2>1. /\ todo # <<>> /\ todo' = Tail(todo) /\ status' = "SUCCESS"
        /\ opt' = opt /\ left' = left /\ pc' = pc
    BY <1>7, Zenon DEF DiskOpened, Does
  <2> QED
    BY <2>1 DEF Turned
<1>8. CASE FileOpened
  <2>1. CASE hDisk' # Invalid
    BY <1>0, <1>8, <2>1, TakenTurns, Zenon DEF FileOpened, Does
  <2>2. CASE hDisk' = Invalid
    <3>1. /\ todo # <<>> /\ todo' = <<todo[Len(todo)]>> /\ status' = "FAULT"
          /\ opt' = opt /\ left' = left /\ pc' = pc
      BY <1>8, <2>2, Zenon DEF FileOpened, Does, Last
    <3> QED
      BY <3>1 DEF Turned
  <2> QED
    BY <2>1, <2>2
<1>9. CASE DiskClosed
  BY <1>0, <1>9, TakenTurns, Zenon DEF DiskClosed, Does
<1>10. CASE Worked
  <2>1. todo # <<>> /\ ((\E ok \in Outcomes : Taken(ok)) \/ Returned(TRUE, {"unnoticed"}))
    BY <1>10, Zenon DEF Worked
  <2>2. CASE \E ok \in Outcomes : Taken(ok)
    BY <2>1, <2>2, OutcomesTyped, TakenTurns, Zenon
  <2>3. CASE Returned(TRUE, {"unnoticed"})
    BY <1>0, <2>1, <2>3, ReturnedTurns, Zenon
  <2> QED
    BY <2>1, <2>2, <2>3
<1> QED
  BY <1>1, <1>2, <1>3, <1>4, <1>5, <1>6, <1>7, <1>8, <1>9, <1>10 DEF Stepping

(* What it makes of the disks: only four kinds of step touch them, and     *)
(* only in a handler is one opened.                                        *)
LEMMA StepHandles ==
  ASSUME IInv, Stepping
  PROVE  /\ volumes' = volumes /\ disks' \in [Drives -> 0 .. Volumes]
         /\ mounted' \subseteq mounted
         /\ \A v \in mounted \ mounted' : volumes[v] = opt.disk
         /\ \A d \in Drives : disks'[d] # 0 => volumes[disks'[d]] = d
         /\ next.do \notin Moves => hDisk' = hDisk
         /\ next.do = "open" => opt.disk \in Drives /\ hDisk' \in {opt.disk, Invalid}
         /\ next.do = "create" => /\ opt.out /\ opt.cmd = "WRITE"
                                  /\ hDisk' \in {Image, Invalid}
         /\ next.do \in {"list", "close"} => hDisk' \in {Closed, Invalid}
<1>0. todo # <<>>
  BY StepTurns
<1>1. /\ disks \in [Drives -> 0 .. Volumes]
      /\ \A d \in Drives : disks[d] # 0 => volumes[disks[d]] = d
  BY DEF IInv, TypeOK, VolumeInv
<1>2. next.do = "open" => opt.disk \in Drives
  BY <1>0, NextTyped DEF Loading, Handled, Opening
<1>3. next.do = "create" => opt.out /\ opt.cmd = "WRITE"
  BY <1>0, NextTyped DEF Loading, Handled, Opening
<1>4. CASE PortOpened \/ Loaded \/ FirehoseInit \/ SetDiskSectorSize \/ Connected \/ Worked
  <2>1. UNCHANGED <<volumes, disks, mounted, hDisk>>
    BY <1>4 DEF PortOpened, Loaded, FirehoseInit, SetDiskSectorSize, Connected, Worked, diskVars
  <2>2. next.do \notin Moves
    BY <1>4 DEF PortOpened, Loaded, FirehoseInit, SetDiskSectorSize, Connected, Worked, Does,
                Moves, Opening
  <2> QED
    BY <1>1, <2>1, <2>2 DEF Moves, Opening
<1>5. CASE DisksListed
  <2>1. next.do = "list"
    BY <1>5 DEF DisksListed, Does
  <2>2. /\ volumes' = volumes /\ mounted' = mounted /\ hDisk' \in {Closed, Invalid}
        /\ disks' \in [Drives -> 0 .. Volumes]
        /\ \A d \in Drives : disks'[d] # 0 => volumes'[disks'[d]] = d
    BY <1>5, ListStep DEF IInv, DisksListed
  <2> QED
    BY <2>1, <2>2 DEF Moves
<1>6. CASE DiskOpened
  <2>1. next.do = "open" /\ Dismount(opt.disk) /\ hDisk' \in {opt.disk, Invalid}
        /\ UNCHANGED <<volumes, disks>>
    BY <1>6 DEF DiskOpened, Does, OpenDevice
  <2>2. mounted' = mounted \/ (disks[opt.disk] # 0 /\ mounted' = mounted \ {disks[opt.disk]})
    <3>1. CASE disks[opt.disk] = 0
      BY <2>1, <3>1 DEF Dismount
    <3>2. CASE disks[opt.disk] # 0
      BY <2>1, <3>2, Zenon DEF Dismount
    <3> QED
      BY <3>1, <3>2
  <2> QED
    BY <1>1, <1>2, <2>1, <2>2 DEF Moves, Opening
<1>7. CASE FileOpened
  <2>1. next.do = "create" /\ hDisk' \in {Image, Invalid} /\ UNCHANGED <<volumes, disks, mounted>>
    BY <1>7 DEF FileOpened, Does, OpenDiskFile
  <2> QED
    BY <1>1, <1>3, <2>1 DEF Moves, Opening
<1>8. CASE DiskClosed
  <2>1. /\ next.do = "close" /\ hDisk' \in {Closed, Invalid}
        /\ UNCHANGED <<volumes, disks, mounted>>
    BY <1>8 DEF DiskClosed, Does, CloseDevice
  <2> QED
    BY <1>1, <2>1 DEF Moves, Opening
<1> QED
  BY <1>4, <1>5, <1>6, <1>7, <1>8 DEF Stepping

(* What it makes of the port and of the object fh; the programmer is       *)
(* loaded, once and for all, before any handler.                           *)
Pages == {512, 4096}
Object == [ready : BOOLEAN, connected : BOOLEAN, sector : Pages]

(* The object as connecting it leaves it.                                  *)
Tuned(f, v, s) == [f EXCEPT !.connected = v, !.sector = s]

LEMMA Reconnected ==
  ASSUME NEW f \in Object, NEW v \in BOOLEAN, NEW s \in Pages
  PROVE  Tuned(f, v, s) \in Object
<1>1. [f EXCEPT !.connected = v] \in Object
  BY DEF Object
<1> DEFINE g == [f EXCEPT !.connected = v]
<1>2. Tuned(f, v, s) = [g EXCEPT !.sector = s]
  BY DEF Tuned
<1> HIDE DEF g
<1>3. g \in Object
  BY <1>1 DEF g
<1>4. [g EXCEPT !.sector = s] \in Object
  BY <1>3 DEF Object
<1> QED
  BY <1>2, <1>4

LEMMA StepSpeaks ==
  ASSUME IInv, Stepping
  PROVE  /\ port' \in BOOLEAN /\ emergency' \in BOOLEAN
         /\ firehose' \in Object
         /\ pc = "handler" => emergency' = emergency
<1>0. /\ port \in BOOLEAN /\ emergency \in BOOLEAN /\ firehose \in Object
      /\ TRUE \in BOOLEAN /\ FALSE \in BOOLEAN
  BY DEF IInv, TypeOK, Object, Pages
<1>1. CASE PortOpened
  BY <1>0, <1>1 DEF PortOpened
<1>2. CASE Loaded
  <2>1. pc # "handler"
    <3>1. next.do = "load" /\ todo # <<>>
      BY <1>2 DEF Loaded, Does
    <3> QED
      BY <3>1, NextTyped DEF Handled
  <2>2. emergency' = TRUE /\ port' = port /\ firehose' = firehose
    BY <1>2 DEF Loaded
  <2> QED
    BY <1>0, <2>1, <2>2, Zenon
<1>3. CASE FirehoseInit
  <2>1. \A v \in BOOLEAN : [firehose EXCEPT !.ready = v] \in Object
    BY <1>0 DEF Object
  <2>2. firehose' = [firehose EXCEPT !.ready = TRUE] /\ port' = port /\ emergency' = emergency
    BY <1>3, Zenon DEF FirehoseInit
  <2>3. firehose' \in Object
    BY <1>0, <2>1, <2>2, Zenon
  <2> QED
    BY <1>0, <2>2, <2>3, Zenon
<1>4. CASE SetDiskSectorSize
  <2>1. [firehose EXCEPT !.sector = opt.sector] \in Object
    <3>1. opt.sector \in Pages
      BY DEF IInv, TypeOK, Invocations, Pages
    <3> QED
      BY <1>0, <3>1 DEF Object
  <2>2. firehose' = [firehose EXCEPT !.sector = opt.sector] /\ port' = port /\ emergency' = emergency
    BY <1>4, Zenon DEF SetDiskSectorSize
  <2> QED
    BY <1>0, <2>1, <2>2, Zenon
<1>5. CASE Connected
  <2>2. port' = port /\ emergency' = emergency
    BY <1>5 DEF Connected
  <2>3. CASE firehose.ready
    <3>1. \E ok \in {FALSE, port}, size \in {firehose.sector, SectorSize(firehose.sector)} :
            firehose' = Tuned(firehose, ok, size)
      BY <1>5, <2>3, Zenon DEF Connected, Tuned
    <3>2. /\ \A size \in {firehose.sector, SectorSize(firehose.sector)} : size \in Pages
          /\ \A ok \in {FALSE, port} : ok \in BOOLEAN
      <4>1. \A size \in {firehose.sector, SectorSize(firehose.sector)} : size \in Pages
        BY <1>0 DEF SectorSize, Object, Pages
      <4>2. \A ok \in {FALSE, port} : ok \in BOOLEAN
        BY <1>0, Zenon
      <4> QED
        BY <4>1, <4>2
    <3>3. firehose' \in Object
      BY <1>0, <3>1, <3>2, Reconnected, Zenon
    <3> QED
      BY <1>0, <2>2, <3>3, Zenon
  <2>4. CASE ~firehose.ready
    BY <1>0, <1>5, <2>2, <2>4 DEF Connected
  <2> QED
    BY <2>3, <2>4
<1>6. CASE DisksListed \/ DiskOpened \/ FileOpened \/ DiskClosed \/ Worked
  <2>1. port' = port /\ emergency' = emergency /\ firehose' = firehose
    BY <1>6, Zenon DEF DisksListed, DiskOpened, FileOpened, DiskClosed, Worked
  <2> QED
    BY <1>0, <2>1, Zenon
<1> QED
  BY <1>1, <1>2, <1>3, <1>4, <1>5, <1>6 DEF Stepping

LEMMA SteppingStep ==
  ASSUME IInv, Stepping
  PROVE  IInv'
<1>1. /\ todo # <<>> /\ opt' = opt /\ left' = left
      /\ todo' \in {Tail(todo), <<>>, <<todo[Len(todo)]>>}
      /\ pc' = pc \/ (pc' = "exit" /\ todo' = <<>>)
      /\ status' \in {"SUCCESS", "FAULT", "USAGE", "CRASH"}
  BY StepTurns DEF Turned
<1>2. pc \in {"load", "handler"}
  BY <1>1, NextTyped
<1>3. hDisk' \in Drives \union {Closed, Image, Invalid} /\ hDisk \in Drives \union {Closed, Image, Invalid}
  <2>1. hDisk \in Drives \union {Closed, Image, Invalid}
    BY DEF IInv, TypeOK
  <2> QED
    BY <2>1, StepHandles DEF Moves, Opening
<1>4. hDisk' = Image => (next.do = "create" \/ hDisk = Image)
  <2>1. Image # Closed /\ Image # Invalid /\ (opt.disk \in Drives => opt.disk # Image)
    BY DriveAssumption DEF Image, Closed, Invalid
  <2> QED
    BY <2>1, StepHandles DEF Moves, Opening
<1>5. TypeOK'
  <2>1. /\ volumes \in [0 .. Volumes -> Drives \union {NoDisk}]
        /\ mounted \subseteq 0 .. Volumes /\ opt \in Invocations /\ left \in 0 .. MaxOptions
    BY DEF IInv, TypeOK
  <2>2. pc' \in {"options", "load", "handler", "exit"}
    BY <1>1, <1>2
  <2>3. /\ volumes' \in [0 .. Volumes -> Drives \union {NoDisk}]
        /\ disks' \in [Drives -> 0 .. Volumes] /\ mounted' \subseteq 0 .. Volumes
    BY <2>1, StepHandles
  <2>4. /\ port' \in BOOLEAN /\ emergency' \in BOOLEAN
        /\ firehose' \in [ready : BOOLEAN, connected : BOOLEAN, sector : {512, 4096}]
    BY StepSpeaks DEF Object, Pages
  <2> QED
    BY <1>1, <1>3, <2>1, <2>2, <2>3, <2>4 DEF TypeOK
<1>6. PhaseInv'
  <2>1. CASE pc' = "exit" /\ todo' = <<>>
    BY <2>1 DEF PhaseInv
  <2>2. CASE pc' = pc /\ pc = "load"
    <3>1. todo' \in Seq(Loading)
      BY <1>1, <2>2, TodoStep
    <3>2. next.do # "create" /\ hDisk # Image
      BY <1>1, <2>2, NextTyped DEF Loading, Opening, IInv, PhaseInv
    <3> QED
      BY <1>4, <2>2, <3>1, <3>2 DEF PhaseInv
  <2>3. CASE pc' = pc /\ pc = "handler"
    <3>1. todo' \in Seq(Handled)
      BY <1>1, <2>3, TodoStep
    <3>2. Handled' = Handled
      BY <1>1, <2>3, StepSpeaks DEF Handled
    <3> QED
      BY <2>3, <3>1, <3>2 DEF PhaseInv
  <2> QED
    BY <1>1, <1>2, <2>1, <2>2, <2>3
<1>7. HandleInv'
  <2>1. hDisk' = Image => opt'.out /\ opt'.cmd = "WRITE"
    <3>1. hDisk = Image => opt.out /\ opt.cmd = "WRITE"
      BY DEF IInv, HandleInv
    <3> QED
      BY <1>1, <1>4, <3>1, StepHandles
  <2>2. ASSUME NEW k \in 1 .. Len(todo'), todo'[k].on = "disk"
        PROVE  \/ OpenedIn(todo', k)
               \/ hDisk' \in {opt'.disk, Image, Invalid} /\ Quiet(todo', 1, k)
    <3>1. \/ OpenedIn(todo', k)
          \/ /\ Quiet(todo', 1, k)
             /\ \/ next.do \in Opening
                \/ next.do \notin Moves /\ hDisk \in {opt.disk, Image, Invalid}
      BY <1>1, <2>2, TodoStep
    <3>2. CASE next.do \in Opening
      BY <1>1, <3>1, <3>2, StepHandles DEF Opening
    <3>3. CASE next.do \notin Moves /\ hDisk \in {opt.disk, Image, Invalid}
      BY <1>1, <3>1, <3>3, StepHandles
    <3> QED
      BY <3>1, <3>2, <3>3
  <2>3. EndsElsewhere(todo')
    BY <1>1, TodoStep
  <2> QED
    BY <2>1, <2>2, <2>3 DEF HandleInv, OpenedIn, Quiet, EndsElsewhere
<1>8. VolumeInv'
  <2>1. \A v \in (0 .. Volumes) \ mounted : volumes[v] = opt.disk
    BY DEF IInv, VolumeInv
  <2> QED
    BY <1>1, <2>1, StepHandles DEF VolumeInv
<1> QED
  BY <1>5, <1>6, <1>7, <1>8 DEF IInv

LEMMA Inductive == IInv /\ [Next]_vars => IInv'
<1> SUFFICES ASSUME IInv, [Next]_vars PROVE IInv'
  OBVIOUS
<1>1. CASE GiveOption \/ ListOption \/ BadOption
  BY <1>1, OptionStep
<1>2. CASE OptionsEnd \/ Dispatch \/ Exit
  BY <1>2, PhaseStep
<1>3. CASE Stepping
  BY <1>3, SteppingStep
<1>4. CASE UNCHANGED vars
  <2>1. UNCHANGED <<volumes, disks, mounted, hDisk, opt, left, pc, todo, status, port, firehose,
                    emergency>>
    BY <1>4 DEF vars, diskVars, commandVars
  <2> QED
    BY <2>1 DEF IInv, TypeOK, PhaseInv, HandleInv, VolumeInv, Handled, OpenedIn, Quiet,
                EndsElsewhere
<1> QED
  BY <1>1, <1>2, <1>3, <1>4 DEF Next, Stepping

(* The state keeps its types, whatever the words of the command line, the  *)
(* disks of the computer, and what fails (main, emmcdl.cpp 681-1226).      *)
THEOREM Typed == Spec => []TypeOK
<1>1. IInv => TypeOK
  BY DEF IInv
<1> QED
  BY <1>1, InitInv, Inductive, PTL DEF Spec

(* No handler works on a disk of the computer other than the one that -p   *)
(* names, and none with a flash programmer loaded, but for -w and -t; and  *)
(* only volumes of that disk are dismounted (OpenDevice, InitDiskList and  *)
(* the handlers of emmcdl.cpp between OpenDevice and CloseDevice).         *)
THEOREM DiskRespected == Spec => []DiskAsGiven
<1>1. IInv => DiskAsGiven
  <2> SUFFICES ASSUME IInv PROVE DiskAsGiven
    OBVIOUS
  <2>1. ASSUME todo # <<>>, next.on = "disk"
        PROVE  /\ hDisk \in {opt.disk, Image, Invalid}
               /\ hDisk = Image => opt.out /\ opt.cmd = "WRITE"
               /\ emergency => opt.cmd \in {"WIPE", "TEST"}
    <3>1. pc = "handler" /\ todo \in Seq(Handled) /\ next \in Handled
      BY <2>1, NextTyped DEF Loading
    <3>2. 1 \in 1 .. Len(todo) /\ next = todo[1]
      BY <2>1, <3>1, EmptySeq, LenProperties DEF next
    <3>3. ~OpenedIn(todo, 1)
      BY DEF OpenedIn
    <3> QED
      BY <2>1, <3>1, <3>2, <3>3 DEF IInv, HandleInv, Handled
  <2> QED
    BY <2>1 DEF DiskAsGiven, IInv, VolumeInv
<1> QED
  BY <1>1, InitInv, Inductive, PTL DEF Spec

-----------------------------------------------------------------------------
(* What comes before a step that speaks to the device by the object fh.    *)
Sectored == {"dump", "erase", "table", "write", "xml", "patch", "program"}
Before(t, k, do) == \E j \in 1 .. k - 1 : t[j].do = do
Among(t, do) == \E j \in 1 .. Len(t) : t[j].do = do
Leaps(s) == s.then = "skip" \/ s.do = "create"

SpokenInv ==
  \A k \in 1 .. Len(todo) :
    /\ todo[k].on = "firehose" =>
         /\ emergency \/ Before(todo, k, "load")
         /\ todo[k].do = "connect" /\ opt.protocol = "FIREHOSE"
              => firehose.ready \/ Before(todo, k, "init")
         /\ todo[k].do # "connect" => firehose.connected \/ Before(todo, k, "connect")
    /\ todo[k].do = "connect" => todo[k].then = "return"
    /\ Leaps(todo[k]) => pc = "handler" /\ todo[Len(todo)].on # "firehose"

(* The programmer is loaded, and fh given its port, before any handler.    *)
LoadedInv ==
  /\ emergency => opt.flash /\ pc # "options"
  /\ pc = "load" /\ todo # <<>> => opt.flash
  /\ pc = "load" /\ opt.flash =>
       /\ emergency \/ Among(todo, "load")
       /\ opt.protocol = "FIREHOSE" => firehose.ready \/ Among(todo, "init")
  /\ pc = "handler" /\ opt.flash =>
       /\ emergency
       /\ opt.protocol = "FIREHOSE" => firehose.ready

(* Steps whose failure is lost without a loss, or cannot be.               *)
Tolerated == {"port", "load", "active", "patch", "open", "unnoticed"}
Harmless(s) == s.do \in Tolerated \/ (s.on = "tool" /\ s.do # "unsupported")
Ignored(t) == \A k \in 1 .. Len(t) : t[k].then = "ignore"

(* Each step has its failure looked at: it ends the handler, or nothing    *)
(* behind it makes it a success.                                           *)
Plain(s) ==
  /\ ~Leaps(s)
  /\ s.do = "connect" => s.then = "return"
  /\ s.do = "open" => s.then = "keep"
  /\ s.then = "ignore" => Harmless(s)
Heeded(t) ==
  \A k \in 1 .. Len(t) :
    /\ Plain(t[k])
    /\ t[k].then = "keep" /\ t[k].do \notin Tolerated
         => \A j \in k + 1 .. Len(t) : t[j].then = "ignore"

TrustedNow ==
  \/ opt.cmd \in Trusted
  \/ opt.cmd = "WRITE" /\ emergency /\ ~opt.single /\ opt.protocol = "FIREHOSE"
  \/ opt.cmd = "ERASE" /\ ~emergency

TrustInv ==
  /\ pc \in {"options", "load"} => failed \subseteq Tolerated
  /\ pc = "load" =>
       \A k \in 1 .. Len(todo) :
         Plain(todo[k]) /\ todo[k].do \in Tolerated \union {"connect", "init"}
  /\ pc = "handler" /\ TrustedNow =>
       /\ Heeded(todo)
       /\ failed \subseteq Tolerated \/ (status # "SUCCESS" /\ Ignored(todo))
  /\ pc = "exit" /\ TrustedNow /\ status = "SUCCESS" => failed \subseteq Tolerated

(* What a step does to fh and the programmer, and where it leads.          *)
LEMMA StepEffects ==
  ASSUME IInv, Stepping
  PROVE  /\ emergency => emergency'
         /\ next.do = "load" => emergency'
         /\ next.do # "load" => emergency' = emergency
         /\ firehose.ready => firehose'.ready
         /\ next.do = "init" => firehose'.ready
         /\ next.do # "connect" => firehose'.connected = firehose.connected
         /\ next.do = "connect" /\ next.then = "return" => todo' = <<>> \/ firehose'.connected
         /\ next.do \notin {"sector", "connect"} => firehose'.sector = firehose.sector
         /\ next.do = "connect" /\ next.then = "return" =>
              todo' = <<>> \/ firehose'.sector = SectorSize(firehose.sector)
         /\ next.do = "sector" => firehose'.sector = opt.sector
         /\ ~Leaps(next) => todo' \in {Tail(todo), <<>>}
         /\ ~Leaps(next) => todo' = Tail(todo) \/ pc = "handler" \/ pc' = "exit"
<1>0. /\ emergency \in BOOLEAN /\ firehose \in Object /\ port \in BOOLEAN /\ todo # <<>>
      /\ pc \in {"load", "handler"}
  BY StepTurns, NextTyped DEF IInv, TypeOK, Object, Pages
<1>r. ASSUME NEW ok \in BOOLEAN, NEW faults, Returned(ok, faults), ~Leaps(next)
      PROVE  /\ todo' \in {Tail(todo), <<>>}
             /\ todo' = Tail(todo) \/ pc = "handler" \/ pc' = "exit"
             /\ next.then = "return" /\ ~ok => todo' = <<>>
  <2>1. next.then \in {"keep", "ignore", "return"}
    <3>1. next \in Steps
      BY <1>0, NextTyped DEF Loading, Handled
    <3> QED
      BY <1>r, <3>1 DEF Steps, Leaps
  <2>2. CASE ok \/ next.then \in {"keep", "ignore"}
    BY <1>r, <2>2 DEF Returned
  <2>3. CASE ~ok /\ next.then = "return"
    <3>1. todo' = <<>>
      BY <1>r, <2>3 DEF Returned
    <3>2. pc = "load" => pc' = "exit"
      BY <1>r, <2>3, Zenon DEF Returned
    <3> QED
      BY <1>0, <2>3, <3>1, <3>2
  <2> QED
    BY <2>1, <2>2, <2>3
<1>1. \A ok \in BOOLEAN : Taken(ok) /\ ~Leaps(next) =>
        /\ todo' \in {Tail(todo), <<>>}
        /\ todo' = Tail(todo) \/ pc = "handler" \/ pc' = "exit"
        /\ next.then = "return" /\ ~ok => todo' = <<>>
  BY <1>r DEF Taken
<1>2. /\ TRUE \in BOOLEAN /\ FALSE \in BOOLEAN
      /\ firehose = [ready |-> firehose.ready, connected |-> firehose.connected,
                     sector |-> firehose.sector]
  BY <1>0 DEF Object
<1>3. CASE PortOpened
  <2>1. next.do = "port" /\ Taken(port') /\ port' \in BOOLEAN
    BY <1>3, Zenon DEF PortOpened, Does
  <2>2. emergency' = emergency /\ firehose' = firehose
    BY <1>3, Zenon DEF PortOpened
  <2> QED
    BY <1>1, <2>1, <2>2
<1>4. CASE Loaded
  <2>1. next.do = "load" /\ \E ok \in BOOLEAN : Taken(ok)
    BY <1>0, <1>2, <1>4, Zenon DEF Loaded, Does
  <2>2. emergency' = TRUE /\ firehose' = firehose
    BY <1>4, Zenon DEF Loaded
  <2>3. emergency'
    BY <2>2, Zenon
  <2> QED
    BY <1>1, <2>1, <2>2, <2>3
<1>5. CASE FirehoseInit
  <2>1. next.do = "init" /\ Taken(TRUE)
    BY <1>5, Zenon DEF FirehoseInit, Does
  <2>2. firehose' = [firehose EXCEPT !.ready = TRUE] /\ emergency' = emergency
    BY <1>5, Zenon DEF FirehoseInit
  <2>3. /\ firehose'.ready /\ firehose'.connected = firehose.connected
        /\ firehose'.sector = firehose.sector
    BY <1>0, <2>2 DEF Object
  <2> QED
    BY <1>1, <1>2, <2>1, <2>2, <2>3
<1>6. CASE SetDiskSectorSize
  <2>1. next.do = "sector" /\ Taken(TRUE)
    BY <1>6, Zenon DEF SetDiskSectorSize, Does
  <2>2. firehose' = [firehose EXCEPT !.sector = opt.sector] /\ emergency' = emergency
    BY <1>6, Zenon DEF SetDiskSectorSize
  <2>3. /\ firehose'.ready = firehose.ready /\ firehose'.connected = firehose.connected
        /\ firehose'.sector = opt.sector
    BY <1>0, <2>2 DEF Object
  <2> QED
    BY <1>1, <1>2, <2>1, <2>2, <2>3
<1>7. CASE Connected
  <2>1. next.do = "connect" /\ emergency' = emergency
    BY <1>7, Zenon DEF Connected, Does
  <2>2. CASE firehose.ready
    <3>1. PICK ok \in {FALSE, port}, size \in {firehose.sector, SectorSize(firehose.sector)} :
            /\ Taken(ok) /\ (ok => size = SectorSize(firehose.sector))
            /\ firehose' = [firehose EXCEPT !.connected = ok, !.sector = size]
      BY <1>7, <2>2, Zenon DEF Connected
    <3>2. ok \in BOOLEAN
      BY <1>0, <3>1, Zenon
    <3>3. /\ firehose'.ready = firehose.ready /\ firehose'.connected = ok
          /\ firehose'.sector = size
      BY <1>0, <3>1 DEF Object
    <3>4. next.then = "return" =>
            todo' = <<>> \/ (firehose'.connected /\ firehose'.sector = SectorSize(firehose.sector))
      <4>1. CASE ok
        BY <3>1, <3>3, <4>1, Zenon
      <4>2. CASE ~ok
        <5>1. next.then = "return" => ~Leaps(next)
          BY <2>1 DEF Leaps
        <5> QED
          BY <1>1, <3>1, <3>2, <4>2, <5>1, Zenon
      <4> QED
        BY <4>1, <4>2, Zenon
    <3>5. ~Leaps(next) => /\ todo' \in {Tail(todo), <<>>}
                          /\ todo' = Tail(todo) \/ pc = "handler" \/ pc' = "exit"
      BY <1>1, <3>1, <3>2, Zenon
    <3> QED
      BY <2>1, <3>3, <3>4, <3>5
  <2>3. CASE ~firehose.ready
    <3>1. firehose' = firehose /\ todo' = <<>> /\ pc' = "exit"
      BY <1>7, <2>3, Zenon DEF Connected
    <3> QED
      BY <2>1, <3>1
  <2> QED
    BY <2>2, <2>3
<1>8. CASE DisksListed \/ DiskClosed \/ Worked
  <2>1. emergency' = emergency /\ firehose' = firehose
    BY <1>8, Zenon DEF DisksListed, DiskClosed, Worked
  <2>2. next.do \notin {"load", "init", "connect", "sector"}
    BY <1>8 DEF DisksListed, DiskClosed, Worked, Does
  <2>3. \E ok \in BOOLEAN : Taken(ok) \/ Returned(ok, {"unnoticed"})
    BY <1>2, <1>8, OutcomesTyped, Zenon DEF DisksListed, DiskClosed, Worked
  <2>4. ~Leaps(next) => /\ todo' \in {Tail(todo), <<>>}
                        /\ todo' = Tail(todo) \/ pc = "handler" \/ pc' = "exit"
    BY <1>1, <1>r, <2>3
  <2> QED
    BY <2>1, <2>2, <2>4
<1>9. CASE DiskOpened
  <2>1. /\ next.do = "open" /\ todo' = Tail(todo)
        /\ emergency' = emergency /\ firehose' = firehose
    BY <1>9, Zenon DEF DiskOpened, Does
  <2> QED
    BY <2>1
<1>10. CASE FileOpened
  <2>1. next.do = "create" /\ emergency' = emergency /\ firehose' = firehose
    BY <1>10, Zenon DEF FileOpened, Does
  <2> QED
    BY <2>1 DEF Leaps
<1> QED
  BY <1>3, <1>4, <1>5, <1>6, <1>7, <1>8, <1>9, <1>10 DEF Stepping

(* What came before a step still does, or has just been done.              *)
LEMMA BeforeTail ==
  ASSUME NEW S, NEW t \in Seq(S), t # <<>>, NEW k \in 1 .. Len(Tail(t)), NEW do
  PROVE  /\ k + 1 \in 1 .. Len(t) /\ Tail(t)[k] = t[k + 1]
         /\ Tail(t)[Len(Tail(t))] = t[Len(t)]
         /\ Before(t, k + 1, do) => Head(t).do = do \/ Before(Tail(t), k, do)
<1>1. /\ Len(t) \in Nat \ {0} /\ Len(Tail(t)) = Len(t) - 1 /\ Head(t) = t[1]
      /\ \A i \in 1 .. Len(Tail(t)) : Tail(t)[i] = t[i + 1]
  BY HeadTailProperties, EmptySeq
<1>2. k + 1 \in 1 .. Len(t) /\ Tail(t)[k] = t[k + 1]
  BY <1>1
<1>3. Tail(t)[Len(Tail(t))] = t[Len(t)]
  <2>1. Len(Tail(t)) \in 1 .. Len(Tail(t)) /\ Len(Tail(t)) + 1 = Len(t)
    BY <1>1
  <2> QED
    BY <1>1, <2>1
<1>4. ASSUME Before(t, k + 1, do), Head(t).do # do
      PROVE  Before(Tail(t), k, do)
  <2>1. PICK j \in 1 .. (k + 1) - 1 : t[j].do = do
    BY <1>4 DEF Before
  <2>2. j # 1
    BY <1>1, <1>4, <2>1
  <2>3. j - 1 \in 1 .. k - 1 /\ j - 1 \in 1 .. Len(Tail(t)) /\ (j - 1) + 1 = j
    BY <1>1, <2>1, <2>2
  <2> QED
    BY <1>1, <2>1, <2>3 DEF Before
<1> QED
  BY <1>2, <1>3, <1>4

LEMMA AmongTail ==
  ASSUME NEW S, NEW t \in Seq(S), t # <<>>, NEW do, Among(t, do)
  PROVE  Head(t).do = do \/ Among(Tail(t), do)
<1>1. /\ Len(t) \in Nat \ {0} /\ Len(Tail(t)) = Len(t) - 1 /\ Head(t) = t[1]
      /\ \A i \in 1 .. Len(Tail(t)) : Tail(t)[i] = t[i + 1]
  BY HeadTailProperties, EmptySeq
<1>2. PICK j \in 1 .. Len(t) : t[j].do = do
  BY DEF Among
<1>3. j # 1 => j - 1 \in 1 .. Len(Tail(t)) /\ (j - 1) + 1 = j
  BY <1>1, <1>2
<1> QED
  BY <1>1, <1>2, <1>3 DEF Among

(* The steps that are left are the old ones.                               *)
LEMMA NextFirst ==
  ASSUME IInv, todo # <<>>
  PROVE  todo \in Seq(Steps) /\ 1 \in 1 .. Len(todo) /\ next = todo[1]
         /\ Len(todo) \in 1 .. Len(todo) /\ next = Head(todo)
<1>1. todo \in Seq(Steps)
  <2>1. Loading \subseteq Steps /\ Handled \subseteq Steps
    BY DEF Loading, Handled
  <2> QED
    BY <2>1, NextTyped, SeqMonotonic
<1> QED
  BY <1>1, EmptySeq, LenProperties DEF next

LEMMA SpokenStep ==
  ASSUME IInv, SpokenInv, Stepping
  PROVE  SpokenInv'
<1>0. /\ todo # <<>> /\ opt' = opt /\ pc \in {"load", "handler"}
      /\ todo' \in {Tail(todo), <<>>, <<todo[Len(todo)]>>}
      /\ pc' = pc \/ (pc' = "exit" /\ todo' = <<>>)
  BY StepTurns, NextTyped DEF Turned
<1>1. /\ todo \in Seq(Steps) /\ 1 \in 1 .. Len(todo) /\ next = todo[1]
      /\ Len(todo) \in 1 .. Len(todo) /\ next = Head(todo)
  BY <1>0, NextFirst
<1>2. CASE todo' = <<>>
  <2>1. Len(todo') = 0
    BY <1>2
  <2> QED
    BY <2>1 DEF SpokenInv
<1>3. CASE todo' # <<>> /\ todo' = Tail(todo)
  <2>1. next.do = "connect" => next.then = "return"
    BY <1>1 DEF SpokenInv
  <2> SUFFICES ASSUME NEW k \in 1 .. Len(todo')
               PROVE  /\ todo'[k].on = "firehose" =>
                           /\ emergency' \/ Before(todo', k, "load")
                           /\ todo'[k].do = "connect" /\ opt'.protocol = "FIREHOSE"
                                => firehose'.ready \/ Before(todo', k, "init")
                           /\ todo'[k].do # "connect"
                                => firehose'.connected \/ Before(todo', k, "connect")
                      /\ todo'[k].do = "connect" => todo'[k].then = "return"
                      /\ Leaps(todo'[k]) => pc' = "handler" /\ todo'[Len(todo')].on # "firehose"
    BY DEF SpokenInv, Before, Leaps
  <2>2. k \in 1 .. Len(Tail(todo))
    BY <1>3
  <2>3. /\ k + 1 \in 1 .. Len(todo) /\ todo'[k] = todo[k + 1]
        /\ todo'[Len(todo')] = todo[Len(todo)]
        /\ \A do \in {"load", "init", "connect"} :
             Before(todo, k + 1, do) => next.do = do \/ Before(todo', k, do)
    BY <1>0, <1>1, <1>3, <2>2, BeforeTail
  <2>4. ASSUME todo'[k].on = "firehose"
        PROVE  /\ emergency' \/ Before(todo', k, "load")
               /\ todo'[k].do = "connect" /\ opt'.protocol = "FIREHOSE"
                    => firehose'.ready \/ Before(todo', k, "init")
               /\ todo'[k].do # "connect" => firehose'.connected \/ Before(todo', k, "connect")
    <3>1. /\ emergency \/ Before(todo, k + 1, "load")
          /\ todo'[k].do = "connect" /\ opt.protocol = "FIREHOSE"
               => firehose.ready \/ Before(todo, k + 1, "init")
          /\ todo'[k].do # "connect" => firehose.connected \/ Before(todo, k + 1, "connect")
      BY <2>3, <2>4 DEF SpokenInv
    <3>2. emergency' \/ Before(todo', k, "load")
      BY <2>3, <3>1, StepEffects
    <3>3. todo'[k].do = "connect" /\ opt'.protocol = "FIREHOSE"
            => firehose'.ready \/ Before(todo', k, "init")
      BY <1>0, <2>3, <3>1, StepEffects
    <3>4. todo'[k].do # "connect" => firehose'.connected \/ Before(todo', k, "connect")
      BY <1>3, <2>1, <2>3, <3>1, StepEffects
    <3> QED
      BY <3>2, <3>3, <3>4
  <2>5. todo'[k].do = "connect" => todo'[k].then = "return"
    BY <2>3 DEF SpokenInv
  <2>6. Leaps(todo'[k]) => pc' = "handler" /\ todo'[Len(todo')].on # "firehose"
    BY <1>0, <1>3, <2>3 DEF SpokenInv
  <2> QED
    BY <2>4, <2>5, <2>6
<1>4. CASE todo' # <<>> /\ todo' # Tail(todo)
  <2>1. Leaps(next)
    BY <1>4, StepEffects
  <2>2. pc = "handler" /\ todo[Len(todo)].on # "firehose"
    BY <1>1, <2>1 DEF SpokenInv
  <2> DEFINE e == todo[Len(todo)]
  <2>3. todo' = <<e>> /\ e.on # "firehose" /\ (e.do = "connect" => e.then = "return")
        /\ pc' = "handler"
    BY <1>0, <1>1, <1>4, <2>2 DEF SpokenInv
  <2> HIDE DEF e
  <2>4. Len(todo') = 1 /\ todo'[1] = e
    BY <2>3
  <2> QED
    BY <2>3, <2>4 DEF SpokenInv
<1> QED
  BY <1>0, <1>2, <1>3, <1>4

LEMMA LoadedStep ==
  ASSUME IInv, SpokenInv, LoadedInv, Stepping
  PROVE  LoadedInv'
<1>0. /\ todo # <<>> /\ opt' = opt /\ pc \in {"load", "handler"}
      /\ pc' = pc \/ (pc' = "exit" /\ todo' = <<>>)
  BY StepTurns, NextTyped DEF Turned
<1>1. todo \in Seq(Steps) /\ 1 \in 1 .. Len(todo) /\ next = todo[1] /\ next = Head(todo)
  BY <1>0, NextFirst
<1>2. CASE pc = "handler"
  <2>1. emergency' = emergency
    BY <1>2, StepSpeaks
  <2> QED
    BY <1>0, <1>2, <2>1, StepEffects DEF LoadedInv
<1>3. CASE pc = "load"
  <2>1. opt.flash
    BY <1>0, <1>3 DEF LoadedInv
  <2>2. CASE pc' = "load"
    <3>1. ~Leaps(next)
      BY <1>1, <1>3 DEF SpokenInv
    <3>2. todo' = Tail(todo)
      BY <1>3, <2>2, <3>1, StepEffects
    <3>3. \A do \in {"load", "init"} : Among(todo, do) => next.do = do \/ Among(todo', do)
      BY <1>0, <1>1, <3>2, AmongTail
    <3>4. emergency' \/ Among(todo', "load")
      BY <1>3, <2>1, <3>3, StepEffects DEF LoadedInv
    <3>5. opt.protocol = "FIREHOSE" => firehose'.ready \/ Among(todo', "init")
      BY <1>3, <2>1, <3>3, StepEffects DEF LoadedInv
    <3> QED
      BY <1>0, <2>1, <2>2, <3>4, <3>5 DEF LoadedInv, Among
  <2>3. CASE pc' = "exit"
    BY <1>0, <2>1, <2>3 DEF LoadedInv
  <2> QED
    BY <1>0, <1>3, <2>2, <2>3
<1> QED
  BY <1>0, <1>2, <1>3

-----------------------------------------------------------------------------
(* The handlers: those that speak to the device by fh set the sector size  *)
(* and connect first, if they exchange sectors.                            *)
Unspoken == {s \in Steps : s.on # "firehose" /\ s.do # "connect"}
Spoken == {s \in Steps : s.do \notin {"sector", "connect"} /\ ~Leaps(s)}

Unsized(t) == \A k \in 1 .. Len(t) : ~(t[k].on = "firehose" /\ t[k].do \in Sectored)
Sized(t) == Unsized(t) \/ \E work \in Seq(Spoken) : t = Connection \o work

Readied(t) ==
  \A k \in 1 .. Len(t) :
    /\ t[k].on = "firehose" =>
         /\ emergency
         /\ t[k].do # "connect" => Before(t, k, "connect")
    /\ t[k].do = "connect" => t[k].then = "return"
    /\ Leaps(t[k]) => t[Len(t)].on # "firehose"

Prepared(t) == Readied(t) /\ Sized(t)

(* The size of sectors: set, corrected by connecting, and then as asked,   *)
(* with no step left that could change it.                                 *)
SizedInv ==
  \/ Sized(todo)
  \/ /\ \E work \in Seq(Spoken) : todo = Connect \o work
     /\ firehose.sector = opt.sector
  \/ todo \in Seq(Spoken) /\ firehose.sector = Asked

LEMMA UnspokenPrepared ==
  ASSUME NEW t \in Seq(Unspoken)
  PROVE  Prepared(t)
<1>1. \A k \in 1 .. Len(t) : t[k] \in Unspoken /\ Len(t) \in 1 .. Len(t)
  BY ElementOfSeq, LenProperties
<1> QED
  BY <1>1 DEF Prepared, Readied, Sized, Unsized, Unspoken

LEMMA Joined ==
  ASSUME NEW a, NEW b, NEW c
  PROVE  /\ <<a>> \o <<b>> = <<a, b>>
         /\ <<a>> \o <<b, c>> = <<a, b, c>>
         /\ <<a, b>> \o <<c>> = <<a, b, c>>
         /\ <<a>> \o <<>> = <<a>> /\ <<a, b>> \o <<>> = <<a, b>>
<1> DEFINE S == {a, b, c}
<1>1. /\ <<a>> \in Seq(S) /\ <<b>> \in Seq(S) /\ <<c>> \in Seq(S) /\ <<a, b>> \in Seq(S)
      /\ <<b, c>> \in Seq(S) /\ <<a, b, c>> \in Seq(S)
  OBVIOUS
<1> HIDE DEF S
<1>3. <<a>> \o <<b>> = <<a, b>>
  <2>1. Len(<<a>> \o <<b>>) = 2 /\ \A i \in 1 .. 2 : (<<a>> \o <<b>>)[i] = <<a, b>>[i]
    BY <1>1, ConcatProperties
  <2> QED
    BY <1>1, <2>1, ConcatProperties, SeqEqual
<1>4. <<a>> \o <<b, c>> = <<a, b, c>>
  <2>1. Len(<<a>> \o <<b, c>>) = 3 /\ \A i \in 1 .. 3 : (<<a>> \o <<b, c>>)[i] = <<a, b, c>>[i]
    BY <1>1, ConcatProperties
  <2> QED
    BY <1>1, <2>1, ConcatProperties, SeqEqual
<1>5. <<a, b>> \o <<c>> = <<a, b, c>>
  <2>1. Len(<<a, b>> \o <<c>>) = 3 /\ \A i \in 1 .. 3 : (<<a, b>> \o <<c>>)[i] = <<a, b, c>>[i]
    BY <1>1, ConcatProperties
  <2> QED
    BY <1>1, <2>1, ConcatProperties, SeqEqual
<1> QED
  BY <1>1, <1>3, <1>4, <1>5, ConcatEmptySeq

LEMMA JoinedLonger ==
  ASSUME NEW a, NEW b, NEW c, NEW d, NEW e
  PROVE  <<a, b>> \o <<c, d, e>> = <<a, b, c, d, e>>
<1> DEFINE S == {a, b, c, d, e}
<1>1. <<a, b>> \in Seq(S) /\ <<c, d, e>> \in Seq(S) /\ <<a, b, c, d, e>> \in Seq(S)
  OBVIOUS
<1> HIDE DEF S
<1>2. /\ Len(<<a, b>> \o <<c, d, e>>) = 5
      /\ \A i \in 1 .. 5 : (<<a, b>> \o <<c, d, e>>)[i] = <<a, b, c, d, e>>[i]
  BY <1>1, ConcatProperties
<1> QED
  BY <1>1, <1>2, ConcatProperties, SeqEqual

(* Steps of fh behind its connection.                                      *)
LEMMA SpokenPrepared ==
  ASSUME emergency, NEW work \in Seq(Spoken)
  PROVE  Prepared(Connection \o work)
<1> DEFINE a == Step("sector", "tool", "ignore")
           b == Step("connect", "firehose", "return")
           n == Len(work)
           t == Connection \o work
<1>1. /\ a.do = "sector" /\ a.on = "tool" /\ b.do = "connect" /\ b.on = "firehose"
      /\ b.then = "return" /\ ~Leaps(a) /\ ~Leaps(b)
  BY DEF Step, Leaps
<1>2. Connection = <<a, b>>
  BY Joined DEF Connection, Connect
<1> HIDE DEF a, b
<1>3. n \in Nat /\ \A k \in 1 .. n : work[k] \in Spoken
  BY ElementOfSeq, LenProperties
<1>4. /\ Len(t) = 2 + n /\ t[1] = a /\ t[2] = b
      /\ \A k \in 3 .. 2 + n : t[k] = work[k - 2] /\ k - 2 \in 1 .. n
  <2>1. <<a, b>> \in Seq({a, b}) /\ Len(<<a, b>>) = 2 /\ <<a, b>>[1] = a /\ <<a, b>>[2] = b
    OBVIOUS
  <2> DEFINE c == <<a, b>>
  <2> HIDE DEF c
  <2>2. /\ Len(c \o work) = Len(c) + Len(work)
        /\ \A k \in 1 .. Len(c) + Len(work) :
             (c \o work)[k] = IF k <= Len(c) THEN c[k] ELSE work[k - Len(c)]
    <3>1. c \in Seq({a, b})
      BY <2>1 DEF c
    <3> QED
      BY <3>1, ConcatProperties
  <2>3. Len(c) = 2 /\ c[1] = a /\ c[2] = b /\ t = c \o work
    BY <1>2, <2>1 DEF c
  <2> HIDE DEF t
  <2> QED
    BY <1>3, <2>2, <2>3
<1> HIDE DEF t
<1>5. ASSUME NEW k \in 3 .. 2 + n
      PROVE  Before(t, k, "connect") /\ t[k].do # "connect" /\ ~Leaps(t[k])
  <2>1. 2 \in 1 .. k - 1
    BY <1>3
  <2>2. t[k] \in Spoken
    BY <1>3, <1>4
  <2> QED
    BY <1>1, <1>4, <2>1, <2>2 DEF Before, Spoken
<1>6. \A k \in 1 .. Len(t) : k = 1 \/ k = 2 \/ k \in 3 .. 2 + n
  BY <1>3, <1>4
<1>7. Readied(t)
  BY <1>1, <1>4, <1>5, <1>6 DEF Readied
<1>8. Sized(t)
  BY DEF Sized, t
<1> QED
  BY <1>7, <1>8 DEF t, Prepared

(* What is done to a disk of the computer is no step of fh.                *)
LEMMA OnDiskPrepared ==
  ASSUME NEW work \in Seq(Unspoken)
  PROVE  Prepared(OnDisk(work))
<1>1. /\ Step("list", "tool", "ignore") \in Unspoken
      /\ Step("open", "tool", "keep") \in Unspoken
      /\ Step("close", "tool", "ignore") \in Unspoken
  BY DEF Step, Steps, Works, Objects, Unspoken
<1>2. /\ <<Step("list", "tool", "ignore"), Step("open", "tool", "keep")>> \in Seq(Unspoken)
      /\ <<Step("close", "tool", "ignore")>> \in Seq(Unspoken)
  BY <1>1, Single
<1>3. OnDisk(work) \in Seq(Unspoken)
  BY <1>2, ConcatProperties DEF OnDisk
<1> QED
  BY <1>3, UnspokenPrepared

LEMMA DownloadPrepared ==
  ASSUME opt \in Invocations, emergency
  PROVE  Prepared(EDownloadProgram)
<1>0. opt.xml \in Nat
  BY CommandAssumption DEF Invocations
<1>1. /\ Step("hello", "dload", "return") \in Unspoken
      /\ Step("prtn", "dload", "ignore") \in Unspoken
      /\ Step("image", "dload", "keep") \in Unspoken
      /\ Step("unprtn", "dload", "ignore") \in Unspoken
      /\ Step("patch", "dload", "return") \in Unspoken
      /\ Step("xml", "dload", "keep") \in Unspoken
      /\ Step("active", "dload", "ignore") \in Unspoken
      /\ Step("reset", "dload", "ignore") \in Unspoken
  BY DEF Step, Steps, Works, Objects, Unspoken
<1>2. Prepared(<<Step("hello", "dload", "return"), Step("prtn", "dload", "ignore"),
                 Step("image", "dload", "keep"), Step("unprtn", "dload", "ignore")>>)
  <2>1. <<Step("hello", "dload", "return"), Step("prtn", "dload", "ignore"),
          Step("image", "dload", "keep"), Step("unprtn", "dload", "ignore")>> \in Seq(Unspoken)
    BY <1>1
  <2> QED
    BY <2>1, UnspokenPrepared
<1>3. Prepared(StreamingXml)
  <2> DEFINE file == <<Step("prtn", "dload", "ignore"), Step("patch", "dload", "return"),
                       Step("xml", "dload", "keep")>>
             end == <<Step("active", "dload", "ignore"), Step("reset", "dload", "ignore"),
                      Step("unprtn", "dload", "ignore")>>
             hello == <<Step("hello", "dload", "return")>>
  <2>1. file \in Seq(Unspoken) /\ Len(file) = 3 /\ end \in Seq(Unspoken)
        /\ hello \in Seq(Unspoken)
    BY <1>1, Single
  <2>2. StreamingXml = hello \o Times(opt.xml, file) \o end
    BY DEF StreamingXml
  <2> HIDE DEF file, end, hello
  <2>3. Times(opt.xml, file) \in Seq(Unspoken)
    BY <1>0, <2>1, TimesTyped
  <2>4. hello \o Times(opt.xml, file) \in Seq(Unspoken)
    BY <2>1, <2>3, ConcatProperties
  <2>5. StreamingXml \in Seq(Unspoken)
    BY <2>1, <2>2, <2>4, ConcatProperties
  <2> QED
    BY <2>5, UnspokenPrepared
<1>4. Prepared(FirehoseXml)
  <2> DEFINE file == <<Step("preload", "file", "return"), Step("xml", "firehose", "return"),
                       Step("patch", "firehose", "ignore")>>
  <2>1. /\ Step("preload", "file", "return") \in Spoken
        /\ Step("xml", "firehose", "return") \in Spoken
        /\ Step("patch", "firehose", "ignore") \in Spoken
    BY DEF Step, Steps, Works, Objects, Spoken, Leaps
  <2>2. file \in Seq(Spoken) /\ Len(file) = 3
    BY <2>1, Single
  <2>3. FirehoseXml = Connection \o Times(opt.xml, file)
    BY DEF FirehoseXml
  <2> HIDE DEF file
  <2>4. Times(opt.xml, file) \in Seq(Spoken)
    BY <1>0, <2>2, TimesTyped
  <2> QED
    BY <2>3, <2>4, SpokenPrepared
<1> QED
  BY <1>2, <1>3, <1>4 DEF EDownloadProgram

LEMMA RawDiskPrepared ==
  ASSUME opt \in Invocations
  PROVE  Prepared(RawDiskProgram)
<1>0. opt.xml \in Nat
  BY CommandAssumption DEF Invocations
<1> DEFINE file == <<Step("preload", "file", "return"), Step("xml", "disk", "keep")>>
           create == <<Step("create", "tool", "keep")>>
           close == <<Step("close", "tool", "ignore")>>
<1>1. /\ Step("preload", "file", "return") \in Unspoken
      /\ Step("xml", "disk", "keep") \in Unspoken
      /\ Step("create", "tool", "keep") \in Unspoken
      /\ Step("close", "tool", "ignore") \in Unspoken
  BY DEF Step, Steps, Works, Objects, Unspoken
<1>2. /\ file \in Seq(Unspoken) /\ Len(file) = 2 /\ create \in Seq(Unspoken)
      /\ close \in Seq(Unspoken)
  BY <1>1, Single
<1>3. RawDiskProgram = IF opt.out THEN create \o Times(opt.xml, file) \o close
                       ELSE OnDisk(Times(opt.xml, file))
  BY DEF RawDiskProgram
<1> HIDE DEF file, create, close
<1>4. Times(opt.xml, file) \in Seq(Unspoken)
  BY <1>0, <1>2, TimesTyped
<1>5. create \o Times(opt.xml, file) \in Seq(Unspoken)
  BY <1>2, <1>4, ConcatProperties
<1>6. create \o Times(opt.xml, file) \o close \in Seq(Unspoken)
  BY <1>2, <1>5, ConcatProperties
<1> QED
  BY <1>3, <1>4, <1>6, UnspokenPrepared, OnDiskPrepared

LEMMA HandlerPrepared ==
  ASSUME opt \in Invocations, Needed, opt.flash => emergency
  PROVE  Prepared(Handler)
<1>1. opt.cmd \in Commands
  BY DEF Invocations
<1>2. /\ \A s \in Unspoken : Prepared(<<s>>) /\ Prepared(OnDisk(<<s>>))
      /\ Prepared(<<>>)
  <2>1. \A s \in Unspoken : <<s>> \in Seq(Unspoken)
    OBVIOUS
  <2>2. <<>> \in Seq(Unspoken)
    BY EmptySeq
  <2> QED
    BY <2>1, <2>2, UnspokenPrepared, OnDiskPrepared
<1>3. ASSUME emergency, NEW s \in Spoken
      PROVE  Prepared(Connection \o <<s>>)
  <2>1. <<s>> \in Seq(Spoken)
    OBVIOUS
  <2> QED
    BY <1>3, <2>1, SpokenPrepared
<1>4. CASE opt.cmd = "NONE"
  BY <1>2, <1>4 DEF Handler
<1>5. CASE opt.cmd = "DUMP"
  <2>1. Step("dump", "firehose", "keep") \in Spoken /\ Step("dump", "disk", "keep") \in Unspoken
    BY DEF Step, Steps, Works, Objects, Spoken, Unspoken, Leaps
  <2> QED
    BY <1>2, <1>3, <1>5, <2>1 DEF Handler, RawDiskDump
<1>6. CASE opt.cmd = "ERASE"
  <2>1. /\ Step("erase", "firehose", "ignore") \in Spoken
        /\ Step("erase", "disk", "keep") \in Unspoken
    BY DEF Step, Steps, Works, Objects, Spoken, Unspoken, Leaps
  <2> QED
    BY <1>2, <1>3, <1>6, <2>1 DEF Handler, EraseDisk
<1>7. CASE opt.cmd = "WRITE_GPT"
  <2>1. Step("write", "firehose", "keep") \in Spoken /\ Step("write", "disk", "keep") \in Unspoken
    BY DEF Step, Steps, Works, Objects, Spoken, Unspoken, Leaps
  <2> QED
    BY <1>2, <1>3, <1>7, <2>1 DEF Handler, WriteGPT
<1>8. CASE opt.cmd = "GPT"
  <2> DEFINE table == <<Step("table", "firehose", "ignore")>>
  <2>1. /\ Step("table", "firehose", "ignore") \in Spoken
        /\ Step("table", "disk", "keep") \in Unspoken
    BY DEF Step, Steps, Works, Objects, Spoken, Unspoken, Leaps
  <2>2. table \in Seq(Spoken) /\ Len(table) = 1
    BY <2>1, Single
  <2>3. ReadGPT = IF emergency THEN Connection \o Times(MaxLuns, table)
                  ELSE OnDisk(<<Step("table", "disk", "keep")>>)
    BY DEF ReadGPT
  <2> HIDE DEF table
  <2>4. Times(MaxLuns, table) \in Seq(Spoken)
    BY <2>2, TimesTyped, CommandAssumption
  <2> QED
    BY <1>2, <1>8, <2>1, <2>3, <2>4, SpokenPrepared DEF Handler
<1>9. CASE opt.cmd \in {"WIPE", "TEST"}
  <2>1. Step("wipe", "disk", "keep") \in Unspoken /\ Step("test", "disk", "keep") \in Unspoken
    BY DEF Step, Steps, Works, Objects, Unspoken
  <2> QED
    BY <1>2, <1>9, <2>1 DEF Handler, WipeDisk, RawDiskTest
<1>10. CASE opt.cmd = "WRITE"
  BY <1>10, DownloadPrepared, RawDiskPrepared DEF Handler
<1>11. CASE opt.cmd = "GPP"
  <2>1. emergency
    BY <1>11 DEF Needed
  <2>2. /\ Step("hello", "dload", "return") \in Unspoken
        /\ Step("prtn", "dload", "return") \in Unspoken
        /\ Step("gpp", "dload", "keep") \in Unspoken
        /\ Step("gpp", "firehose", "keep") \in Spoken
        /\ Step("activate", "firehose", "keep") \in Spoken
    BY DEF Step, Steps, Works, Objects, Spoken, Unspoken, Leaps
  <2>3. <<Step("hello", "dload", "return"), Step("prtn", "dload", "return"),
          Step("gpp", "dload", "keep")>> \in Seq(Unspoken)
    BY <2>2, Single
  <2>4. <<Step("gpp", "firehose", "keep"), Step("activate", "firehose", "keep")>> \in Seq(Spoken)
    BY <2>2, Single
  <2> QED
    BY <1>11, <2>1, <2>3, <2>4, UnspokenPrepared, SpokenPrepared DEF Handler, CreateGPP
<1>12. CASE opt.cmd = "RESET"
  <2>1. Step("reset", "dload", "keep") \in Unspoken
    BY DEF Step, Steps, Works, Objects, Unspoken
  <2>2. ASSUME emergency
        PROVE  Prepared(Connect \o <<Step("reset", "firehose", "keep")>>)
    <3> DEFINE b == Step("connect", "firehose", "return")
               r == Step("reset", "firehose", "keep")
    <3>1. /\ b.do = "connect" /\ b.then = "return" /\ r.do = "reset"
          /\ ~Leaps(b) /\ ~Leaps(r)
      BY DEF Step, Leaps
    <3>2. Connect \o <<r>> = <<b>> \o <<r>>
      BY DEF Connect
    <3> HIDE DEF b, r
    <3>3. <<b>> \o <<r>> = <<b, r>> /\ Len(<<b, r>>) = 2
      BY Joined
    <3>4. Prepared(<<b, r>>)
      BY <2>2, <3>1, <3>3 DEF Prepared, Readied, Before, Sized, Unsized, Sectored
    <3> QED
      BY <3>2, <3>3, <3>4 DEF r
  <2> QED
    BY <1>2, <1>12, <2>1, <2>2 DEF Handler, ResetDevice
<1>13. CASE opt.cmd = "LOAD_FFU"
  <2>1. emergency
    BY <1>13 DEF Needed
  <2>2. /\ Step("preload", "file", "return") \in Spoken
        /\ Step("program", "firehose", "keep") \in Spoken
        /\ Step("release", "tool", "ignore") \in Spoken
    BY DEF Step, Steps, Works, Objects, Spoken, Leaps
  <2>3. <<Step("preload", "file", "return"), Step("program", "firehose", "keep"),
          Step("release", "tool", "ignore")>> \in Seq(Spoken)
    BY <2>2, Single
  <2> QED
    BY <1>13, <2>1, <2>3, SpokenPrepared DEF Handler, FFUProgram
<1>14. CASE opt.cmd \in {"FFU", "SPLIT_FFU"}
  <2>1. /\ Step("preload", "file", "skip") \in Unspoken
        /\ Step("split", "file", "keep") \in Unspoken
        /\ Step("release", "tool", "keep") \in Unspoken
    BY DEF Step, Steps, Works, Objects, Unspoken
  <2>2. <<Step("preload", "file", "skip"), Step("split", "file", "keep"),
          Step("release", "tool", "keep")>> \in Seq(Unspoken)
    BY <2>1, Single
  <2> QED
    BY <1>2, <1>14, <2>1, <2>2, UnspokenPrepared DEF Handler, FFULoad, FFURawProgram
<1>15. CASE opt.cmd \in {"RAW", "INFO", "DEBUG_INFO"}
  <2>1. /\ Step("port", "tool", "ignore") \in Unspoken
        /\ Step("info", "sahara", "keep") \in Unspoken
        /\ Step("unsupported", "tool", "keep") \in Unspoken
        /\ Step("count", "words", "return") \in Unspoken
        /\ Step("raw", "port", "keep") \in Unspoken
    BY DEF Step, Steps, Works, Objects, Unspoken
  <2>2. /\ OpenPort \in Seq(Unspoken)
        /\ <<Step("info", "sahara", "keep")>> \in Seq(Unspoken)
        /\ <<Step("unsupported", "tool", "keep")>> \in Seq(Unspoken)
        /\ <<Step("count", "words", "return")>> \in Seq(Unspoken)
        /\ <<Step("raw", "port", "keep")>> \in Seq(Unspoken)
    BY <2>1, Single DEF OpenPort
  <2>3. <<Step("count", "words", "return")>> \o OpenPort \in Seq(Unspoken)
    BY <2>2, ConcatProperties
  <2>4. DumpInfo \in Seq(Unspoken) /\ RawSerialSend \in Seq(Unspoken)
    BY <2>2, <2>3, ConcatProperties DEF DumpInfo, RawSerialSend
  <2> QED
    BY <1>15, <2>4, UnspokenPrepared DEF Handler
<1> QED
  BY <1>1, <1>4, <1>5, <1>6, <1>7, <1>8, <1>9, <1>10, <1>11, <1>12, <1>13, <1>14, <1>15
  DEF Commands

(* Loading: the programmer first, then the port for fh, then the steps of  *)
(* the active partition.                                                   *)
LEMMA LoadPrepared ==
  /\ Among(Load, "load") /\ (opt.protocol = "FIREHOSE" => Among(Load, "init"))
  /\ \A k \in 1 .. Len(Load) :
       /\ Load[k].on = "firehose" =>
            /\ Before(Load, k, "load") /\ Before(Load, k, "init")
            /\ Load[k].do # "connect" => Before(Load, k, "connect")
            /\ Load[k].do \notin Sectored
       /\ Load[k].do = "connect" => Load[k].then = "return"
       /\ ~Leaps(Load[k])
       /\ Plain(Load[k])
       /\ Load[k].do \in Tolerated \union {"connect", "init"}
<1> DEFINE p == Step("port", "tool", "ignore")
           s == Step("load", "sahara", "keep")
           d == Step("load", "dload", "keep")
           i == Step("init", "tool", "ignore")
           b == Step("connect", "firehose", "return")
           a == Step("active", "firehose", "keep")
<1>1. /\ p.do = "port" /\ p.on = "tool" /\ s.do = "load" /\ s.on = "sahara" /\ d.do = "load"
      /\ d.on = "dload" /\ i.do = "init" /\ i.on = "tool" /\ b.do = "connect" /\ b.on = "firehose"
      /\ b.then = "return" /\ a.do = "active" /\ a.on = "firehose"
      /\ Plain(p) /\ Plain(s) /\ Plain(d) /\ Plain(i) /\ Plain(b) /\ Plain(a)
  BY DEF Step, Plain, Leaps, Harmless, Tolerated
<1>2. \A q : Plain(q) => ~Leaps(q)
  BY DEF Plain
<1>3. PICK l \in {s, d} : LoadFlashProg = <<l>>
  BY DEF LoadFlashProg
<1>4. \/ opt.protocol # "FIREHOSE" /\ Load = <<p>> \o <<l>> \o <<>>
      \/ Load = <<p>> \o <<l>> \o (<<i>> \o <<>>)
      \/ Load = <<p>> \o <<l>> \o (<<i>> \o (<<b>> \o <<a>>))
  BY <1>3 DEF Load, OpenPort, Connect
<1>5. l.do = "load" /\ l.on \in {"sahara", "dload"} /\ Plain(l)
  BY <1>1, <1>3
<1> HIDE DEF p, s, d, i, b, a
<1>6. \/ opt.protocol # "FIREHOSE" /\ Load = <<p, l>>
      \/ Load = <<p, l, i>>
      \/ Load = <<p, l, i, b, a>>
  <2>1. <<p>> \o <<l>> = <<p, l>> /\ <<p, l>> \o <<>> = <<p, l>>
    BY Joined
  <2>2. <<i>> \o <<>> = <<i>> /\ <<p, l>> \o <<i>> = <<p, l, i>>
    BY Joined
  <2>3. <<b>> \o <<a>> = <<b, a>> /\ <<i>> \o <<b, a>> = <<i, b, a>>
    BY Joined
  <2>4. <<p, l>> \o <<i, b, a>> = <<p, l, i, b, a>>
    BY JoinedLonger
  <2> QED
    BY <1>4, <2>1, <2>2, <2>3, <2>4, Zenon
<1>7. CASE opt.protocol # "FIREHOSE" /\ Load = <<p, l>>
  BY <1>1, <1>2, <1>5, <1>7 DEF Among, Tolerated
<1>8. CASE Load = <<p, l, i>>
  BY <1>1, <1>2, <1>5, <1>8 DEF Among, Tolerated
<1>9. CASE Load = <<p, l, i, b, a>>
  <2>1. /\ Len(Load) = 5 /\ Load[1] = p /\ Load[2] = l /\ Load[3] = i /\ Load[4] = b
        /\ Load[5] = a
    BY <1>9
  <2>2. Among(Load, "load") /\ Among(Load, "init")
    BY <1>1, <1>5, <2>1 DEF Among
  <2>3. /\ \A k \in 4 .. 5 : Before(Load, k, "load") /\ Before(Load, k, "init")
        /\ Before(Load, 5, "connect")
    BY <1>1, <1>5, <2>1 DEF Before
  <2>4. \A k \in 1 .. Len(Load) : k \in {1, 2, 3, 4, 5}
    BY <2>1
  <2> QED
    BY <1>1, <1>2, <1>5, <2>1, <2>2, <2>3, <2>4 DEF Tolerated, Sectored
<1> QED
  BY <1>6, <1>7, <1>8, <1>9

-----------------------------------------------------------------------------
LEMMA NothingSpoken ==
  ASSUME todo' = <<>>
  PROVE  SpokenInv'
<1>1. Len(todo') = 0
  OBVIOUS
<1> QED
  BY <1>1 DEF SpokenInv

LEMMA SpokenPhase ==
  ASSUME IInv, LoadedInv,
         GiveOption \/ ListOption \/ BadOption \/ OptionsEnd \/ Dispatch \/ Exit
  PROVE  SpokenInv'
<1>1. CASE todo' = <<>>
  BY <1>1, NothingSpoken
<1>2. CASE todo' # <<>>
  <2> SUFFICES ASSUME NEW k \in 1 .. Len(todo')
               PROVE  /\ todo'[k].on = "firehose" =>
                           /\ emergency' \/ Before(todo', k, "load")
                           /\ todo'[k].do = "connect" /\ opt'.protocol = "FIREHOSE"
                                => firehose'.ready \/ Before(todo', k, "init")
                           /\ todo'[k].do # "connect"
                                => firehose'.connected \/ Before(todo', k, "connect")
                      /\ todo'[k].do = "connect" => todo'[k].then = "return"
                      /\ Leaps(todo'[k]) => pc' = "handler" /\ todo'[Len(todo')].on # "firehose"
    BY DEF SpokenInv, Before, Leaps
  <2>1. UNCHANGED <<opt, firehose, emergency>> /\ pc \in {"options", "load"} /\ todo = <<>>
    BY <1>2 DEF IInv, PhaseInv, GiveOption, ListOption, BadOption, OptionsEnd, Dispatch, Exit
  <2>2. CASE OptionsEnd
    <3>1. todo' = Load
      BY <1>2, <2>2 DEF OptionsEnd
    <3> QED
      BY <3>1, LoadPrepared
  <2>3. CASE Dispatch
    <3>1. pc = "load" /\ pc' = "handler" /\ Needed /\ todo' = Handler
      BY <1>2, <2>1, <2>3 DEF Dispatch
    <3>2. /\ opt.flash => emergency /\ (opt.protocol = "FIREHOSE" => firehose.ready)
          /\ emergency => opt.flash
      <4>1. ~Among(todo, "load") /\ ~Among(todo, "init")
        BY <2>1 DEF Among
      <4> QED
        BY <3>1, <4>1 DEF LoadedInv
    <3>3. Prepared(Handler)
      BY <3>1, <3>2, HandlerPrepared DEF IInv, TypeOK
    <3>4. /\ Handler[k].on = "firehose" =>
               /\ emergency
               /\ Handler[k].do # "connect" => Before(Handler, k, "connect")
          /\ Handler[k].do = "connect" => Handler[k].then = "return"
          /\ Leaps(Handler[k]) => Handler[Len(Handler)].on # "firehose"
      BY <3>1, <3>3 DEF Prepared, Readied
    <3> QED
      BY <2>1, <3>1, <3>2, <3>4
  <2>4. CASE GiveOption \/ ListOption \/ BadOption \/ Exit
    BY <1>2, <2>1, <2>4 DEF GiveOption, ListOption, BadOption, Exit
  <2> QED
    BY <2>2, <2>3, <2>4
<1> QED
  BY <1>1, <1>2

LEMMA SizedPhase ==
  ASSUME IInv, LoadedInv,
         GiveOption \/ ListOption \/ BadOption \/ OptionsEnd \/ Dispatch \/ Exit
  PROVE  SizedInv'
<1>1. todo = <<>>
  BY DEF IInv, PhaseInv, GiveOption, ListOption, BadOption, OptionsEnd, Dispatch, Exit
<1>2. CASE todo' = <<>>
  <2>1. Len(todo') = 0
    BY <1>2
  <2> QED
    BY <2>1 DEF SizedInv, Sized, Unsized
<1>3. CASE OptionsEnd /\ todo' # <<>>
  <2>1. PICK t : t = Load
    OBVIOUS
  <2>2. todo' = t
    BY <1>3, <2>1 DEF OptionsEnd
  <2>3. Unsized(t)
    BY <2>1, LoadPrepared DEF Unsized
  <2> QED
    BY <2>2, <2>3 DEF SizedInv, Sized, Unsized
<1>4. CASE Dispatch /\ todo' # <<>>
  <2>1. pc = "load" /\ Needed /\ todo' = Handler
    BY <1>1, <1>4 DEF Dispatch
  <2>2. opt.flash => emergency
    <3>1. ~Among(todo, "load")
      BY <1>1 DEF Among
    <3> QED
      BY <2>1, <3>1 DEF LoadedInv
  <2>3. PICK t : t = Handler
    OBVIOUS
  <2>4. Sized(t)
    BY <2>1, <2>2, <2>3, HandlerPrepared DEF IInv, TypeOK, Prepared
  <2> QED
    BY <2>1, <2>3, <2>4 DEF SizedInv, Sized, Unsized, Connection, Connect, Spoken, Leaps
<1> QED
  BY <1>1, <1>2, <1>3, <1>4 DEF GiveOption, ListOption, BadOption, Exit

LEMMA FirstOff ==
  ASSUME NEW s \in Steps, NEW work \in Seq(Steps)
  PROVE  Head(<<s>> \o work) = s /\ Tail(<<s>> \o work) = work
<1> DEFINE o == <<s>>
           t == <<s>> \o work
<1>1. o \in Seq(Steps) /\ Len(o) = 1 /\ o[1] = s /\ Len(work) \in Nat
  BY LenProperties
<1>2. t = o \o work
  OBVIOUS
<1> HIDE DEF o, t
<1>3. /\ t \in Seq(Steps) /\ Len(t) = Len(o) + Len(work)
      /\ \A k \in 1 .. Len(o) + Len(work) : t[k] = IF k <= Len(o) THEN o[k] ELSE work[k - Len(o)]
  BY <1>1, <1>2, ConcatProperties
<1>4. /\ Len(t) = 1 + Len(work) /\ t[1] = s
      /\ \A k \in 1 .. Len(work) : t[k + 1] = work[k]
  BY <1>1, <1>3
<1>5. t # <<>> /\ Head(t) = t[1]
  BY <1>1, <1>3, <1>4, EmptySeq
<1>6. /\ Tail(t) \in Seq(Steps) /\ Len(Tail(t)) = Len(t) - 1
      /\ \A i \in 1 .. Len(Tail(t)) : Tail(t)[i] = t[i + 1]
  BY <1>3, <1>5, HeadTailProperties
<1>7. Len(Tail(t)) = Len(work) /\ \A i \in 1 .. Len(work) : Tail(t)[i] = work[i]
  BY <1>1, <1>4, <1>6
<1>8. Tail(t) = work
  BY <1>6, <1>7, SeqEqual
<1> QED
  BY <1>4, <1>5, <1>8 DEF t

(* A step on the way to the size that is asked for, or with it.            *)
LEMMA SizedStep ==
  ASSUME IInv, SizedInv, Stepping
  PROVE  SizedInv'
<1>0. /\ todo # <<>> /\ opt' = opt /\ pc \in {"load", "handler"}
      /\ todo' \in {Tail(todo), <<>>, <<todo[Len(todo)]>>}
  BY StepTurns, NextTyped DEF Turned
<1>1. /\ todo \in Seq(Steps) /\ 1 \in 1 .. Len(todo) /\ next = todo[1]
      /\ Len(todo) \in 1 .. Len(todo) /\ next = Head(todo)
  BY <1>0, NextFirst
<1> DEFINE a == Step("sector", "tool", "ignore")
           b == Step("connect", "firehose", "return")
<1>2. /\ a.do = "sector" /\ ~Leaps(a) /\ b.do = "connect" /\ b.then = "return" /\ ~Leaps(b)
      /\ a \in Steps /\ b \in Steps
  BY DEF Step, Steps, Works, Objects, Leaps
<1>3. Connection = <<a>> \o <<b>> /\ Connect = <<b>>
  BY DEF Connection, Connect
<1> HIDE DEF a, b
<1>4. ASSUME NEW t, t \in Seq(Steps), t # <<>>, Unsized(t)
      PROVE  Unsized(Tail(t)) /\ Unsized(<<>>) /\ Unsized(<<t[Len(t)]>>)
  <2>1. /\ Len(t) \in Nat \ {0} /\ Len(Tail(t)) = Len(t) - 1
        /\ \A i \in 1 .. Len(Tail(t)) : Tail(t)[i] = t[i + 1]
    BY <1>4, HeadTailProperties, EmptySeq
  <2>2. Unsized(Tail(t))
    BY <1>4, <2>1 DEF Unsized
  <2>3. PICK e : e = t[Len(t)]
    OBVIOUS
  <2>4. Unsized(<<e>>)
    <3>1. Len(<<e>>) = 1 /\ <<e>>[1] = e /\ Len(t) \in 1 .. Len(t)
      BY <2>1
    <3> QED
      BY <1>4, <2>3, <3>1 DEF Unsized
  <2> QED
    BY <2>2, <2>3, <2>4 DEF Unsized
<1>5. \A t : Unsized(t) /\ todo' = t => SizedInv'
  BY DEF SizedInv, Sized, Unsized
<1>6. Unsized(<<>>)
  BY DEF Unsized
<1>7. CASE Unsized(todo)
  BY <1>0, <1>1, <1>4, <1>5, <1>7
<1>8. ASSUME NEW work \in Seq(Spoken), todo = Connection \o work
      PROVE  SizedInv'
  <2>1. todo = <<a>> \o (<<b>> \o work)
    <3>1. work \in Seq(Steps) /\ <<a>> \in Seq(Steps) /\ <<b>> \in Seq(Steps)
      BY <1>2, SeqMonotonic DEF Spoken
    <3> QED
      BY <1>3, <1>8, <3>1, ConcatAssociative
  <2>2. <<b>> \o work \in Seq(Steps)
    BY <1>2, <1>8, SeqMonotonic, ConcatProperties DEF Spoken
  <2>3. next = a /\ Tail(todo) = <<b>> \o work
    BY <1>1, <1>2, <2>1, <2>2, FirstOff
  <2>4. firehose'.sector = opt'.sector /\ todo' \in {Tail(todo), <<>>}
    BY <1>0, <1>2, <2>3, StepEffects
  <2>5. CASE todo' = <<>>
    BY <1>5, <1>6, <2>5
  <2>6. CASE todo' = Tail(todo)
    <3>1. todo' = Connect \o work
      BY <1>3, <2>3, <2>6
    <3>2. PICK t : t = Connect \o work
      OBVIOUS
    <3> QED
      BY <1>8, <2>4, <3>1 DEF SizedInv, Spoken, Leaps, Connect
  <2> QED
    BY <2>4, <2>5, <2>6
<1>9. ASSUME NEW work \in Seq(Spoken), todo = Connect \o work, firehose.sector = opt.sector
      PROVE  SizedInv'
  <2>1. work \in Seq(Steps)
    BY <1>9, SeqMonotonic DEF Spoken
  <2>2. next = b /\ Tail(todo) = work
    BY <1>1, <1>2, <1>3, <1>9, <2>1, FirstOff
  <2>3. /\ todo' = <<>> \/ firehose'.sector = SectorSize(firehose.sector)
        /\ todo' \in {Tail(todo), <<>>}
    BY <1>2, <2>2, StepEffects
  <2>4. SectorSize(firehose.sector) = Asked
    BY <1>9 DEF SectorSize, Asked
  <2>5. CASE todo' = <<>>
    BY <1>5, <1>6, <2>5
  <2>6. CASE todo' # <<>>
    <3>1. todo' = work /\ firehose'.sector = Asked
      BY <2>2, <2>3, <2>4, <2>6, Zenon
    <3>2. Asked' = Asked
      BY <1>0 DEF Asked
    <3> QED
      BY <1>9, <3>1, <3>2 DEF SizedInv, Spoken, Leaps
  <2> QED
    BY <2>5, <2>6
<1>10. ASSUME todo \in Seq(Spoken), firehose.sector = Asked
       PROVE  SizedInv'
  <2>1. next \in Spoken /\ Tail(todo) \in Seq(Spoken)
    BY <1>0, <1>1, <1>10, HeadTailProperties
  <2>2. firehose'.sector = Asked' /\ todo' \in {Tail(todo), <<>>}
    BY <1>0, <1>10, <2>1, StepEffects DEF Spoken, Asked
  <2>3. todo' \in Seq(Spoken)
    BY <2>1, <2>2, EmptySeq
  <2> QED
    BY <2>2, <2>3 DEF SizedInv, Spoken, Leaps
<1> QED
  BY <1>7, <1>8, <1>9, <1>10 DEF SizedInv, Sized

LEMMA LoadedPhase ==
  ASSUME IInv, LoadedInv,
         GiveOption \/ ListOption \/ BadOption \/ OptionsEnd \/ Dispatch \/ Exit
  PROVE  LoadedInv'
<1>1. CASE GiveOption \/ ListOption \/ BadOption
  <2>1. pc = "options" /\ emergency' = emergency /\ pc' \in {"options", "exit"}
    BY <1>1 DEF GiveOption, ListOption, BadOption
  <2> QED
    BY <2>1 DEF LoadedInv
<1>2. CASE OptionsEnd
  <2>1. /\ pc = "options" /\ pc' = "load" /\ emergency' = emergency /\ opt' = opt
        /\ todo' = IF opt.flash THEN Load ELSE <<>>
    BY <1>2 DEF OptionsEnd
  <2>2. opt.flash => /\ \E j \in 1 .. Len(todo') : todo'[j].do = "load"
                     /\ opt.protocol = "FIREHOSE" => \E j \in 1 .. Len(todo') : todo'[j].do = "init"
    BY <2>1, LoadPrepared DEF Among
  <2> QED
    BY <2>1, <2>2 DEF LoadedInv, Among
<1>3. CASE Dispatch
  <2>1. /\ pc = "load" /\ todo = <<>> /\ pc' \in {"handler", "exit"}
        /\ UNCHANGED <<opt, emergency, firehose>>
    BY <1>3 DEF Dispatch
  <2>2. ~Among(todo, "load") /\ ~Among(todo, "init")
    BY <2>1 DEF Among
  <2> QED
    BY <2>1, <2>2 DEF LoadedInv
<1>4. CASE Exit
  BY <1>4 DEF Exit, LoadedInv
<1> QED
  BY <1>1, <1>2, <1>3, <1>4

LEMMA InitReady == Init => SpokenInv /\ LoadedInv /\ SizedInv
<1> SUFFICES ASSUME Init PROVE SpokenInv /\ LoadedInv /\ SizedInv
  OBVIOUS
<1>1. Len(todo) = 0 /\ pc = "options" /\ emergency = FALSE
  BY DEF Init
<1> QED
  BY <1>1 DEF SpokenInv, LoadedInv, SizedInv, Sized, Unsized

LEMMA NextReady ==
  IInv /\ SpokenInv /\ LoadedInv /\ SizedInv /\ [Next]_vars => SpokenInv' /\ LoadedInv' /\ SizedInv'
<1> SUFFICES ASSUME IInv, SpokenInv, LoadedInv, SizedInv, [Next]_vars
             PROVE  SpokenInv' /\ LoadedInv' /\ SizedInv'
  OBVIOUS
<1>1. CASE GiveOption \/ ListOption \/ BadOption \/ OptionsEnd \/ Dispatch \/ Exit
  BY <1>1, SpokenPhase, LoadedPhase, SizedPhase
<1>2. CASE Stepping
  BY <1>2, SpokenStep, LoadedStep, SizedStep
<1>3. CASE UNCHANGED vars
  <2>1. UNCHANGED <<opt, pc, todo, firehose, emergency>>
    BY <1>3 DEF vars, commandVars
  <2> QED
    <3>1. SpokenInv' /\ LoadedInv'
      BY <2>1 DEF SpokenInv, LoadedInv, Before, Among, Leaps
    <3>2. Asked' = Asked
      BY <2>1 DEF Asked
    <3>3. Sized(todo') = Sized(todo)
      BY <2>1
    <3>4. SizedInv'
      BY <2>1, <3>2, <3>3 DEF SizedInv, Sized, Unsized, Spoken, Leaps, Connection, Connect
    <3> QED
      BY <3>1, <3>4
<1> QED
  BY <1>1, <1>2, <1>3 DEF Next, Stepping

(* The device is spoken to by an object that has a port and is connected,  *)
(* in the sector size the options ask for, or in 4096 where that is 512    *)
(* and the memory ufs, spinor or nand, whatever the order of the options   *)
(* and whatever connected before: the beginnings of the handlers of        *)
(* emmcdl.cpp with ConnectToFlashProg, firehose.cpp 164-182.               *)
THEOREM DeviceReady == Spec => []ReadyFirst
<1>1. IInv /\ SpokenInv /\ SizedInv => ReadyFirst
  <2> SUFFICES ASSUME IInv, SpokenInv, SizedInv, todo # <<>>, next.on = "firehose"
               PROVE  /\ emergency
                      /\ next.do = "connect" /\ opt.protocol = "FIREHOSE" => firehose.ready
                      /\ next.do # "connect" => firehose.connected
                      /\ next.do \in Sectored => firehose.sector = Asked
    BY DEF ReadyFirst, Sectored
  <2>1. 1 \in 1 .. Len(todo) /\ next = todo[1]
    BY NextFirst
  <2>2. \A do : ~Before(todo, 1, do)
    BY DEF Before
  <2>3. /\ Step("sector", "tool", "ignore") \in Steps
        /\ Step("connect", "firehose", "return") \in Steps
        /\ Step("sector", "tool", "ignore").do \notin Sectored
        /\ Step("connect", "firehose", "return").do \notin Sectored
    BY DEF Step, Steps, Works, Objects, Sectored
  <2>4. ASSUME next.do \in Sectored
        PROVE  firehose.sector = Asked
    <3>1. ~Unsized(todo)
      BY <2>1, <2>4 DEF Unsized
    <3>2. ASSUME NEW work \in Seq(Spoken), todo = Connection \o work
          PROVE  FALSE
      <4>1. /\ work \in Seq(Steps) /\ <<Step("sector", "tool", "ignore")>> \in Seq(Steps)
            /\ Connect \in Seq(Steps)
        BY <2>3, <3>2, SeqMonotonic, Single DEF Spoken, Connect
      <4>2. todo = <<Step("sector", "tool", "ignore")>> \o (Connect \o work)
        BY <3>2, <4>1, ConcatAssociative DEF Connection
      <4>3. Connect \o work \in Seq(Steps)
        BY <4>1, ConcatProperties
      <4> QED
        BY <2>3, <2>4, <4>2, <4>3, FirstOff, NextFirst
    <3>3. ASSUME NEW work \in Seq(Spoken), todo = Connect \o work
          PROVE  FALSE
      <4>1. work \in Seq(Steps)
        BY <3>3, SeqMonotonic DEF Spoken
      <4> QED
        BY <2>3, <2>4, <3>3, <4>1, FirstOff, NextFirst DEF Connect
    <3> QED
      BY <3>1, <3>2, <3>3 DEF SizedInv, Sized
  <2> QED
    BY <2>1, <2>2, <2>4 DEF SpokenInv
<1> QED
  BY <1>1, InitInv, InitReady, Inductive, NextReady, PTL DEF Spec

-----------------------------------------------------------------------------
(* Who looks at failures: plain steps before, then what is heeded.         *)
Firm == {s \in Steps : Plain(s) /\ (s.then = "keep" => s.do \in Tolerated)}

LEMMA FirmHeeded ==
  ASSUME NEW first \in Seq(Firm), NEW rest \in Seq(Steps), Heeded(rest)
  PROVE  Heeded(first \o rest)
<1> DEFINE n == Len(first)
           t == first \o rest
<1>1. n \in Nat /\ Len(rest) \in Nat /\ \A k \in 1 .. n : first[k] \in Firm
  BY ElementOfSeq, LenProperties
<1>2. first \in Seq(Steps)
  BY SeqMonotonic DEF Firm
<1>3. /\ Len(t) = n + Len(rest)
      /\ \A k \in 1 .. n + Len(rest) : t[k] = IF k <= n THEN first[k] ELSE rest[k - n]
  BY <1>2, ConcatProperties
<1> HIDE DEF t, n
<1>4. ASSUME NEW k \in 1 .. Len(t)
      PROVE  /\ Plain(t[k])
             /\ t[k].then = "keep" /\ t[k].do \notin Tolerated
                  => \A j \in k + 1 .. Len(t) : t[j].then = "ignore"
  <2>1. CASE k <= n
    <3>1. t[k] \in Firm
      BY <1>1, <1>3, <2>1
    <3> QED
      BY <3>1 DEF Firm
  <2>2. CASE k > n
    <3>1. k - n \in 1 .. Len(rest) /\ t[k] = rest[k - n]
      BY <1>1, <1>3, <2>2
    <3>2. \A j \in k + 1 .. Len(t) : j - n \in (k - n) + 1 .. Len(rest) /\ t[j] = rest[j - n]
      BY <1>1, <1>3, <2>2
    <3> QED
      BY <3>1, <3>2 DEF Heeded
  <2> QED
    BY <1>1, <2>1, <2>2
<1> QED
  BY <1>4 DEF Heeded, t

LEMMA AllFirm ==
  ASSUME NEW t \in Seq(Firm)
  PROVE  Heeded(t)
<1>1. \A k \in 1 .. Len(t) : t[k] \in Firm
  BY ElementOfSeq
<1> QED
  BY <1>1 DEF Heeded, Firm

(* One step that matters, and then at most what is ignored.                *)
LEMMA OneHeeded ==
  ASSUME NEW s \in Steps, NEW r \in Steps, Plain(s), Plain(r), r.then = "ignore"
  PROVE  /\ <<s>> \in Seq(Steps) /\ Heeded(<<s>>)
         /\ <<s, r>> \in Seq(Steps) /\ Heeded(<<s, r>>)
<1>1. <<s>> \in Seq(Steps) /\ <<s, r>> \in Seq(Steps) /\ Len(<<s>>) = 1 /\ Len(<<s, r>>) = 2
      /\ <<s>>[1] = s /\ <<s, r>>[1] = s /\ <<s, r>>[2] = r
  OBVIOUS
<1> DEFINE one == <<s>>
           two == <<s, r>>
<1> HIDE DEF one, two
<1>2. Heeded(one)
  BY <1>1 DEF Heeded, one
<1>3. Heeded(two)
  <2>1. Len(two) = 2 /\ two[1] = s /\ two[2] = r
    BY <1>1 DEF two
  <2>2. \A k \in 1 .. 2 : k \in {1, 2}
    OBVIOUS
  <2>3. \A j \in 1 + 1 .. 2 : two[j].then = "ignore"
    BY <2>1
  <2> QED
    BY <2>1, <2>2, <2>3 DEF Heeded
<1> QED
  BY <1>1, <1>2, <1>3 DEF one, two

LEMMA FirmBeginnings ==
  /\ OpenPort \in Seq(Firm) /\ Connection \in Seq(Firm)
  /\ \A s \in Steps : Plain(s) => Heeded(OnDisk(<<s>>)) /\ Heeded(Connection \o <<s>>)
                                  /\ Heeded(OpenPort \o <<s>>)
<1>1. /\ Step("port", "tool", "ignore") \in Firm
      /\ Step("connect", "firehose", "return") \in Firm
      /\ Step("sector", "tool", "ignore") \in Firm
      /\ Step("list", "tool", "ignore") \in Firm
      /\ Step("open", "tool", "keep") \in Firm
      /\ Step("close", "tool", "ignore") \in Firm
  BY DEF Step, Steps, Works, Objects, Firm, Plain, Leaps, Harmless, Tolerated
<1>2. OpenPort \in Seq(Firm) /\ Connection \in Seq(Firm)
  <2>1. /\ <<Step("port", "tool", "ignore")>> \in Seq(Firm)
        /\ <<Step("connect", "firehose", "return")>> \in Seq(Firm)
        /\ <<Step("sector", "tool", "ignore")>> \in Seq(Firm)
    BY <1>1, Single
  <2> QED
    BY <2>1, ConcatProperties DEF OpenPort, Connection, Connect
<1>3. ASSUME NEW s \in Steps, Plain(s)
      PROVE  Heeded(OnDisk(<<s>>)) /\ Heeded(Connection \o <<s>>) /\ Heeded(OpenPort \o <<s>>)
  <2> DEFINE c == Step("close", "tool", "ignore")
             f == <<Step("list", "tool", "ignore"), Step("open", "tool", "keep")>>
  <2>1. c \in Steps /\ Plain(c) /\ c.then = "ignore" /\ f \in Seq(Firm)
    BY <1>1, Single DEF Firm, Step
  <2>2. OnDisk(<<s>>) = f \o <<s>> \o <<c>>
    BY DEF OnDisk
  <2> HIDE DEF c, f
  <2>3. <<s>> \o <<c>> = <<s, c>>
    BY Joined
  <2>4. /\ <<s>> \in Seq(Steps) /\ Heeded(<<s>>) /\ <<s, c>> \in Seq(Steps) /\ Heeded(<<s, c>>)
    BY <1>3, <2>1, OneHeeded
  <2>5. (f \o <<s>>) \o <<c>> = f \o (<<s>> \o <<c>>)
    <3>1. Firm \subseteq Steps
      BY DEF Firm
    <3>2. f \in Seq(Steps)
      BY <2>1, <3>1, SeqMonotonic
    <3>3. <<c>> \in Seq(Steps)
      BY <2>1
    <3> QED
      BY <2>4, <3>2, <3>3, ConcatAssociative
  <2>6. Heeded(f \o <<s, c>>)
    BY <2>1, <2>4, FirmHeeded
  <2>7. Heeded(Connection \o <<s>>) /\ Heeded(OpenPort \o <<s>>)
    BY <1>2, <2>4, FirmHeeded
  <2> QED
    BY <2>2, <2>3, <2>5, <2>6, <2>7
<1> QED
  BY <1>2, <1>3

LEMMA HandlerHeeded ==
  ASSUME opt \in Invocations, TrustedNow
  PROVE  Heeded(Handler)
<1>0. opt.xml \in Nat
  BY CommandAssumption DEF Invocations
<1>1. CASE opt.cmd = "DUMP"
  <2>1. /\ Step("dump", "firehose", "keep") \in Steps /\ Plain(Step("dump", "firehose", "keep"))
        /\ Step("dump", "disk", "keep") \in Steps /\ Plain(Step("dump", "disk", "keep"))
    BY DEF Step, Steps, Works, Objects, Plain, Leaps
  <2> QED
    BY <1>1, <2>1, FirmBeginnings DEF Handler, RawDiskDump
<1>2. CASE opt.cmd = "WRITE_GPT"
  <2>1. /\ Step("write", "firehose", "keep") \in Steps /\ Plain(Step("write", "firehose", "keep"))
        /\ Step("write", "disk", "keep") \in Steps /\ Plain(Step("write", "disk", "keep"))
    BY DEF Step, Steps, Works, Objects, Plain, Leaps
  <2> QED
    BY <1>2, <2>1, FirmBeginnings DEF Handler, WriteGPT
<1>3. CASE opt.cmd = "WIPE" \/ (opt.cmd = "ERASE" /\ ~emergency)
  <2>1. /\ Step("wipe", "disk", "keep") \in Steps /\ Plain(Step("wipe", "disk", "keep"))
        /\ Step("erase", "disk", "keep") \in Steps /\ Plain(Step("erase", "disk", "keep"))
    BY DEF Step, Steps, Works, Objects, Plain, Leaps
  <2> QED
    BY <1>3, <2>1, FirmBeginnings DEF Handler, WipeDisk, EraseDisk
<1>6. CASE opt.cmd = "RAW"
  <2>1. /\ Step("count", "words", "return") \in Firm
        /\ Step("raw", "port", "keep") \in Steps /\ Plain(Step("raw", "port", "keep"))
        /\ Step("close", "tool", "ignore") \in Steps /\ Plain(Step("close", "tool", "ignore"))
        /\ Step("close", "tool", "ignore").then = "ignore"
    BY DEF Step, Steps, Works, Objects, Firm, Plain, Leaps, Harmless
  <2>2. <<Step("count", "words", "return")>> \in Seq(Firm)
    BY <2>1, Single
  <2>3. <<Step("count", "words", "return")>> \o OpenPort \in Seq(Firm)
    BY <2>2, FirmBeginnings, ConcatProperties
  <2>4. <<Step("raw", "port", "keep")>> \in Seq(Steps) /\ Heeded(<<Step("raw", "port", "keep")>>)
    BY <2>1, OneHeeded
  <2> QED
    BY <1>6, <2>3, <2>4, FirmHeeded DEF Handler, RawSerialSend
<1>8. CASE opt.cmd = "WRITE" /\ emergency /\ ~opt.single /\ opt.protocol = "FIREHOSE"
  <2> DEFINE file == <<Step("preload", "file", "return"), Step("xml", "firehose", "return"),
                       Step("patch", "firehose", "ignore")>>
  <2>1. /\ Step("preload", "file", "return") \in Firm
        /\ Step("xml", "firehose", "return") \in Firm
        /\ Step("patch", "firehose", "ignore") \in Firm
    BY DEF Step, Steps, Works, Objects, Firm, Plain, Leaps, Harmless, Tolerated
  <2>2. file \in Seq(Firm) /\ Len(file) = 3
    BY <2>1, Single
  <2>3. FirehoseXml = Connection \o Times(opt.xml, file)
    BY DEF FirehoseXml
  <2> HIDE DEF file
  <2>4. Times(opt.xml, file) \in Seq(Firm)
    BY <1>0, <2>2, TimesTyped
  <2>5. FirehoseXml \in Seq(Firm)
    BY <2>3, <2>4, FirmBeginnings, ConcatProperties
  <2>6. Handler = FirehoseXml
    BY <1>8 DEF Handler, EDownloadProgram
  <2> QED
    BY <2>5, <2>6, AllFirm
<1> QED
  BY <1>1, <1>2, <1>3, <1>6, <1>8 DEF TrustedNow, Trusted

(* What a step does to the status and to what has failed.                  *)
LEMMA TakenJudged ==
  ASSUME IInv, todo # <<>>, NEW ok \in BOOLEAN, Taken(ok), ~Leaps(next)
  PROVE  /\ next.then = "ignore" => status' = status
         /\ ok => failed' = failed
         /\ ~ok => /\ failed' = failed \union {next.do}
                   /\ next.then # "ignore" => status' = "FAULT"
                   /\ next.then = "keep" => todo' = Tail(todo)
                   /\ next.then = "return" => todo' = <<>> /\ (pc = "load" => pc' = "exit")
<1>1. next.then \in {"keep", "ignore", "return"}
  <2>1. next \in Steps
    BY NextTyped DEF Loading, Handled
  <2> QED
    BY <2>1 DEF Steps, Leaps
<1>2. next.then = "ignore" => status' = status
  BY DEF Taken, Returned
<1>3. CASE ok
  BY <1>2, <1>3 DEF Taken, Returned
<1>4. CASE ~ok
  <2>1. failed' = failed \union {next.do}
    BY <1>4, Zenon DEF Taken, Returned
  <2>2. next.then # "ignore" => status' = "FAULT"
    BY <1>4 DEF Taken, Returned
  <2>3. next.then = "keep" => todo' = Tail(todo)
    BY DEF Taken, Returned
  <2>4. next.then = "return" => todo' = <<>>
    BY <1>4 DEF Taken, Returned
  <2>5. next.then = "return" /\ pc = "load" => pc' = "exit"
    BY <1>4, Zenon DEF Taken, Returned
  <2> QED
    BY <1>2, <1>4, <2>1, <2>2, <2>3, <2>4, <2>5
<1> QED
  BY <1>3, <1>4

LEMMA StepJudged ==
  ASSUME IInv, Stepping, Plain(next)
  PROVE  /\ next.then = "ignore" => status' = status
         /\ \/ failed' = failed
            \/ \E x \in Tolerated : failed' = failed \union {x}
            \/ /\ failed' = failed \union {next.do}
               /\ next.do # "init" /\ ~(next.then = "ignore" /\ Harmless(next))
               /\ next.then # "ignore" => status' = "FAULT"
               /\ next.then = "keep" => todo' = Tail(todo)
               /\ next.then = "return" => todo' = <<>> /\ (pc = "load" => pc' = "exit")
<1>0. /\ todo # <<>> /\ port \in BOOLEAN /\ TRUE \in BOOLEAN /\ FALSE \in BOOLEAN
      /\ ~Leaps(next) /\ (next.do = "connect" => next.then = "return")
      /\ (next.do = "open" => next.then = "keep")
  BY StepTurns DEF IInv, TypeOK, Plain
<1>1. CASE PortOpened
  <2>1. next.do = "port" /\ \E ok \in BOOLEAN : Taken(ok)
    BY <1>1, Zenon DEF PortOpened, Does
  <2> QED
    BY <1>0, <2>1, TakenJudged DEF Tolerated
<1>2. CASE Loaded
  <2>1. next.do = "load" /\ \E ok \in BOOLEAN : Taken(ok)
    BY <1>0, <1>2, Zenon DEF Loaded, Does
  <2> QED
    BY <1>0, <2>1, TakenJudged DEF Tolerated
<1>3. CASE FirehoseInit \/ SetDiskSectorSize \/ DisksListed \/ DiskClosed
  <2>1. Taken(TRUE)
    BY <1>3, Zenon DEF FirehoseInit, SetDiskSectorSize, DisksListed, DiskClosed
  <2> QED
    BY <1>0, <2>1, TakenJudged
<1>4. CASE Connected
  <2>1. next.do = "connect"
    BY <1>4, Zenon DEF Connected, Does
  <2>2. CASE firehose.ready
    <3>1. \E ok \in BOOLEAN : Taken(ok)
      BY <1>0, <1>4, <2>2, Zenon DEF Connected
    <3> QED
      BY <1>0, <2>1, <3>1, TakenJudged
  <2>3. CASE ~firehose.ready
    <3>1. failed' = failed
      BY <1>4, <2>3, Zenon DEF Connected
    <3> QED
      BY <1>0, <2>1, <3>1
  <2> QED
    BY <2>2, <2>3
<1>5. CASE DiskOpened
  <2>1. next.do = "open" /\ failed' \in {failed, failed \union {"open"}}
    BY <1>5 DEF DiskOpened, Does
  <2> QED
    BY <1>0, <2>1 DEF Tolerated
<1>6. CASE FileOpened
  BY <1>0, <1>6 DEF FileOpened, Does, Leaps
<1>7. CASE Worked
  <2>r. CASE Returned(TRUE, {"unnoticed"})
    <3>1. failed' = failed \union {"unnoticed"} /\ (next.then = "ignore" => status' = status)
      BY <2>r DEF Returned
    <3> QED
      BY <3>1 DEF Tolerated
  <2> SUFFICES ASSUME ~Returned(TRUE, {"unnoticed"})
               PROVE  /\ next.then = "ignore" => status' = status
                      /\ \/ failed' = failed
                         \/ \E x \in Tolerated : failed' = failed \union {x}
                         \/ /\ failed' = failed \union {next.do}
                            /\ next.do # "init" /\ ~(next.then = "ignore" /\ Harmless(next))
                            /\ next.then # "ignore" => status' = "FAULT"
                            /\ next.then = "keep" => todo' = Tail(todo)
                            /\ next.then = "return" => todo' = <<>> /\ (pc = "load" => pc' = "exit")
    BY <2>r
  <2>1. PICK ok \in Outcomes : Taken(ok)
    BY <1>7, Zenon DEF Worked
  <2>2. ok \in BOOLEAN
    BY <2>1, OutcomesTyped, Zenon
  <2>3. next.do # "init"
    BY <1>7 DEF Worked
  <2>4. next.on = "tool" /\ next.do # "unsupported" => ok
    <3>1. next.on = "tool" => Outcomes = {next.do # "unsupported"}
      BY DEF Outcomes
    <3> SUFFICES ASSUME next.on = "tool", next.do # "unsupported"
                 PROVE  ok
      OBVIOUS
    <3>2. ok = (next.do # "unsupported")
      BY <2>1, <3>1
    <3> QED
      BY <3>2, Zenon
  <2>5. CASE ok
    BY <1>0, <2>1, <2>2, <2>5, TakenJudged
  <2>6. CASE ~ok
    <3>1. /\ next.then = "ignore" => status' = status
          /\ failed' = failed \union {next.do}
          /\ next.then # "ignore" => status' = "FAULT"
          /\ next.then = "keep" => todo' = Tail(todo)
          /\ next.then = "return" => todo' = <<>> /\ (pc = "load" => pc' = "exit")
      BY <1>0, <2>1, <2>2, <2>6, TakenJudged
    <3>2. next.do \in Tolerated \/ ~Harmless(next)
      BY <2>4, <2>6 DEF Harmless
    <3> QED
      BY <2>3, <3>1, <3>2
  <2> QED
    BY <2>5, <2>6
<1> QED
  BY <1>1, <1>2, <1>3, <1>4, <1>5, <1>6, <1>7 DEF Stepping

(* What is heeded stays so as steps are taken.                             *)
LEMMA HeededTail ==
  ASSUME todo \in Seq(Steps), todo # <<>>, Heeded(todo)
  PROVE  /\ Heeded(Tail(todo)) /\ Plain(next)
         /\ next.then = "keep" /\ next.do \notin Tolerated => Ignored(Tail(todo))
         /\ Ignored(todo) => next.then = "ignore" /\ Ignored(Tail(todo))
<1> DEFINE t == Tail(todo)
<1>1. /\ Len(todo) \in Nat \ {0} /\ Len(t) = Len(todo) - 1 /\ next = todo[1]
      /\ \A i \in 1 .. Len(t) : t[i] = todo[i + 1]
  BY HeadTailProperties, EmptySeq DEF next
<1> HIDE DEF t
<1>2. 1 \in 1 .. Len(todo) /\ \A i \in 1 .. Len(t) : i + 1 \in 1 + 1 .. Len(todo)
      /\ i + 1 \in 1 .. Len(todo)
  BY <1>1
<1>3. \A k \in 1 .. Len(t) : \A j \in k + 1 .. Len(t) :
        j + 1 \in (k + 1) + 1 .. Len(todo) /\ j \in 1 .. Len(t)
  BY <1>1
<1>4. Heeded(t)
  <2> SUFFICES ASSUME NEW k \in 1 .. Len(t)
               PROVE  /\ Plain(t[k])
                      /\ t[k].then = "keep" /\ t[k].do \notin Tolerated =>
                           \A j \in k + 1 .. Len(t) : t[j].then = "ignore"
    BY DEF Heeded
  <2>1. t[k] = todo[k + 1] /\ k + 1 \in 1 .. Len(todo)
    BY <1>1, <1>2
  <2>2. /\ Plain(t[k])
        /\ t[k].then = "keep" /\ t[k].do \notin Tolerated =>
             \A m \in (k + 1) + 1 .. Len(todo) : todo[m].then = "ignore"
    BY <2>1 DEF Heeded
  <2>3. ASSUME NEW j \in k + 1 .. Len(t)
        PROVE  j + 1 \in (k + 1) + 1 .. Len(todo) /\ t[j] = todo[j + 1]
    BY <1>1, <1>3
  <2> QED
    BY <2>2, <2>3
<1>5. Plain(next) /\ (next.then = "keep" /\ next.do \notin Tolerated => Ignored(t))
  BY <1>1, <1>2 DEF Heeded, Ignored
<1>6. Ignored(todo) => next.then = "ignore" /\ Ignored(t)
  BY <1>1, <1>2 DEF Ignored
<1> QED
  BY <1>4, <1>5, <1>6 DEF t

LEMMA TrustStep ==
  ASSUME IInv, TrustInv, Stepping
  PROVE  TrustInv'
<1>0. /\ todo # <<>> /\ opt' = opt /\ pc \in {"load", "handler"}
      /\ pc' = pc \/ (pc' = "exit" /\ todo' = <<>>)
  BY StepTurns, NextTyped DEF Turned
<1>1. todo \in Seq(Steps) /\ 1 \in 1 .. Len(todo) /\ next = todo[1]
  BY <1>0, NextFirst
<1>2. CASE pc = "load"
  <2>1. Plain(next) /\ next.do \in Tolerated \union {"connect", "init"}
        /\ failed \subseteq Tolerated
    BY <1>1, <1>2 DEF TrustInv
  <2>2. failed' \subseteq Tolerated \/ (pc' = "exit" /\ status' = "FAULT")
    <3>1. next.do = "connect" => next.then = "return"
      BY <2>1 DEF Plain
    <3>2. \/ failed' = failed
          \/ \E x \in Tolerated : failed' = failed \union {x}
          \/ /\ next.do # "init"
             /\ next.then # "ignore" => status' = "FAULT"
             /\ next.then = "return" => todo' = <<>> /\ (pc = "load" => pc' = "exit")
             /\ failed' = failed \union {next.do}
      BY <2>1, StepJudged
    <3> QED
      BY <1>2, <2>1, <3>1, <3>2
  <2>3. CASE pc' = "load"
    <3>1. todo' = Tail(todo)
      BY <1>2, <2>1, <2>3, StepEffects DEF Plain
    <3>2. \A k \in 1 .. Len(todo') : k + 1 \in 1 .. Len(todo) /\ todo'[k] = todo[k + 1]
      BY <1>0, <1>1, <3>1, HeadTailProperties, EmptySeq
    <3>3. \A k \in 1 .. Len(todo') :
            Plain(todo'[k]) /\ todo'[k].do \in Tolerated \union {"connect", "init"}
      BY <1>2, <3>2 DEF TrustInv
    <3> QED
      BY <2>2, <2>3, <3>3 DEF TrustInv, Plain, Leaps, Harmless
  <2>4. CASE pc' = "exit"
    BY <2>2, <2>4 DEF TrustInv
  <2> QED
    BY <1>0, <1>2, <2>3, <2>4
<1>3. CASE pc = "handler" /\ TrustedNow
  <2>1. Heeded(todo) /\ (failed \subseteq Tolerated \/ (status # "SUCCESS" /\ Ignored(todo)))
    BY <1>3 DEF TrustInv
  <2>2. /\ Heeded(Tail(todo)) /\ Plain(next)
        /\ next.then = "keep" /\ next.do \notin Tolerated => Ignored(Tail(todo))
        /\ Ignored(todo) => next.then = "ignore" /\ Ignored(Tail(todo))
    BY <1>0, <1>1, <2>1, HeededTail
  <2>3. Heeded(<<>>) /\ Ignored(<<>>)
    BY DEF Heeded, Ignored
  <2>4. todo' \in {Tail(todo), <<>>}
    BY <2>2, StepEffects DEF Plain
  <2>5. failed' \subseteq Tolerated \/ (status' # "SUCCESS" /\ Ignored(todo'))
    <3>1. /\ next.then = "ignore" => status' = status
          /\ \/ failed' = failed
             \/ \E x \in Tolerated : failed' = failed \union {x}
             \/ /\ failed' = failed \union {next.do}
                /\ ~(next.then = "ignore" /\ Harmless(next))
                /\ next.then # "ignore" => status' = "FAULT"
                /\ next.then = "keep" => todo' = Tail(todo)
                /\ next.then = "return" => todo' = <<>>
      BY <2>2, StepJudged
    <3>2. next.then \in {"keep", "ignore", "return"} /\ (next.then = "ignore" => Harmless(next))
      <4>1. next \in Steps
        BY <1>0, NextTyped DEF Loading, Handled
      <4> QED
        BY <2>2, <4>1 DEF Steps, Plain, Leaps
    <3>3. CASE failed \subseteq Tolerated
      <4>1. CASE \/ failed' = failed \/ next.do \in Tolerated
                 \/ \E x \in Tolerated : failed' = failed \union {x}
        BY <3>1, <3>3, <4>1
      <4>2. CASE /\ failed' # failed /\ next.do \notin Tolerated
                 /\ ~\E x \in Tolerated : failed' = failed \union {x}
        BY <2>2, <2>3, <3>1, <3>2, <4>2
      <4> QED
        BY <4>1, <4>2
    <3>4. CASE status # "SUCCESS" /\ Ignored(todo)
      BY <2>2, <2>3, <2>4, <3>1, <3>4
    <3> QED
      BY <2>1, <3>3, <3>4
  <2>6. Heeded(todo')
    BY <2>2, <2>3, <2>4
  <2>7. PICK t : t = todo'
    OBVIOUS
  <2>8. Heeded(t) /\ (failed' \subseteq Tolerated \/ (status' # "SUCCESS" /\ Ignored(t)))
    BY <2>5, <2>6, <2>7
  <2>9. CASE pc' = "handler"
    <3>1. Heeded(todo)' /\ (failed' \subseteq Tolerated \/ (status' # "SUCCESS" /\ Ignored(todo)'))
      BY <2>7, <2>8 DEF Heeded, Ignored, Plain, Leaps, Harmless
    <3> QED
      BY <2>9, <3>1 DEF TrustInv
  <2>10. CASE pc' = "exit"
    BY <2>5, <2>10 DEF TrustInv
  <2> QED
    BY <1>0, <1>3, <2>9, <2>10
<1>4. CASE pc = "handler" /\ ~TrustedNow
  <2>1. emergency' = emergency
    BY <1>4, StepSpeaks
  <2>2. ~TrustedNow'
    BY <1>0, <1>4, <2>1 DEF TrustedNow
  <2> QED
    BY <1>0, <1>4, <2>2 DEF TrustInv
<1> QED
  BY <1>0, <1>2, <1>3, <1>4

LEMMA TrustPhase ==
  ASSUME IInv, TrustInv,
         GiveOption \/ ListOption \/ BadOption \/ OptionsEnd \/ Dispatch \/ Exit
  PROVE  TrustInv'
<1>1. CASE GiveOption \/ ListOption \/ BadOption
  <2>1. /\ pc = "options" /\ failed' = failed
        /\ pc' = "options" \/ (pc' = "exit" /\ status' = "USAGE")
    BY <1>1 DEF GiveOption, ListOption, BadOption
  <2> QED
    BY <2>1 DEF TrustInv
<1>2. CASE OptionsEnd
  <2>1. /\ pc = "options" /\ failed' = failed /\ pc' = "load"
        /\ todo' = IF opt.flash THEN Load ELSE <<>>
    BY <1>2 DEF OptionsEnd
  <2>2. \A k \in 1 .. Len(todo') :
          Plain(todo'[k]) /\ todo'[k].do \in Tolerated \union {"connect", "init"}
    <3>1. CASE opt.flash
      BY <2>1, <3>1, LoadPrepared
    <3>2. CASE ~opt.flash
      BY <2>1, <3>2
    <3> QED
      BY <3>1, <3>2
  <2> QED
    BY <2>1, <2>2 DEF TrustInv, Plain, Leaps, Harmless
<1>3. CASE Dispatch
  <2>1. /\ pc = "load" /\ failed' = failed /\ opt' = opt /\ emergency' = emergency
        /\ failed \subseteq Tolerated
    BY <1>3 DEF Dispatch, TrustInv
  <2>2. CASE pc' = "exit"
    BY <2>1, <2>2 DEF TrustInv
  <2>3. CASE pc' = "handler" /\ todo' = Handler
    <3>1. TrustedNow' => TrustedNow
      BY <2>1 DEF TrustedNow
    <3>2. TrustedNow => Heeded(Handler)
      BY HandlerHeeded DEF IInv, TypeOK
    <3>3. PICK t : t = Handler
      OBVIOUS
    <3>4. TrustedNow => Heeded(t)
      BY <3>2, <3>3
    <3>5. t = todo'
      BY <2>3, <3>3
    <3>6. TrustedNow' => Heeded(todo)'
      BY <3>1, <3>4, <3>5 DEF Heeded, Plain, Leaps, Harmless
    <3> QED
      BY <2>1, <2>3, <3>6 DEF TrustInv
  <2> QED
    BY <1>3, <2>2, <2>3 DEF Dispatch
<1>4. CASE Exit
  <2>1. /\ pc = "handler" /\ pc' = "exit"
        /\ UNCHANGED <<failed, opt, emergency, status>>
    BY <1>4 DEF Exit
  <2>2. TrustedNow' => TrustedNow
    BY <2>1 DEF TrustedNow
  <2> QED
    BY <2>1, <2>2 DEF TrustInv
<1> QED
  BY <1>1, <1>2, <1>3, <1>4

LEMMA InitTrust == Init => TrustInv
BY DEF Init, TrustInv

LEMMA NextTrust == IInv /\ TrustInv /\ [Next]_vars => TrustInv'
<1> SUFFICES ASSUME IInv, TrustInv, [Next]_vars PROVE TrustInv'
  OBVIOUS
<1>1. CASE GiveOption \/ ListOption \/ BadOption \/ OptionsEnd \/ Dispatch \/ Exit
  BY <1>1, TrustPhase
<1>2. CASE Stepping
  BY <1>2, TrustStep
<1>3. CASE UNCHANGED vars
  <2>1. UNCHANGED <<opt, pc, todo, status, failed, emergency>>
    BY <1>3 DEF vars, commandVars
  <2> QED
    BY <2>1 DEF TrustInv, TrustedNow, Heeded, Ignored, Plain, Leaps, Harmless
<1> QED
  BY <1>1, <1>2, <1>3 DEF Next, Stepping

(* For the commands in Trusted, and for the variants of -x and -e that     *)
(* TrustedSuccess names, success means that every step of the work         *)
(* returned success: no later status hides an earlier failure in their     *)
(* handlers in emmcdl.cpp.  What a step does not notice is excepted.       *)
THEOREM SuccessTrusted == Spec => []TrustedSuccess
<1>1. TrustInv => TrustedSuccess
  BY DEF TrustInv, TrustedNow, TrustedSuccess, Tolerated
<1> QED
  BY <1>1, InitInv, InitTrust, Inductive, NextTrust, PTL DEF Spec
=============================================================================
