--------------------------- MODULE FlashUpdateProofs ---------------------------
(***************************************************************************)
(* A reflash keeps the golden image and stores what it says it stored, for *)
(* every device, every set of firmware files that FirmwareFits, and every  *)
(* number of passes: at each point the program may be killed, the supply   *)
(* may fail, and each wait may time out.                                   *)
(***************************************************************************)
EXTENDS FlashInvariant, TLAPS

--------------------------------------------------------------------------------
(* Arithmetic of pages and sectors. *)

\* A quotient brackets its dividend.
LEMMA QuotientBounds ==
  ASSUME NEW a \in Nat, NEW n \in Nat \ {0}
  PROVE  a \div n \in Nat /\ (a \div n) * n <= a /\ a < (a \div n) * n + n
OBVIOUS

\* Only one number does.
LEMMA QuotientUnique ==
  ASSUME NEW a \in Nat, NEW n \in Nat \ {0}, NEW d \in Nat, d * n <= a, a < d * n + n
  PROVE  a \div n = d
<1>1. a - d * n \in 0 .. n - 1
  OBVIOUS
<1>2. a = d * n + (a - d * n)
  OBVIOUS
<1> QED
  BY <1>1, <1>2

\* The device has pages.
LEMMA DeviceFacts ==
  NumPages \in Nat /\ Pages \subseteq Nat /\ 0 \in Pages /\ SectorPages \in Nat \ {0}
BY FlashGeometry DEF NumPages, Pages

\* A sector that starts at or above the base of an image lies above it.
LEMMA SectorAbove ==
  ASSUME NEW b \in Nat, NEW p \in Pages, NEW q \in SectorOf(p), b * SectorPages <= p
  PROVE  b * SectorPages <= q
<1> SectorPages \in Nat \ {0} /\ p \in Nat /\ q \in Nat
  BY DeviceFacts DEF SectorOf
<1> DEFINE d == p \div SectorPages
<1>1. d = q \div SectorPages
  BY DEF SectorOf
<1>2. /\ d \in Nat /\ d * SectorPages <= q
      /\ p < d * SectorPages + SectorPages
  BY <1>1, QuotientBounds
<1>3. b <= d
  <2> SUFFICES ASSUME b >= d + 1 PROVE FALSE
    BY <1>2
  <2> HIDE DEF d
  <2>1. (d + 1) * SectorPages <= b * SectorPages
    BY <1>2
  <2> QED
    BY <1>2, <2>1
<1> HIDE DEF d
<1>4. b * SectorPages <= d * SectorPages
  BY <1>2, <1>3
<1> QED
  BY <1>2, <1>4

\* The pages of a sector that is erased from its first page on.
LEMMA SectorPagesOf ==
  ASSUME NEW p \in Pages, SectorStart(p), NEW q \in Pages
  PROVE  q \in SectorOf(p) <=> p <= q /\ q < p + SectorPages
<1> SectorPages \in Nat \ {0} /\ p \in Nat /\ q \in Nat
  BY DeviceFacts
<1> DEFINE d == p \div SectorPages
           e == q \div SectorPages
<1>1. d \in Nat /\ p = d * SectorPages
  BY DEF SectorStart
<1>2. e \in Nat /\ e * SectorPages <= q /\ q < e * SectorPages + SectorPages
  BY QuotientBounds
<1>3. p <= q /\ q < p + SectorPages => e = d
  <2> HIDE DEF d
  <2> QED
    BY <1>1, QuotientUnique
<1>4. q \in SectorOf(p) <=> e = d
  BY DEF SectorOf
<1> HIDE DEF d, e
<1> QED
  BY <1>1, <1>2, <1>3, <1>4

\* The first page of a sector.
LEMMA SectorMultiple ==
  ASSUME NEW b \in Nat, NEW n \in Nat \ {0}
  PROVE  b * n \in Nat /\ (b * n) % n = 0 /\ (b # 0 => b * n > 0) /\ (b = 0 => b * n = 0)
<1>1. (b * n) % n = 0
  <2>1. (b * n) \div n = b
    BY QuotientUnique
  <2> QED
    BY <2>1
<1>2. b # 0 => b * n > 0
  OBVIOUS
<1> QED
  BY <1>1, <1>2

\* A sector further is a multiple of a sector too.
LEMMA MultipleStep ==
  ASSUME NEW a \in Nat, NEW n \in Nat \ {0}, a % n = 0
  PROVE  (a + n) % n = 0
<1> DEFINE d == a \div n
<1>1. a = d * n /\ d \in Nat
  OBVIOUS
<1> HIDE DEF d
<1>2. a + n = (d + 1) * n
  BY <1>1
<1> QED
  BY <1>1, <1>2, SectorMultiple

\* Whole sectors add up to whole sectors.
LEMMA MultipleSum ==
  ASSUME NEW a \in Nat, NEW b \in Nat, NEW n \in Nat \ {0}, a % n = 0, b % n = 0, b > 0
  PROVE  (a + b - n) % n = 0 /\ a + b - n \in Nat
<1> DEFINE d == a \div n
           e == b \div n
<1>1. a = d * n /\ d \in Nat /\ b = e * n /\ e \in Nat
  OBVIOUS
<1> HIDE DEF d, e
<1>2. e - 1 \in Nat
  BY <1>1
<1>3. a + b - n = (d + (e - 1)) * n
  <2>1. (d + (e - 1)) * n = d * n + e * n - n
    BY <1>1
  <2> QED
    BY <1>1, <2>1
<1>4. d + (e - 1) \in Nat
  BY <1>1, <1>2
<1> QED
  BY <1>3, <1>4, SectorMultiple

\* What FirmwareFits says of the image the host works with.
LEMMA ImageFacts ==
  ASSUME image \in Images
  PROVE  /\ First \in Nat /\ Size \in Nat /\ First < Size /\ Size <= NumPages
         /\ First = image.base * SectorPages /\ SectorStart(First)
         /\ image.base \in Nat /\ (image.base # 0 => First > 0) /\ (image.base = 0 => First = 0)
         /\ Word(First) \in Values
         /\ \A p \in Nat : p < Size => Word(p) \in Values \cup {Blank}
         /\ image.data \in Contents
         /\ image.base = 0 => Bootable(image.data)
<1>1. /\ image.data \in Contents /\ image.base \in 0 .. Sectors - 1
      /\ Len(image.data) <= NumPages
      /\ image.base * SectorPages < Len(image.data)
      /\ image.data[image.base * SectorPages + 1] \in Values
      /\ image.base = 0 => Bootable(image.data)
  <2>1. Fits(image)
    BY FirmwareFits
  <2> QED
    BY <2>1 DEF Fits, Bootable
<1> USE FlashGeometry DEF First, Size, Word, Contents
<1>2. image.base \in Nat /\ SectorPages \in Nat \ {0}
  <2>1. Sectors \in Nat
    OBVIOUS
  <2> QED
    BY <1>1, <2>1
<1>3. /\ image.base * SectorPages \in Nat /\ (image.base * SectorPages) % SectorPages = 0
      /\ image.base # 0 => image.base * SectorPages > 0
      /\ image.base = 0 => image.base * SectorPages = 0
  BY <1>2, SectorMultiple
<1> QED
  BY <1>1, <1>2, <1>3 DEF SectorStart

\* The page the host is at lies in the device.
LEMMA PageInDevice ==
  ASSUME image \in Images, off \in Nat, MoreToDo
  PROVE  First + off \in Pages /\ Word(First + off) \in Values \cup {Blank}
BY ImageFacts, DeviceFacts DEF MoreToDo, Pages

--------------------------------------------------------------------------------
(* The invariant holds at the start. *)

\* The factory image is in the flash and the host has not begun.
LEMMA InitInv == Init => IInv
<1> SUFFICES ASSUME Init PROVE IInv
  OBVIOUS
<1> USE FlashGeometry, FirmwareFits DEF Init, Bootable, Contents
<1>1. FlashTypeOK
  <2>1. 0 \in Pages
    BY DeviceFacts
  <2>2. \A p \in Pages : p < Len(GoldenImage) => GoldenImage[p + 1] \in Values \cup {Blank}
    BY DEF Pages
  <2> QED
    BY <2>1, <2>2 DEF FlashTypeOK, NoOp
<1>2. HostOK
  <2>1. SectorPages \in Nat /\ NumPages \in Nat /\ MaxRetry \in Nat
    BY DeviceFacts
  <2>2. pc = "idle" /\ image = NoImage /\ off = 0 /\ retry = 0 /\ result = "NONE"
        /\ rdback = TRUE /\ late = FALSE
    OBVIOUS
  <2>3. rdback \in BOOLEAN /\ late \in BOOLEAN
    OBVIOUS
  <2> HIDE FlashGeometry, FirmwareFits DEF Init
  <2> QED
    BY <2>1, <2>2, <2>3 DEF HostOK, Labels
<1>3. Protected
  <2>1. GoldenKept
    BY DeviceFacts DEF GoldenKept, Pages
  <2>2. Above(Len(golden))
    BY DEF Above, Busy
  <2> QED
    BY <2>1, <2>2 DEF Protected, Working, UpdateReachable
<1>4. ReadBack /\ Quiet /\ InStep
  BY DEF ReadBack, Quiet, InStep, Working
<1> QED
  BY <1>1, <1>2, <1>3, <1>4 DEF IInv

--------------------------------------------------------------------------------
(* Each conjunct is preserved by every step. *)

\* The steps of the host, the device and the world around them, as one list.
Step == \/ \E f \in Files : FlashFromFile(f)
        \/ CheckDualBoot
        \/ Enable("erase", "erase_wait", "write") \/ EraseSector
        \/ Enable("write", "write_wait", "verify_alloc") \/ WriteBytes
        \/ WaitWip("erase_wait", "erase_cmd", FALSE)
        \/ WaitWip("erase_done", "erase", TRUE)
        \/ WaitWip("write_wait", "write_cmd", FALSE)
        \/ WaitWip("write_done", "write", TRUE)
        \/ AllocReadBack \/ VerifyPage \/ PassEnd
        \/ Device \/ Kill \/ PowerOff

\* Next is one of them, with the history of the golden image.
LEMMA NextSteps == Next => Step /\ GoldenStep
BY DEF Next, Step, HostStep, Flash

\* The device keeps its types: an erase or a write is started inside it.
LEMMA FlashTypeStep ==
  ASSUME FlashTypeOK, HostOK, Step
  PROVE  FlashTypeOK'
<1> USE FlashGeometry DEF FlashTypeOK
<1>1. CASE \/ \E f \in Files : FlashFromFile(f)
           \/ CheckDualBoot \/ AllocReadBack \/ VerifyPage \/ PassEnd \/ Kill
           \/ WaitWip("erase_wait", "erase_cmd", FALSE)
           \/ WaitWip("erase_done", "erase", TRUE)
           \/ WaitWip("write_wait", "write_cmd", FALSE)
           \/ WaitWip("write_done", "write", TRUE)
  <2>1. UNCHANGED flashVars
    BY <1>1 DEF FlashFromFile, CheckDualBoot, AllocReadBack, VerifyPage, PassEnd, Kill, WaitWip
  <2> QED
    BY <2>1 DEF flashVars
<1>2. CASE \/ Enable("erase", "erase_wait", "write")
           \/ Enable("write", "write_wait", "verify_alloc")
  <2>1. WriteEnable \/ UNCHANGED flashVars
    BY <1>2 DEF Enable
  <2> QED
    BY <2>1 DEF WriteEnable, flashVars
<1>3. CASE EraseSector
  <2>1. First + off \in Pages
    BY <1>3, PageInDevice DEF EraseSector, HostOK
  <2> QED
    BY <1>3, <2>1 DEF EraseSector, Start
<1>4. CASE WriteBytes
  <2>1. First + off \in Pages /\ Word(First + off) \in Values \cup {Blank}
    BY <1>4, PageInDevice DEF WriteBytes, HostOK
  <2> QED
    BY <1>4, <2>1 DEF WriteBytes, Start
<1>5. CASE Device
  <2>1. NoOp \in [op : {"none", "erase", "write"}, page : Pages, value : Values \cup {Blank}]
    BY DeviceFacts DEF NoOp
  <2>2. \A p \in Pages : Programmed(flash[p], wip.value) \in Values \cup {Blank, Junk}
    BY DEF Programmed
  <2> QED
    BY <1>5, <2>1, <2>2 DEF Device, Complete
<1>6. CASE PowerOff
  <2>1. NoOp \in [op : {"none", "erase", "write"}, page : Pages, value : Values \cup {Blank}]
    BY DeviceFacts DEF NoOp
  <2> QED
    BY <1>6, <2>1 DEF PowerOff, PowerLoss
<1> QED
  BY <1>1, <1>2, <1>3, <1>4, <1>5, <1>6 DEF Step

\* The host keeps to its image, and to the sector or page it works on.
LEMMA HostStepOK ==
  ASSUME HostOK, Step
  PROVE  HostOK'
<1> SectorPages \in Nat \ {0} /\ NumPages \in Nat /\ MaxRetry \in Nat
  BY DeviceFacts, FirmwareFits
<1> SectorStart(0)
  BY DEF SectorStart
<1> USE DEF HostOK, Labels, Goto
<1>2. CASE \E f \in Files : FlashFromFile(f)
  <2> PICK f \in Files : FlashFromFile(f)
    BY <1>2
  <2>1. CASE Parse(f).eof
    <3>1. Parse(f) \in Images
      BY <2>1 DEF Images
    <3>2. /\ image' \in Images /\ off' = 0 /\ retry' = 0 /\ rdback' = TRUE /\ late' = FALSE
          /\ result' = "SUCCESS" /\ pc' = IF image'.base = 0 THEN "erase" ELSE "check"
      BY <2>1, <3>1 DEF FlashFromFile, BeginWrite
    <3>3. rdback' \in BOOLEAN /\ late' \in BOOLEAN
      BY <3>2
    <3> QED
      BY <3>2, <3>3
  <2>2. CASE ~Parse(f).eof
    BY <2>2 DEF FlashFromFile
  <2> QED
    BY <2>1, <2>2
<1>3. CASE CheckDualBoot
  BY <1>3 DEF CheckDualBoot
<1>4. CASE \/ Enable("erase", "erase_wait", "write")
           \/ Enable("write", "write_wait", "verify_alloc")
  <2>1. UNCHANGED <<image, retry, result, rdback, late>>
    BY <1>4 DEF Enable
  <2>2. CASE MoreToDo
    <3>1. /\ MoreToDo' /\ off' = off
          /\ \/ pc = "erase" /\ pc' = "erase_wait"
             \/ pc = "write" /\ pc' = "write_wait"
      BY <1>4, <2>1, <2>2 DEF Enable, MoreToDo, First, Size
    <3> QED
      BY <2>1, <3>1
  <2>3. CASE ~MoreToDo
    <3>1. /\ off' = 0
          /\ \/ pc = "erase" /\ pc' = "write"
             \/ pc = "write" /\ pc' = "verify_alloc"
      BY <1>4, <2>3 DEF Enable
    <3> QED
      BY <2>1, <3>1
  <2> QED
    BY <2>2, <2>3
<1>5. CASE EraseSector
  <2>1. off + SectorPages \in 0 .. NumPages + SectorPages
    BY <1>5, ImageFacts DEF EraseSector, HostOK, MoreToDo
  <2>2. SectorStart(off + SectorPages)
    <3>1. off \in Nat /\ SectorPages \in Nat \ {0}
      BY ImageFacts, FlashGeometry DEF HostOK, NumPages
    <3>2. SectorStart(off)
      BY <1>5 DEF EraseSector, HostOK
    <3> QED
      BY <3>1, <3>2, MultipleStep DEF SectorStart
  <2> QED
    BY <1>5, <2>1, <2>2 DEF EraseSector
<1>6. CASE WriteBytes
  <2>1. off + 1 \in 0 .. NumPages
    BY <1>6, ImageFacts DEF WriteBytes, HostOK, MoreToDo
  <2> QED
    BY <1>6, <2>1 DEF WriteBytes
<1>7. CASE \/ WaitWip("erase_wait", "erase_cmd", FALSE)
           \/ WaitWip("erase_done", "erase", TRUE)
           \/ WaitWip("write_wait", "write_cmd", FALSE)
           \/ WaitWip("write_done", "write", TRUE)
  <2>1. MoreToDo' = MoreToDo
    BY <1>7 DEF WaitWip, MoreToDo, First, Size
  <2> QED
    BY <1>7, <2>1 DEF WaitWip
<1>8. CASE AllocReadBack
  BY <1>8 DEF AllocReadBack
<1>9. CASE VerifyPage
  <2>1. MoreToDo => off + 1 \in 0 .. NumPages
    BY <1>9, ImageFacts DEF VerifyPage, HostOK, MoreToDo
  <2> QED
    BY <1>9, <2>1 DEF VerifyPage
<1>10. CASE PassEnd
  BY <1>10 DEF PassEnd
<1>11. CASE Device
  <2>1. MoreToDo' = MoreToDo
    BY <1>11 DEF Device, hostVars, MoreToDo, First, Size
  <2> QED
    BY <1>11, <2>1 DEF Device, hostVars
<1>12. CASE Kill \/ PowerOff
  BY <1>12 DEF Kill, PowerOff, Restart
<1> QED
  BY <1>2, <1>3, <1>4, <1>5, <1>6, <1>7, <1>8, <1>9, <1>10, <1>11, <1>12 DEF Step

\* What a step can do to the device: pages change only under the operation in
\* progress, and only the two commands of the host start one.
LEMMA DeviceMoves ==
  ASSUME FlashTypeOK, Step
  PROVE  /\ \A p \in Pages : flash'[p] = flash[p] \/ (Busy /\ p \in Touched)
         /\ flash' = flash \/ ~Busy'
         /\ Busy' => \/ wip' = wip
                     \/ EraseSector /\ wip' = [op |-> "erase", page |-> First + off, value |-> Blank]
                     \/ WriteBytes /\ wip' = [op |-> "write", page |-> First + off,
                                              value |-> Word(First + off)]
<1>1. CASE Device \/ PowerOff
  <2>1. ~Busy'
    BY <1>1 DEF Device, Complete, PowerOff, PowerLoss, Busy
  <2>2. ASSUME NEW p \in Pages, ~(Busy /\ p \in Touched)
        PROVE  flash'[p] = flash[p]
    <3>1. CASE Device
      BY <2>2, <3>1 DEF Device, Complete
    <3>2. CASE PowerOff
      BY <2>2, <3>2 DEF PowerOff, PowerLoss
    <3> QED
      BY <1>1, <3>1, <3>2
  <2> QED
    BY <2>1, <2>2
<1>2. CASE EraseSector
  BY <1>2 DEF EraseSector, Start
<1>3. CASE WriteBytes
  BY <1>3 DEF WriteBytes, Start
<1>4. CASE \/ \E f \in Files : FlashFromFile(f)
           \/ CheckDualBoot \/ AllocReadBack \/ VerifyPage \/ PassEnd \/ Kill
           \/ WaitWip("erase_wait", "erase_cmd", FALSE)
           \/ WaitWip("erase_done", "erase", TRUE)
           \/ WaitWip("write_wait", "write_cmd", FALSE)
           \/ WaitWip("write_done", "write", TRUE)
           \/ Enable("erase", "erase_wait", "write")
           \/ Enable("write", "write_wait", "verify_alloc")
  <2>1. UNCHANGED <<flash, wip>>
    BY <1>4 DEF FlashFromFile, CheckDualBoot, AllocReadBack, VerifyPage, PassEnd, Kill,
                WaitWip, Enable, WriteEnable, flashVars
  <2> QED
    BY <2>1
<1> QED
  BY <1>1, <1>2, <1>3, <1>4 DEF Step

\* An operation the host starts touches nothing below its image.
LEMMA TouchedMoves ==
  ASSUME FlashTypeOK, HostOK, Step, NEW p \in Pages, Busy', p \in Touched'
  PROVE  (Busy /\ p \in Touched) \/ (Working /\ p >= First)
<1>1. CASE wip' = wip
  BY <1>1 DEF Busy, Touched
<1>2. CASE EraseSector /\ wip' = [op |-> "erase", page |-> First + off, value |-> Blank]
  <2>1. pc = "erase_cmd" /\ image \in Images /\ off \in Nat /\ MoreToDo
    BY <1>2, DeviceFacts DEF EraseSector, HostOK
  <2>2. First + off \in Pages /\ p \in SectorOf(First + off)
    BY <1>2, <2>1, PageInDevice DEF Touched
  <2>3. image.base \in Nat /\ First = image.base * SectorPages /\ First \in Nat
    BY <2>1, ImageFacts
  <2>4. image.base * SectorPages <= p
    BY <2>1, <2>2, <2>3, SectorAbove
  <2> QED
    BY <2>1, <2>3, <2>4, DeviceFacts DEF Working
<1>3. CASE WriteBytes /\ wip' = [op |-> "write", page |-> First + off,
                                value |-> Word(First + off)]
  <2>1. pc = "write_cmd" /\ image \in Images /\ off \in Nat
    BY <1>3, DeviceFacts DEF WriteBytes, HostOK
  <2>2. p = First + off /\ First \in Nat
    BY <1>3, <2>1, ImageFacts DEF Touched
  <2> QED
    BY <2>1, <2>2 DEF Working
<1> QED
  BY <1>1, <1>2, <1>3, DeviceMoves

\* How the host comes to erase, write or verify: it already did, it begins with a
\* golden image, or the header of the golden image names the address.
LEMMA WorkingMoves ==
  ASSUME HostOK, Step, Working'
  PROVE  \/ Working /\ image' = image
         \/ pc = "idle" /\ pc' = "erase" /\ image'.base = 0
         \/ /\ pc = "check" /\ image' = image /\ UNCHANGED flashVars /\ ~Busy
            /\ flash[0] \in Values /\ Wbstar[flash[0]] = image.base
<1> USE DEF Working, Goto
<1>1. CASE \E f \in Files : FlashFromFile(f)
  BY <1>1 DEF FlashFromFile
<1>2. CASE CheckDualBoot
  <2>1. PICK v \in ReadValues(0) :
          LET star == IF v \in Values THEN Wbstar[v] ELSE 0
              ok   == star # 0 /\ star = image.base
          IN pc' = (IF ok THEN "erase" ELSE "idle")
    BY <1>2 DEF CheckDualBoot
  <2>2. v \in Values /\ Wbstar[v] = image.base
    BY <2>1
  <2>3. ~Busy /\ v = flash[0]
    <3>1. Blank \notin Values /\ Junk \notin Values
      BY FlashGeometry DEF Blank, Junk
    <3> QED
      BY <2>2, <3>1 DEF ReadValues
  <2> QED
    BY <1>2, <2>2, <2>3 DEF CheckDualBoot
<1>3. CASE Kill \/ PowerOff
  BY <1>3 DEF Kill, PowerOff, Restart
<1>4. CASE Device
  BY <1>4 DEF Device, hostVars
<1>5. CASE \/ AllocReadBack \/ VerifyPage \/ PassEnd \/ EraseSector \/ WriteBytes
           \/ WaitWip("erase_wait", "erase_cmd", FALSE)
           \/ WaitWip("erase_done", "erase", TRUE)
           \/ WaitWip("write_wait", "write_cmd", FALSE)
           \/ WaitWip("write_done", "write", TRUE)
           \/ Enable("erase", "erase_wait", "write")
           \/ Enable("write", "write_wait", "verify_alloc")
  BY <1>5 DEF AllocReadBack, VerifyPage, PassEnd, EraseSector, WriteBytes, WaitWip, Enable
<1> QED
  BY <1>1, <1>2, <1>3, <1>4, <1>5 DEF Step

\* The image the host works on lies above the golden image in the flash.
LEMMA GoldenBelow ==
  ASSUME HostOK, Protected, Working
  PROVE  Len(golden) \in Nat /\ Len(golden) <= First
<1>1. image \in Images
  BY DEF HostOK, Working
<1>2. Len(golden) \in Nat /\ First \in Nat
  BY <1>1, ImageFacts DEF Protected, Contents
<1>3. CASE golden = << >>
  BY <1>2, <1>3
<1>4. CASE golden # << >>
  <2>1. image.base # 0 /\ Bootable(golden) /\ GoldenKept /\ UpdateReachable
    BY <1>4 DEF Protected
  <2>2. flash[0] = golden[1]
    BY <2>1 DEF GoldenKept, Bootable, Contents
  <2>3. Wbstar[golden[1]] = image.base
    BY <2>1, <2>2 DEF UpdateReachable, Working
  <2>4. Len(golden) <= image.base * SectorPages
    BY <2>1, <2>3 DEF Bootable, RoomForUpdate
  <2> QED
    BY <1>1, <1>2, <2>4, ImageFacts
<1> QED
  BY <1>3, <1>4

\* An update goes where the golden header says, and stays there.
LEMMA UpdateReachableStep ==
  ASSUME FlashTypeOK, HostOK, Protected, Step
  PROVE  UpdateReachable' /\ (Working' /\ image'.base # 0 => Above(First)')
<1> SUFFICES ASSUME Working', image'.base # 0
             PROVE  flash'[0] \in Values /\ Wbstar[flash'[0]] = image'.base /\ Above(First)'
  BY DEF UpdateReachable, Working
<1>1. CASE Working /\ image' = image
  <2>1. flash[0] \in Values /\ Wbstar[flash[0]] = image.base /\ Above(First)
    BY <1>1 DEF Protected, UpdateReachable, Working
  <2>2. First > 0 /\ First' = First /\ First \in Nat
    BY <1>1, ImageFacts DEF HostOK, Working, First
  <2>3. flash'[0] = flash[0]
    BY <2>1, <2>2, DeviceMoves, DeviceFacts DEF Above
  <2>4. Above(First)'
    <3> SUFFICES ASSUME NEW p \in Pages, Busy', p \in Touched' PROVE p >= First
      BY <2>2 DEF Above
    <3> QED
      BY <2>1, TouchedMoves DEF Above
  <2> QED
    BY <1>1, <2>1, <2>3, <2>4
<1>2. CASE /\ pc = "check" /\ image' = image /\ UNCHANGED flashVars /\ ~Busy
           /\ flash[0] \in Values /\ Wbstar[flash[0]] = image.base
  BY <1>2 DEF flashVars, Above, Busy
<1> QED
  BY <1>1, <1>2, WorkingMoves

\* The golden image stays whole and an update goes where the header says.
LEMMA ProtectedStep ==
  ASSUME FlashTypeOK, HostOK, Protected, ReadBack, Step, GoldenStep
  PROVE  Protected'
<1>1. CASE golden' = << >>
  <2>1. /\ golden' \in Contents
        /\ ~(golden' # << >>)
    BY <1>1 DEF Contents
  <2>2. UpdateReachable' /\ (Working' /\ image'.base # 0 => Above(First)')
    BY UpdateReachableStep
  <2> QED
    BY <1>1, <2>1, <2>2 DEF Protected
<1>2. CASE golden' # << >> /\ golden' = golden
  <2>1. Bootable(golden) /\ GoldenKept /\ Above(Len(golden)) /\ golden \in Contents
    BY <1>2 DEF Protected
  <2>2. \A i \in DOMAIN golden : i - 1 \in Pages /\ i - 1 < Len(golden)
    BY <2>1, DeviceFacts DEF Bootable, Contents, Pages
  <2>3. GoldenKept'
    <3> SUFFICES ASSUME NEW i \in DOMAIN golden PROVE flash'[i - 1] = golden[i]
      BY <1>2 DEF GoldenKept
    <3>1. i - 1 \in Pages /\ ~(Busy /\ i - 1 \in Touched)
      BY <2>1, <2>2 DEF Above, Pages, Bootable
    <3> QED
      BY <2>1, <3>1, DeviceMoves DEF GoldenKept
  <2>4. Above(Len(golden))'
    <3> SUFFICES ASSUME NEW p \in Pages, Busy', p \in Touched' PROVE p >= Len(golden)
      BY <1>2 DEF Above
    <3>1. CASE Busy /\ p \in Touched
      BY <2>1, <3>1 DEF Above
    <3>2. CASE Working /\ p >= First
      <4>1. image \in Images
        BY <3>2 DEF HostOK, Working
      <4> QED
        BY <3>2, <4>1, GoldenBelow, ImageFacts, DeviceFacts
    <3> QED
      BY <3>1, <3>2, TouchedMoves
  <2>5. Working' /\ image'.base = 0 => golden' = << >>
    BY <1>2, WorkingMoves DEF Protected, GoldenStep, Replaces, HostOK
  <2>6. UpdateReachable' /\ (Working' /\ image'.base # 0 => Above(First)')
    BY UpdateReachableStep
  <2> QED
    BY <1>2, <2>1, <2>3, <2>4, <2>5, <2>6 DEF Protected
<1>3. CASE /\ pc = "pass_end" /\ pc' = "idle" /\ image.base = 0
           /\ result = "SUCCESS" /\ rdback /\ golden' = image.data
  <2>1. image \in Images /\ Stored /\ ~Busy /\ First = 0
    BY <1>3, ImageFacts DEF ReadBack, HostOK
  <2>2. Bootable(golden') /\ golden' \in Contents
    BY <1>3, <2>1, ImageFacts
  <2>3. ~Busy'
    BY <1>3, <2>1, DeviceMoves DEF Busy, EraseSector, WriteBytes
  <2>4. GoldenKept'
    <3> SUFFICES ASSUME NEW i \in DOMAIN golden' PROVE flash'[i - 1] = golden'[i]
      BY DEF GoldenKept
    <3>1. i - 1 \in Pages /\ i \in 1 .. Size /\ i - 1 >= 0
      BY <1>3, <2>2, DeviceFacts DEF Bootable, Contents, Pages, Size
    <3>2. flash'[i - 1] = flash[i - 1]
      BY <2>1, <3>1, DeviceMoves
    <3>3. flash[i - 1] = Word(i - 1)
      BY <2>1, <3>1, ImageFacts DEF Stored, StoredTo
    <3>4. Word(i - 1) = golden'[i]
      BY <1>3, <3>1, ImageFacts, <2>1 DEF Word
    <3> QED
      BY <3>2, <3>3, <3>4
  <2>5. Above(Len(golden))'
    BY <2>3 DEF Above
  <2> QED
    BY <1>3, <2>2, <2>4, <2>5 DEF Protected, Working, UpdateReachable
<1> QED
  BY <1>1, <1>2, <1>3 DEF GoldenStep

\* Only the end of a pass, or of a check, a kill or a thrown file leads to idle.
LEMMA IdleMoves ==
  ASSUME HostOK, Step, pc' = "idle", result' = "SUCCESS"
  PROVE  \/ PassEnd /\ pc = "pass_end"
         \/ Device /\ pc = "idle"
<1> USE DEF Goto
<1>1. CASE \E f \in Files : FlashFromFile(f)
  BY <1>1 DEF FlashFromFile
<1>2. CASE CheckDualBoot
  <2>1. result' = "NO_DUALBOOT" \/ pc' = "erase"
    BY <1>2 DEF CheckDualBoot
  <2> QED
    BY <2>1
<1>3. CASE Kill \/ PowerOff
  BY <1>3 DEF Kill, PowerOff, Restart
<1>4. CASE \/ AllocReadBack \/ VerifyPage \/ EraseSector \/ WriteBytes
           \/ WaitWip("erase_wait", "erase_cmd", FALSE)
           \/ WaitWip("erase_done", "erase", TRUE)
           \/ WaitWip("write_wait", "write_cmd", FALSE)
           \/ WaitWip("write_done", "write", TRUE)
           \/ Enable("erase", "erase_wait", "write")
           \/ Enable("write", "write_wait", "verify_alloc")
  BY <1>4 DEF AllocReadBack, VerifyPage, EraseSector, WriteBytes, WaitWip, Enable
<1>5. CASE PassEnd \/ Device
  BY <1>5 DEF PassEnd, Device, hostVars
<1> QED
  BY <1>1, <1>2, <1>3, <1>4, <1>5 DEF Step

\* The host comes to its read-back and to the end of a pass in one way only.
LEMMA VerifyMoves ==
  ASSUME HostOK, Step, pc' \in {"verify", "pass_end"}
  PROVE  \/ AllocReadBack \/ VerifyPage
         \/ Device /\ pc' = pc
<1> USE DEF Goto
<1>1. CASE \/ \E f \in Files : FlashFromFile(f)
           \/ CheckDualBoot \/ Kill \/ PowerOff
  BY <1>1 DEF FlashFromFile, CheckDualBoot, Kill, PowerOff, Restart
<1>2. CASE \/ PassEnd \/ EraseSector \/ WriteBytes
           \/ WaitWip("erase_wait", "erase_cmd", FALSE)
           \/ WaitWip("erase_done", "erase", TRUE)
           \/ WaitWip("write_wait", "write_cmd", FALSE)
           \/ WaitWip("write_done", "write", TRUE)
           \/ Enable("erase", "erase_wait", "write")
           \/ Enable("write", "write_wait", "verify_alloc")
  BY <1>2 DEF PassEnd, EraseSector, WriteBytes, WaitWip, Enable
<1>3. CASE AllocReadBack \/ VerifyPage \/ Device
  BY <1>3 DEF Device, hostVars
<1> QED
  BY <1>1, <1>2, <1>3 DEF Step

\* One page read back: when it matches, the flash holds it and the device was idle,
\* as the first page of an image is no blank one.
LEMMA PageRead ==
  ASSUME FlashTypeOK, HostOK, ReadBack, VerifyPage, MoreToDo, result' = "SUCCESS"
  PROVE  ~Busy /\ StoredTo(off + 1) /\ result = "SUCCESS"
<1>1. image \in Images /\ off \in Nat /\ First \in Nat /\ First + off \in Pages
  BY ImageFacts, DeviceFacts, PageInDevice DEF HostOK, VerifyPage
<1>2. PICK v \in ReadValues(First + off) :
             result' = IF v # Word(First + off) THEN "BADRDBACK" ELSE result
  BY DEF VerifyPage
<1>3. v = Word(First + off) /\ result = "SUCCESS"
  BY <1>2
<1>4. StoredTo(off) /\ (off > 0 => ~Busy)
  BY <1>3 DEF ReadBack, VerifyPage
<1>5. ~Busy
  <2>1. CASE off = 0
    <3>1. Word(First) \in Values /\ First + off = First
      BY <1>1, <2>1, ImageFacts
    <3>2. Blank \notin Values /\ Junk \notin Values
      BY FlashGeometry DEF Blank, Junk
    <3> QED
      BY <1>3, <3>1, <3>2 DEF ReadValues
  <2> QED
    BY <1>1, <1>4, <2>1
<1>6. flash[First + off] = Word(First + off)
  BY <1>3, <1>5 DEF ReadValues
<1>7. StoredTo(off + 1)
  <2> SUFFICES ASSUME NEW p \in Pages, First <= p, p < First + (off + 1), p < Size
               PROVE  flash[p] = Word(p)
    BY DEF StoredTo
  <2>1. CASE p = First + off
    BY <1>6, <2>1
  <2>2. CASE p # First + off
    <3>1. p < First + off
      BY <1>1, <2>2, DeviceFacts
    <3> QED
      BY <1>4, <3>1 DEF StoredTo
  <2> QED
    BY <2>1, <2>2
<1> QED
  BY <1>3, <1>5, <1>7

\* What has been read back stays read back.
LEMMA ReadBackStep ==
  ASSUME FlashTypeOK, HostOK, ReadBack, Step
  PROVE  ReadBack'
<1>1. ASSUME pc' = "verify", result' = "SUCCESS"
      PROVE  StoredTo(off)' /\ (off' > 0 => ~Busy')
  <2>1. CASE AllocReadBack
    <3>1. off' = 0 /\ image' = image /\ image \in Images
      BY <2>1 DEF AllocReadBack, HostOK
    <3>2. First' = First /\ First \in Nat
      BY <3>1, ImageFacts DEF First
    <3> QED
      BY <3>1, <3>2, DeviceFacts DEF StoredTo
  <2>2. CASE VerifyPage
    <3>1. MoreToDo /\ off' = off + 1 /\ image' = image /\ UNCHANGED flashVars
      BY <1>1, <2>2 DEF VerifyPage, Goto
    <3>2. ~Busy /\ StoredTo(off + 1)
      BY <1>1, <2>2, <3>1, PageRead
    <3> QED
      BY <3>1, <3>2 DEF flashVars, Busy, StoredTo, First, Size, Word
  <2>3. CASE Device /\ pc' = pc
    <3>1. off' = off /\ image' = image /\ result' = result /\ Busy /\ pc = "verify"
      BY <1>1, <2>3 DEF Device, hostVars, Complete
    <3>2. off = 0 /\ image \in Images
      BY <1>1, <3>1, DeviceFacts DEF ReadBack, HostOK
    <3>3. First' = First /\ First \in Nat
      BY <3>1, <3>2, ImageFacts DEF First
    <3> QED
      BY <3>1, <3>2, <3>3, DeviceFacts DEF StoredTo
  <2> QED
    BY <1>1, <2>1, <2>2, <2>3, VerifyMoves
<1>2. ASSUME pc' = "pass_end", result' = "SUCCESS", rdback'
      PROVE  Stored' /\ ~Busy'
  <2>1. CASE AllocReadBack
    BY <1>2, <2>1 DEF AllocReadBack, Goto
  <2>2. CASE VerifyPage
    <3>1. ~MoreToDo /\ UNCHANGED <<off, result>> /\ image' = image /\ UNCHANGED flashVars
          /\ pc = "verify"
      BY <1>2, <2>2 DEF VerifyPage, Goto
    <3>2. image \in Images /\ off \in Nat /\ First \in Nat /\ Size \in Nat /\ First < Size
      BY <3>1, ImageFacts, DeviceFacts DEF HostOK
    <3>3. First + off >= Size /\ off > 0
      BY <3>1, <3>2 DEF MoreToDo
    <3>4. StoredTo(off) /\ ~Busy
      BY <1>2, <3>1, <3>3 DEF ReadBack
    <3>5. Stored
      BY <3>2, <3>3, <3>4, DeviceFacts DEF Stored, StoredTo
    <3> QED
      BY <3>1, <3>4, <3>5 DEF flashVars, Busy, Stored, StoredTo, First, Size, Word
  <2>3. CASE Device /\ pc' = pc
    BY <1>2, <2>3 DEF Device, hostVars, Complete, ReadBack
  <2> QED
    BY <1>2, <2>1, <2>2, <2>3, VerifyMoves
<1>3. ASSUME pc' = "idle", result' = "SUCCESS", rdback'
      PROVE  Stored' /\ ~Busy'
  <2>1. CASE PassEnd /\ pc = "pass_end"
    <3>1. UNCHANGED <<image, result, rdback>> /\ UNCHANGED flashVars
      BY <2>1 DEF PassEnd
    <3>2. Stored /\ ~Busy
      BY <1>3, <2>1, <3>1 DEF ReadBack
    <3> QED
      BY <3>1, <3>2 DEF flashVars, Busy, Stored, StoredTo, First, Size, Word
  <2>2. CASE Device /\ pc = "idle"
    BY <1>3, <2>2 DEF Device, hostVars, Complete, ReadBack
  <2> QED
    BY <1>3, <2>1, <2>2, IdleMoves
<1> QED
  BY <1>1, <1>2, <1>3 DEF ReadBack

\* A wait that ends in time leaves the device idle; what the host does next starts
\* from there.
LEMMA QuietStep ==
  ASSUME FlashTypeOK, HostOK, Quiet, Step
  PROVE  Quiet'
<1> SUFFICES ASSUME ~late', Working', pc' \notin {"erase_done", "write_done"},
                    retry' > 0 \/ off' > 0 \/ pc' \notin {"erase", "erase_wait"}
             PROVE  ~Busy'
  BY DEF Quiet
<1> USE DEF Goto
<1>1. CASE \E f \in Files : FlashFromFile(f)
  BY <1>1 DEF FlashFromFile, BeginWrite, Working
<1>2. CASE CheckDualBoot
  <2>1. pc = "check" /\ pc' = "erase"
    BY <1>2 DEF CheckDualBoot, Working
  <2> QED
    BY <1>2, <2>1, WorkingMoves DEF flashVars, Busy, Working
<1>3. CASE Kill \/ PowerOff
  BY <1>3 DEF Kill, PowerOff, Restart, Working
<1>4. CASE Device
  BY <1>4 DEF Device, Complete, Busy
<1>5. CASE EraseSector \/ WriteBytes
  BY <1>5 DEF EraseSector, WriteBytes
<1>6. CASE \/ WaitWip("erase_wait", "erase_cmd", FALSE)
           \/ WaitWip("erase_done", "erase", TRUE)
           \/ WaitWip("write_wait", "write_cmd", FALSE)
           \/ WaitWip("write_done", "write", TRUE)
  BY <1>6 DEF WaitWip, flashVars, Busy
<1>7. CASE \/ Enable("erase", "erase_wait", "write")
           \/ Enable("write", "write_wait", "verify_alloc")
  <2>1. wip' = wip /\ late' = late /\ retry' = retry /\ pc \in {"erase", "write"}
    BY <1>7 DEF Enable, WriteEnable, flashVars
  <2>2. CASE MoreToDo
    <3>1. off' = off /\ (pc = "erase" => pc' = "erase_wait")
      BY <1>7, <2>2 DEF Enable
    <3> QED
      BY <2>1, <3>1 DEF Quiet, Busy, Working
  <2>3. CASE ~MoreToDo
    <3>1. off > 0
      BY <2>1, <2>3, ImageFacts, DeviceFacts DEF HostOK, MoreToDo
    <3> QED
      BY <2>1, <3>1 DEF Quiet, Busy, Working
  <2> QED
    BY <2>2, <2>3
<1>8. CASE AllocReadBack \/ VerifyPage \/ PassEnd
  <2>1. UNCHANGED flashVars /\ late' = late /\ pc \in {"verify_alloc", "verify", "pass_end"}
    BY <1>8 DEF AllocReadBack, VerifyPage, PassEnd
  <2> QED
    BY <2>1 DEF Quiet, Working, flashVars, Busy
<1> QED
  BY <1>1, <1>2, <1>3, <1>4, <1>5, <1>6, <1>7, <1>8 DEF Step

\* An erase that completes has blanked the sector the host is past.
LEMMA SectorErased ==
  ASSUME FlashTypeOK, HostOK, Device, pc = "erase_done", BlankTo(off - SectorPages),
         wip = [op |-> "erase", page |-> First + off - SectorPages, value |-> Blank]
  PROVE  BlankTo(off)'
<1> DEFINE start == First + off - SectorPages
<1>1. /\ First \in Nat /\ off \in Nat /\ off > 0 /\ SectorStart(First) /\ SectorStart(off)
      /\ off' = off /\ First' = First
  BY ImageFacts, DeviceFacts DEF HostOK, Device, hostVars, First
<1>2. start \in Pages /\ SectorStart(start)
  <2>1. start \in Pages
    BY DEF FlashTypeOK
  <2>2. SectorStart(start)
    BY <1>1, MultipleSum, DeviceFacts DEF SectorStart
  <2> QED
    BY <2>1, <2>2
<1> SUFFICES ASSUME NEW p \in Pages, First <= p, p < First + off
             PROVE  flash'[p] = Blank
  BY <1>1 DEF BlankTo
<1>3. Touched = SectorOf(start)
  BY DEF Touched
<1> HIDE DEF start
<1>6. p \in Touched <=> start <= p /\ p < start + SectorPages
  BY <1>2, <1>3, SectorPagesOf
<1>4. CASE p < start
  <2>1. p \notin Touched
    BY <1>2, <1>4, <1>6, DeviceFacts
  <2>2. flash[p] = Blank
    BY <1>1, <1>4, DeviceFacts DEF BlankTo, start
  <2> QED
    BY <2>1, <2>2 DEF Device, Complete
<1>5. CASE p >= start
  <2>1. p \in Touched
    BY <1>1, <1>2, <1>5, <1>6, DeviceFacts DEF start
  <2> QED
    BY <2>1 DEF Device, Complete
<1> QED
  BY <1>1, <1>2, <1>4, <1>5, DeviceFacts

\* A page program that completes over an erased page has stored its word.
LEMMA PageWritten ==
  ASSUME FlashTypeOK, HostOK, Device, pc = "write_done", StoredTo(off - 1), BlankFrom(off - 1),
         wip = [op |-> "write", page |-> First + off - 1, value |-> Word(First + off - 1)]
  PROVE  StoredTo(off)' /\ BlankFrom(off)'
<1> DEFINE at == First + off - 1
<1>1. /\ First \in Nat /\ off \in Nat /\ off > 0 /\ Size \in Nat
      /\ off' = off /\ image' = image
  BY ImageFacts, DeviceFacts DEF HostOK, Device, hostVars
<1>2. at \in Pages /\ Touched = {at}
  BY DEF FlashTypeOK, Touched
<1>3. \A p \in Pages : p # at => flash'[p] = flash[p]
  BY <1>2 DEF Device, Complete
<1>4. at < Size => flash'[at] = Word(at)
  <2> SUFFICES ASSUME at < Size PROVE flash'[at] = Word(at)
    OBVIOUS
  <2>1. flash[at] = Blank
    BY <1>1, <1>2 DEF BlankFrom
  <2>2. flash'[at] = Programmed(flash[at], Word(at))
    BY <1>2 DEF Device, Complete
  <2> QED
    BY <2>1, <2>2 DEF Programmed
<1>5. First' = First /\ Size' = Size /\ \A p : Word(p)' = Word(p)
  BY <1>1 DEF First, Size, Word
<1>6. StoredTo(off)'
  <2> SUFFICES ASSUME NEW p \in Pages, First <= p, p < First + off, p < Size
               PROVE  flash'[p] = Word(p)
    BY <1>1, <1>5 DEF StoredTo
  <2>1. CASE p = at
    BY <1>4, <2>1
  <2>2. CASE p # at
    <3>1. p < First + (off - 1)
      BY <1>1, <2>2, DeviceFacts
    <3> QED
      BY <1>3, <2>2, <3>1 DEF StoredTo
  <2> QED
    BY <2>1, <2>2
<1>7. BlankFrom(off)'
  <2> SUFFICES ASSUME NEW p \in Pages, First + off <= p, p < Size
               PROVE  flash'[p] = Blank
    BY <1>1, <1>5 DEF BlankFrom
  <2>1. p # at /\ First + (off - 1) <= p
    BY <1>1, DeviceFacts
  <2> QED
    BY <1>3, <2>1 DEF BlankFrom
<1> QED
  BY <1>6, <1>7

\* What is blank and what is stored of the image while the pages do not change.
LEMMA ContentsKept ==
  ASSUME image' = image, flash' = flash, NEW n
  PROVE  (StoredTo(n) => StoredTo(n)') /\ (BlankFrom(n) => BlankFrom(n)')
         /\ (BlankTo(n) => BlankTo(n)') /\ First' = First /\ Size' = Size
BY DEF StoredTo, BlankFrom, BlankTo, First, Size, Word

\* Where the image begins nothing of it is stored yet.
LEMMA NothingYet ==
  ASSUME image \in Images
  PROVE  StoredTo(0) /\ BlankTo(0)
BY ImageFacts, DeviceFacts DEF StoredTo, BlankTo

\* From the second pass on the device is in step with the host, if no wait times out.
LEMMA InStepStep ==
  ASSUME FlashTypeOK, HostOK, Quiet, InStep, Step
  PROVE  InStep'
<1> SUFFICES ASSUME ~late', retry' > 0, Working' PROVE InStep'
  BY DEF InStep, Working
<1> USE DEF Goto
<1>1. CASE \E f \in Files : FlashFromFile(f)
  <2>1. pc' = "idle" \/ retry' = 0
    BY <1>1 DEF FlashFromFile, BeginWrite
  <2> QED
    BY <2>1 DEF Working
<1>2. CASE CheckDualBoot
  <2>1. pc' = "erase" /\ off' = 0 /\ image' = image /\ image \in Images /\ flash' = flash
    BY <1>2 DEF CheckDualBoot, HostOK, Working, flashVars
  <2>2. BlankTo(off)'
    BY <2>1, NothingYet, ContentsKept DEF BlankTo
  <2> QED
    BY <2>1, <2>2 DEF InStep
<1>3. CASE Kill \/ PowerOff
  BY <1>3 DEF Kill, PowerOff, Restart, Working
<1>4. CASE Device
  <2>1. /\ Busy /\ ~Busy' /\ pc' = pc /\ late' = late /\ retry' = retry /\ off' = off
        /\ Working
    BY <1>4 DEF Device, Complete, hostVars, Busy, Working
  <2>2. CASE pc = "erase_done"
    <3>1. BlankTo(off)'
      BY <1>4, <2>1, <2>2, SectorErased DEF InStep
    <3> QED
      BY <2>1, <2>2, <3>1 DEF InStep
  <2>3. CASE pc = "write_done"
    <3>1. StoredTo(off)' /\ BlankFrom(off)'
      BY <1>4, <2>1, <2>3, PageWritten DEF InStep
    <3> QED
      BY <2>1, <2>3, <3>1 DEF InStep
  <2> QED
    BY <2>1, <2>2, <2>3 DEF Quiet, HostOK
<1>5. CASE EraseSector
  <2>1. /\ pc = "erase_cmd" /\ pc' = "erase_done" /\ ~late /\ retry > 0 /\ off \in Nat
        /\ off' = off + SectorPages /\ image' = image /\ flash' = flash /\ image \in Images
    BY <1>5, DeviceFacts DEF EraseSector, Start, HostOK
  <2>2. wel /\ ~Busy /\ BlankTo(off)
    BY <2>1 DEF InStep, Quiet, Working
  <2>3. First \in Nat /\ First' = First
    BY <2>1, ImageFacts, ContentsKept
  <2>4. wip' = [op |-> "erase", page |-> First + off, value |-> Blank]
    BY <1>5, <2>2 DEF EraseSector, Start
  <2>5. /\ (First + off - SectorPages)' = First + off
        /\ (off - SectorPages)' = off
    BY <2>1, <2>3, DeviceFacts
  <2>6. Busy' /\ BlankTo(off - SectorPages)'
    BY <2>1, <2>2, <2>4, <2>5, ContentsKept DEF Busy, NoOp, BlankTo
  <2> QED
    BY <2>1, <2>4, <2>5, <2>6 DEF InStep
<1>6. CASE WriteBytes
  <2>1. /\ pc = "write_cmd" /\ pc' = "write_done" /\ ~late /\ retry > 0 /\ off \in Nat
        /\ off' = off + 1 /\ image' = image /\ flash' = flash /\ image \in Images
    BY <1>6, DeviceFacts DEF WriteBytes, Start, HostOK
  <2>2. wel /\ ~Busy /\ StoredTo(off) /\ BlankFrom(off)
    BY <2>1 DEF InStep, Quiet, Working
  <2>3. First \in Nat /\ First' = First
    BY <2>1, ImageFacts, ContentsKept
  <2>4. wip' = [op |-> "write", page |-> First + off, value |-> Word(First + off)]
    BY <1>6, <2>2 DEF WriteBytes, Start
  <2>5. /\ (First + off - 1)' = First + off
        /\ (off - 1)' = off
    BY <2>1, <2>3
  <2>6. Busy' /\ StoredTo(off - 1)' /\ BlankFrom(off - 1)' /\ Word(First + off - 1)' = Word(First + off)
    BY <2>1, <2>2, <2>4, <2>5, ContentsKept DEF Busy, NoOp, StoredTo, BlankFrom, Word
  <2> QED
    BY <2>1, <2>4, <2>5, <2>6 DEF InStep
<1>7. CASE \/ WaitWip("erase_wait", "erase_cmd", FALSE)
           \/ WaitWip("write_wait", "write_cmd", FALSE)
  <2>1. /\ UNCHANGED <<flashVars, image, off, retry>> /\ ~late
        /\ \/ pc = "erase_wait" /\ pc' = "erase_cmd"
           \/ pc = "write_wait" /\ pc' = "write_cmd"
    BY <1>7 DEF WaitWip
  <2>2. wel' = wel /\ off' = off /\ flash' = flash /\ image' = image /\ retry' = retry
    BY <2>1 DEF flashVars
  <2>3. CASE pc = "erase_wait" /\ pc' = "erase_cmd"
    <3>1. wel /\ BlankTo(off)
      BY <2>1, <2>2, <2>3 DEF InStep
    <3>2. BlankTo(off)'
      BY <2>2, <3>1, ContentsKept DEF BlankTo
    <3> QED
      BY <2>2, <2>3, <3>1, <3>2 DEF InStep
  <2>4. CASE pc = "write_wait" /\ pc' = "write_cmd"
    <3>1. wel /\ StoredTo(off) /\ BlankFrom(off)
      BY <2>1, <2>2, <2>4 DEF InStep
    <3>2. StoredTo(off)' /\ BlankFrom(off)'
      BY <2>2, <3>1, ContentsKept DEF StoredTo, BlankFrom
    <3> QED
      BY <2>2, <2>4, <3>1, <3>2 DEF InStep
  <2> QED
    BY <2>1, <2>3, <2>4
<1>8. CASE \/ WaitWip("erase_done", "erase", TRUE)
           \/ WaitWip("write_done", "write", TRUE)
  <2>1. /\ ~late /\ ~Busy /\ off' = off /\ flash' = flash /\ image' = image /\ retry' = retry
        /\ \/ pc = "erase_done" /\ pc' = "erase"
           \/ pc = "write_done" /\ pc' = "write"
    BY <1>8 DEF WaitWip, flashVars
  <2>2. CASE pc = "erase_done" /\ pc' = "erase"
    <3>1. BlankTo(off)'
      BY <2>1, <2>2, ContentsKept DEF InStep, BlankTo
    <3> QED
      BY <2>2, <3>1 DEF InStep
  <2>3. CASE pc = "write_done" /\ pc' = "write"
    <3>1. StoredTo(off)' /\ BlankFrom(off)'
      BY <2>1, <2>3, ContentsKept DEF InStep, StoredTo, BlankFrom
    <3> QED
      BY <2>3, <3>1 DEF InStep
  <2> QED
    BY <2>1, <2>2, <2>3
<1>9. CASE Enable("erase", "erase_wait", "write")
  <2>1. /\ pc = "erase" /\ ~late /\ retry > 0 /\ image' = image /\ flash' = flash
        /\ image \in Images /\ off \in Nat
    BY <1>9, DeviceFacts DEF Enable, WriteEnable, flashVars, HostOK
  <2>2. ~Busy /\ BlankTo(off)
    BY <2>1 DEF Quiet, InStep, Working
  <2>3. CASE MoreToDo
    <3>1. pc' = "erase_wait" /\ off' = off /\ wel'
      BY <1>9, <2>2, <2>3 DEF Enable, WriteEnable
    <3>2. BlankTo(off)'
      BY <2>1, <2>2, <3>1, ContentsKept DEF BlankTo
    <3> QED
      BY <3>1, <3>2 DEF InStep
  <2>4. CASE ~MoreToDo
    <3>1. pc' = "write" /\ off' = 0
      BY <1>9, <2>4 DEF Enable
    <3>2. First \in Nat /\ Size \in Nat /\ First + off >= Size
      BY <2>1, <2>4, ImageFacts DEF MoreToDo
    <3>3. BlankFrom(0) /\ StoredTo(0)
      BY <2>1, <2>2, <3>2, NothingYet, DeviceFacts DEF BlankTo, BlankFrom
    <3>4. StoredTo(off)' /\ BlankFrom(off)'
      BY <2>1, <3>1, <3>3, ContentsKept DEF StoredTo, BlankFrom
    <3> QED
      BY <3>1, <3>4 DEF InStep
  <2> QED
    BY <2>3, <2>4
<1>10. CASE Enable("write", "write_wait", "verify_alloc")
  <2>1. /\ pc = "write" /\ ~late /\ retry > 0 /\ image' = image /\ flash' = flash
        /\ image \in Images /\ off \in Nat
    BY <1>10, DeviceFacts DEF Enable, WriteEnable, flashVars, HostOK
  <2>2. ~Busy /\ StoredTo(off) /\ BlankFrom(off)
    BY <2>1 DEF Quiet, InStep, Working
  <2>3. CASE MoreToDo
    <3>1. pc' = "write_wait" /\ off' = off /\ wel'
      BY <1>10, <2>2, <2>3 DEF Enable, WriteEnable
    <3>2. StoredTo(off)' /\ BlankFrom(off)'
      BY <2>1, <2>2, <3>1, ContentsKept DEF StoredTo, BlankFrom
    <3> QED
      BY <3>1, <3>2 DEF InStep
  <2>4. CASE ~MoreToDo
    <3>1. pc' = "verify_alloc"
      BY <1>10, <2>4 DEF Enable
    <3>2. First \in Nat /\ Size \in Nat /\ First + off >= Size
      BY <2>1, <2>4, ImageFacts DEF MoreToDo
    <3>3. Stored
      <4> SUFFICES ASSUME NEW p \in Pages, First <= p, p < Size PROVE flash[p] = Word(p)
        BY DEF Stored, StoredTo
      <4>1. p < First + off
        BY <2>1, <3>2, DeviceFacts
      <4> QED
        BY <2>2, <4>1 DEF StoredTo
    <3>4. Stored'
      BY <2>1, <3>3, ContentsKept DEF Stored, StoredTo, First, Size, Word
    <3> QED
      BY <3>1, <3>4 DEF InStep
  <2> QED
    BY <2>3, <2>4
<1>11. CASE AllocReadBack
  <2>1. /\ pc = "verify_alloc" /\ ~late /\ retry > 0 /\ image' = image /\ flash' = flash
    BY <1>11 DEF AllocReadBack, flashVars
  <2>2. Stored'
    BY <2>1 DEF InStep, Stored, StoredTo, First, Size, Word
  <2>3. \/ pc' = "verify" /\ result' = "SUCCESS"
        \/ pc' = "pass_end" /\ ~rdback'
    BY <1>11 DEF AllocReadBack
  <2> QED
    BY <2>2, <2>3 DEF InStep
<1>12. CASE VerifyPage
  <2>1. /\ pc = "verify" /\ ~late /\ retry > 0 /\ image' = image /\ flash' = flash
        /\ image \in Images /\ off \in Nat /\ retry' = retry /\ late' = late
    BY <1>12, DeviceFacts DEF VerifyPage, flashVars, HostOK
  <2>2. Stored /\ ~Busy /\ result = "SUCCESS"
    BY <2>1 DEF InStep, Quiet, Working
  <2>3. Stored'
    BY <2>1, <2>2 DEF Stored, StoredTo, First, Size, Word
  <2>4. CASE MoreToDo
    <3>1. First + off \in Pages /\ First \in Nat
      BY <2>1, <2>4, PageInDevice, ImageFacts
    <3>2. flash[First + off] = Word(First + off)
      BY <2>1, <2>2, <2>4, <3>1, ImageFacts DEF Stored, StoredTo, MoreToDo
    <3>3. result' = "SUCCESS" /\ pc' = pc
      BY <1>12, <2>2, <2>4, <3>2 DEF VerifyPage, ReadValues
    <3> QED
      BY <2>1, <2>3, <3>3 DEF InStep
  <2>5. CASE ~MoreToDo
    <3>1. result' = "SUCCESS" /\ pc' = "pass_end"
      BY <1>12, <2>2, <2>5 DEF VerifyPage
    <3> QED
      BY <3>1 DEF InStep
  <2> QED
    BY <2>4, <2>5
<1>13. CASE PassEnd
  <2>1. /\ pc = "pass_end" /\ off' = 0 /\ image' = image /\ flash' = flash /\ image \in Images
        /\ pc' = "erase"
    BY <1>13 DEF PassEnd, flashVars, HostOK, Working
  <2>2. BlankTo(off)'
    BY <2>1, NothingYet, ContentsKept DEF BlankTo
  <2> QED
    BY <2>1, <2>2 DEF InStep
<1> QED
  BY <1>1, <1>2, <1>3, <1>4, <1>5, <1>6, <1>7, <1>8, <1>9, <1>10, <1>11, <1>12, <1>13 DEF Step

\* Every step of the host, the device and their surroundings preserves the invariant.
LEMMA NextInv ==
  ASSUME IInv, [Next]_vars
  PROVE  IInv'
<1> USE DEF IInv
<1>1. CASE Next
  <2>1. Step /\ GoldenStep
    BY <1>1, NextSteps
  <2> QED
    BY <2>1, FlashTypeStep, HostStepOK, ProtectedStep, ReadBackStep, QuietStep, InStepStep
<1>2. CASE UNCHANGED vars
  <2> USE <1>2 DEF vars, flashVars, hostVars
  <2>1. FlashTypeOK' /\ HostOK'
    BY DEF FlashTypeOK, HostOK, MoreToDo, First, Size
  <2>2. First' = First /\ Size' = Size /\ Busy' = Busy /\ Touched' = Touched
    BY DEF First, Size, Busy, Touched
  <2>3. Protected'
    BY <2>2 DEF Protected, Working, Above, UpdateReachable, GoldenKept
  <2>4. ReadBack' /\ Quiet'
    BY <2>2 DEF ReadBack, Quiet, Stored, StoredTo, Word, Working
  <2>5. InStep'
    BY <2>2 DEF InStep, Stored, StoredTo, BlankFrom, BlankTo, Word
  <2> QED
    BY <2>1, <2>3, <2>4, <2>5
<1> QED
  BY <1>1, <1>2

--------------------------------------------------------------------------------
(* The theorems. *)

\* The invariant holds in every reachable state.
THEOREM Invariance == Spec => []IInv
<1>1. Init => IInv
  BY InitInv
<1>2. IInv /\ [Next]_vars => IInv'
  BY NextInv
<1> QED
  BY <1>1, <1>2, PTL DEF Spec

\* The camera can always boot: no erase, write, kill or power loss of an update
\* reaches the golden image below it.
THEOREM GoldenSafe == Spec => []GoldenKept
<1>1. IInv => GoldenKept
  BY DEF IInv, Protected, GoldenKept
<1> QED
  BY <1>1, Invariance, PTL

\* CheckDualBootCompatibility holds for as long as the update is being written: the
\* header it read still names the address.
THEOREM UpdatesReachable == Spec => []UpdateReachable
<1>1. IInv => UpdateReachable
  BY DEF IInv, Protected
<1> QED
  BY <1>1, Invariance, PTL

\* FPGA_SUCCESS after a read-back means that the image is in the flash, whatever the
\* device ignored or was doing when the reflash began.
THEOREM SuccessStored == Spec => []SuccessMeansStored
<1>1. IInv => SuccessMeansStored
  <2> SUFFICES ASSUME IInv, pc = "idle", result = "SUCCESS", rdback,
                      NEW p \in Pages, InImage(p)
               PROVE  flash[p] = Word(p)
    BY DEF SuccessMeansStored
  <2>1. Stored
    BY DEF IInv, ReadBack
  <2>2. First <= p /\ p < Size
    BY DEF InImage
  <2>3. p < First + Size
    <3>1. p \in Nat
      BY DeviceFacts
    <3>2. CASE image = NoImage
      BY <2>2, <3>1, <3>2 DEF NoImage, Size
    <3>3. CASE image \in Images
      BY <2>2, <3>1, <3>3, ImageFacts
    <3> QED
      BY <3>2, <3>3 DEF IInv, HostOK
  <2> QED
    BY <2>1, <2>2, <2>3 DEF Stored, StoredTo
<1> QED
  BY <1>1, Invariance, PTL

\* Four passes at most, and when no wait times out the second one is read back well
\* at the latest: a retry makes up for whatever the first pass met.
THEOREM SecondPassRecovers == Spec => []RetryRecovers
<1>1. IInv => TypeOK
  <2> SUFFICES ASSUME IInv PROVE image.base \in 0 .. NoBase /\ Size <= NumPages
    BY DEF IInv, HostOK, TypeOK
  <2>1. CASE image = NoImage
    BY <2>1, DeviceFacts, FlashGeometry DEF NoImage, NoBase, Size
  <2>2. CASE image \in Images
    <3>1. Fits(image)
      BY <2>2, FirmwareFits
    <3> QED
      BY <3>1, FlashGeometry DEF Fits, NoBase, Size
  <2> QED
    BY <2>1, <2>2 DEF IInv, HostOK
<1>2. IInv => RetryRecovers
  BY <1>1 DEF IInv, InStep, HostOK, RetryRecovers
<1> QED
  BY <1>2, Invariance, PTL
================================================================================
