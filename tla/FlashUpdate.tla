----------------------------- MODULE FlashUpdate ------------------------------
(***************************************************************************)
(* CFpgaEeprom (flashupdate.cpp) and its Intel hex decoder: reprogramming  *)
(* the FPGA's flash with a golden image (address 0) or an update image,    *)
(* with the four erase / write / verify passes, waits that time out, a     *)
(* killed program and a power loss at any point.  A page stands for its    *)
(* 256 bytes, an address is a page number.                                 *)
(***************************************************************************)
EXTENDS SpiFlash, Sequences, SequencesExt

CONSTANTS Files,    \* firmware files: sequences of hex records
          Wbstar,   \* Wbstar[v]: the warm boot sector a header page v names, 0 if none
          GoldenImage, \* what the flash holds from the factory, from page 0
          MaxRetry  \* passes after the first, 3 in the code

NoBase == Sectors  \* InvalidAddress: above every base address

LinearRec(s)  == [type |-> "linear", at |-> s, value |-> Blank]
DataRec(p, v) == [type |-> "data", at |-> p, value |-> v]
EofRec        == [type |-> "eof", at |-> 0, value |-> Blank]

ASSUME FilesValid ==
  \A f \in Files : /\ Len(f) > 1 /\ f[1].type = "linear"
                   /\ \A i \in DOMAIN f : f[i].type \in {"linear", "data", "eof"}

VARIABLES pc,      \* where the host program is
          image,   \* Decoder.Parse of the file, from address 0, and its base
          off,     \* lFlashOffset, in pages
          retry, result,
          rdback,  \* malloc of the read-back buffer succeeded in the last pass
          late,    \* a wait of this operation ended by its timeout (history)
          golden   \* the golden image known to be in the flash (history)
hostVars == <<pc, image, off, retry, result, rdback, late>>
vars     == <<flashVars, hostVars, golden>>

NoImage == [data |-> << >>, base |-> NoBase, last |-> NoBase, eof |-> FALSE]

(* One record: data lands at its absolute address, gaps are filled with FF.*)
ParseRecord(acc, rec) ==
  LET at == acc.last * SectorPages + rec.at
      gap == at + 1 - Len(acc.data)
      Filled  == [i \in 1 .. IF gap > 0 THEN at + 1 ELSE Len(acc.data) |->
                    IF i = at + 1 THEN rec.value
                    ELSE IF i \in DOMAIN acc.data THEN acc.data[i] ELSE Blank]
  IN IF acc.eof THEN acc
     ELSE CASE rec.type = "linear" -> [acc EXCEPT !.last = rec.at,
                                                  !.base = IF rec.at < @ THEN rec.at ELSE @]
            [] rec.type = "eof"    -> [acc EXCEPT !.eof = TRUE]
            [] rec.type = "data"   -> [acc EXCEPT !.data = Filled]
Parse(f) == FoldLeft(ParseRecord, NoImage, f)

(* What the build scripts make (firmwares.tcl of athena/backend/artix7):   *)
(* an image fits the device and starts with its header page, and a golden  *)
(* image ends below the address where its header expects the update.       *)
Contents == Seq(Values \cup {Blank})
RoomForUpdate(data) == Wbstar[data[1]] # 0 => Len(data) <= Wbstar[data[1]] * SectorPages
Bootable(data) == /\ data \in Contents /\ Len(data) \in 1 .. NumPages
                  /\ data[1] \in Values /\ RoomForUpdate(data)
Fits(m) == /\ m.data \in Contents /\ m.base \in 0 .. Sectors - 1
           /\ Len(m.data) <= NumPages
           /\ m.base * SectorPages < Len(m.data)
           /\ m.data[m.base * SectorPages + 1] \in Values
           /\ m.base = 0 => Bootable(m.data)
Images == {Parse(f) : f \in {g \in Files : Parse(g).eof}}

ASSUME FirmwareFits == /\ Wbstar \in [Values -> 0 .. Sectors - 1] /\ MaxRetry \in Nat
                       /\ Bootable(GoldenImage) /\ \A m \in Images : Fits(m)

First      == image.base * SectorPages
Size       == Len(image.data)
Word(p)    == image.data[p + 1]
InImage(p) == p >= First /\ p < Size
MoreToDo   == First + off < Size

Init == /\ flash = [p \in Pages |-> IF p < Len(GoldenImage) THEN GoldenImage[p + 1] ELSE Blank]
        /\ wel = FALSE /\ wip = NoOp
        /\ pc = "idle" /\ image = NoImage /\ off = 0 /\ retry = 0
        /\ result = "NONE" /\ rdback = TRUE /\ late = FALSE
        /\ golden = GoldenImage

Goto(label) == pc' = label

BeginWrite == /\ off' = 0 /\ retry' = 0 /\ rdback' = TRUE /\ late' = FALSE

(* FPGAROMApiFlashFromFile.  A file without an end record makes Parse      *)
(* throw: the program ends before it touches the device.                   *)
FlashFromFile(f) ==
  /\ pc = "idle"
  /\ IF Parse(f).eof
     THEN /\ image' = Parse(f) /\ result' = "SUCCESS" /\ BeginWrite
          /\ Goto(IF image'.base = 0 THEN "erase" ELSE "check")
     ELSE result' = "THROWN" /\ UNCHANGED <<pc, image, off, retry, rdback, late>>
  /\ UNCHANGED flashVars

CheckDualBootAny ==  \* mutant: any warm boot address will do
  /\ pc = "check"
  /\ LET star == IF flash[0] \in Values THEN Wbstar[flash[0]] ELSE 0
     IN /\ Goto(IF star # 0 THEN "erase" ELSE "idle")
        /\ result' = IF star # 0 THEN result ELSE "NO_DUALBOOT"
  /\ UNCHANGED <<flashVars, image, off, retry, rdback, late>>

(* CheckDualBootCompatibility: the golden header must name this address. *)
CheckDualBoot ==
  /\ pc = "check"
  /\ \E v \in ReadValues(0) :
       LET star == IF v \in Values THEN Wbstar[v] ELSE 0
           ok   == star # 0 /\ star = image.base
       IN /\ Goto(IF ok THEN "erase" ELSE "idle")
          /\ result' = IF ok THEN result ELSE "NO_DUALBOOT"
  /\ UNCHANGED <<flashVars, image, off, retry, rdback, late>>

WaitForever(here, next, latchToo) ==  \* mutant: no timeout
  /\ pc = here /\ ~Busy /\ (latchToo => ~wel) /\ Goto(next)
  /\ UNCHANGED <<flashVars, image, off, retry, result, rdback, late>>

(* WaitForWriteInProgress: polls until the bits of the mask are clear, or  *)
(* gives up without telling its caller.                                    *)
WaitWip(here, next, latchToo) ==
  LET clear == ~Busy /\ (latchToo => ~wel)
  IN /\ pc = here /\ Goto(next)
     /\ late' = (late \/ ~clear)
     /\ UNCHANGED <<flashVars, image, off, retry, result, rdback>>

(* One round of the erase loop and one of the write loop: enable, wait,    *)
(* command, wait.                                                          *)
Enable(here, wait, exit) ==
  /\ pc = here
  /\ IF MoreToDo THEN WriteEnable /\ Goto(wait) /\ UNCHANGED off
                 ELSE UNCHANGED flashVars /\ Goto(exit) /\ off' = 0
  /\ UNCHANGED <<image, retry, result, rdback, late>>

EraseFromZero ==  \* mutant: the base address is forgotten
  /\ pc = "erase_cmd" /\ Goto("erase_done")
  /\ Start("erase", off, Blank)
  /\ off' = off + SectorPages
  /\ UNCHANGED <<image, retry, result, rdback, late>>

EraseSector == /\ pc = "erase_cmd" /\ Goto("erase_done")
               /\ Start("erase", First + off, Blank)
               /\ off' = off + SectorPages
               /\ UNCHANGED <<image, retry, result, rdback, late>>

WriteBytes == /\ pc = "write_cmd" /\ Goto("write_done")
              /\ Start("write", First + off, Word(First + off))
              /\ off' = off + 1
              /\ UNCHANGED <<image, retry, result, rdback, late>>

(* The read-back needs a buffer: without it the pass is not verified. *)
AllocReadBack ==
  /\ pc = "verify_alloc"
  /\ \/ rdback' = TRUE /\ result' = "SUCCESS" /\ Goto("verify")
     \/ rdback' = FALSE /\ Goto("pass_end") /\ UNCHANGED result
  /\ UNCHANGED <<flashVars, image, off, retry, late>>

VerifyLast ==  \* mutant: every page sets the result anew
  /\ pc = "verify"
  /\ IF MoreToDo
     THEN /\ \E v \in ReadValues(First + off) :
               result' = IF v # Word(First + off) THEN "BADRDBACK" ELSE "SUCCESS"
          /\ off' = off + 1 /\ UNCHANGED pc
     ELSE Goto("pass_end") /\ UNCHANGED <<off, result>>
  /\ UNCHANGED <<flashVars, image, retry, rdback, late>>

VerifyPage ==
  /\ pc = "verify"
  /\ IF MoreToDo
     THEN /\ \E v \in ReadValues(First + off) :
               result' = IF v # Word(First + off) THEN "BADRDBACK" ELSE result
          /\ off' = off + 1 /\ UNCHANGED pc
     ELSE Goto("pass_end") /\ UNCHANGED <<off, result>>
  /\ UNCHANGED <<flashVars, image, retry, rdback, late>>

PassEndNoErase ==  \* mutant: a retry only writes again
  /\ pc = "pass_end" /\ off' = 0
  /\ IF retry < MaxRetry /\ result = "BADRDBACK"
     THEN Goto("write") /\ retry' = retry + 1
     ELSE Goto("idle") /\ UNCHANGED retry
  /\ UNCHANGED <<flashVars, image, result, rdback, late>>

(* while ((retry++ < 3) && (byRetVal == FPGA_ERR_BADRDBACK)) *)
PassEnd == /\ pc = "pass_end" /\ off' = 0
           /\ IF retry < MaxRetry /\ result = "BADRDBACK"
              THEN Goto("erase") /\ retry' = retry + 1
              ELSE Goto("idle") /\ UNCHANGED retry
           /\ UNCHANGED <<flashVars, image, result, rdback, late>>

(* The program is killed and started again; the device goes on. *)
Restart == /\ pc' = "idle" /\ result' = "NONE"
           /\ UNCHANGED <<image, off, retry, rdback, late>>
Kill     == pc # "idle" /\ Restart /\ UNCHANGED flashVars
PowerOff == (pc # "idle" \/ Busy) /\ Restart /\ PowerLoss

HostStep == \/ CheckDualBoot
            \/ Enable("erase", "erase_wait", "write")
            \/ WaitWip("erase_wait", "erase_cmd", FALSE)
            \/ EraseSector
            \/ WaitWip("erase_done", "erase", TRUE)
            \/ Enable("write", "write_wait", "verify_alloc")
            \/ WaitWip("write_wait", "write_cmd", FALSE)
            \/ WriteBytes
            \/ WaitWip("write_done", "write", TRUE)
            \/ AllocReadBack \/ VerifyPage \/ PassEnd

(* History: a golden reflash gives up the golden image in the flash until  *)
(* it has been read back.                                                  *)
Replaces    == pc = "idle" /\ pc' = "erase"
GoldenStep  == golden' = CASE Replaces -> << >>
                           [] pc = "pass_end" /\ pc' = "idle" /\ image.base = 0
                              /\ result = "SUCCESS" /\ rdback -> image.data
                           [] OTHER -> golden

Flash == \E f \in Files : FlashFromFile(f)
Device == Complete /\ UNCHANGED hostVars
Next == (Flash \/ HostStep \/ Device \/ Kill \/ PowerOff) /\ GoldenStep

(* The program runs until it ends. *)
Spec == Init /\ [][Next]_vars /\ WF_vars(HostStep /\ GoldenStep)
--------------------------------------------------------------------------------
TypeOK == /\ FlashTypeOK
          /\ off \in 0 .. NumPages + SectorPages
          /\ retry \in 0 .. MaxRetry
          /\ image.base \in 0 .. NoBase /\ Size <= NumPages
          /\ result \in {"NONE", "SUCCESS", "BADRDBACK", "NO_DUALBOOT", "THROWN"}
          /\ rdback \in BOOLEAN /\ late \in BOOLEAN

(* The camera can always boot: whatever an update does, and wherever it is *)
(* killed or loses the supply, the golden image below it stays whole; a    *)
(* golden reflash that reported a verified success has stored it.          *)
GoldenKept == \A i \in DOMAIN golden : flash[i - 1] = golden[i]

(* A reflash that ends with FPGA_SUCCESS has stored the image: the passes  *)
(* make up for every command the device ignored because it was busy.  The  *)
(* code also reports success when it had no memory for the read-back, and  *)
(* then nothing is known: hence the condition rdback.                      *)
SuccessMeansStored ==
  pc = "idle" /\ result = "SUCCESS" /\ rdback
    => \A p \in Pages : InImage(p) => flash[p] = Word(p)

(* An update image is only written where the golden image will look for it.*)
UpdateReachable ==
  pc \notin {"idle", "check"} /\ image.base # 0
    => flash[0] \in Values /\ Wbstar[flash[0]] = image.base

(* There are four passes at most, and when no wait times out the second at *)
(* the latest is read back well, also over what a killed or unpowered      *)
(* reflash left behind.  (A pass that is not read back keeps the result of *)
(* the pass before.)                                                       *)
RetryRecovers ==
  TypeOK /\
  (pc = "pass_end" /\ result = "BADRDBACK" /\ rdback /\ retry >= 1 => late)

(* A reflash ends, after four passes at most. *)
FlashEnds == pc # "idle" ~> pc = "idle"
================================================================================
