----------------------------- MODULE FlashInvariant -----------------------------
(***************************************************************************)
(* The inductive invariant of a reflash: what the host program knows at    *)
(* each of its labels about the device it talks to, and why no command of  *)
(* it, finished or half done, reaches the golden image.                    *)
(***************************************************************************)
EXTENDS FlashUpdate

Labels == {"idle", "check", "erase", "erase_wait", "erase_cmd", "erase_done", "write",
           "write_wait", "write_cmd", "write_done", "verify_alloc", "verify", "pass_end"}

\* The host erases, writes or verifies.
Working == pc \notin {"idle", "check"}

\* A sector is erased from its first page on.
SectorStart(p) == p % SectorPages = 0

\* Where the host is, in the image of a firmware file.
HostOK ==
  /\ pc \in Labels
  /\ result \in {"NONE", "SUCCESS", "BADRDBACK", "NO_DUALBOOT", "THROWN"}
  /\ retry \in 0 .. MaxRetry /\ rdback \in BOOLEAN /\ late \in BOOLEAN
  /\ image = NoImage \/ image \in Images
  /\ pc # "idle" => image \in Images
  /\ pc = "check" => image.base # 0 /\ off = 0
  /\ off \in 0 .. NumPages + SectorPages
  /\ pc \in {"erase_wait", "erase_cmd", "write_wait", "write_cmd"} => MoreToDo
  /\ pc \in {"erase", "erase_wait", "erase_cmd", "erase_done"} => SectorStart(off)
  /\ pc \in {"erase_done", "write_done"} => off > 0
  /\ pc = "verify_alloc" => off = 0
  /\ pc = "pass_end" /\ rdback => result \in {"SUCCESS", "BADRDBACK"}
  /\ pc = "verify" => rdback /\ result \in {"SUCCESS", "BADRDBACK"}

\* What an operation in progress touches starts at the page of bottom or above it.
Above(bottom) == \A p \in Pages : Busy /\ p \in Touched => p >= bottom

\* A golden image known to be in the flash is there, whole, and no operation in
\* progress touches it; an update goes where its header says.
Protected ==
  /\ golden \in Contents
  /\ golden # << >> => Bootable(golden) /\ GoldenKept /\ Above(Len(golden))
  /\ Working /\ image.base = 0 => golden = << >>
  /\ UpdateReachable /\ (Working /\ image.base # 0 => Above(First))

\* The pages of the image below offset n hold it.
StoredTo(n) == \A p \in Pages : First <= p /\ p < First + n /\ p < Size => flash[p] = Word(p)
BlankFrom(n) == \A p \in Pages : First + n <= p /\ p < Size => flash[p] = Blank
BlankTo(n)   == \A p \in Pages : First <= p /\ p < First + n => flash[p] = Blank
Stored == StoredTo(Size)

\* What has been read back well was there, from an idle device: the first page is
\* no blank one, and nothing starts while the host verifies.
ReadBack ==
  /\ pc = "verify" /\ result = "SUCCESS" => StoredTo(off) /\ (off > 0 => ~Busy)
  /\ pc \in {"pass_end", "idle"} /\ result = "SUCCESS" /\ rdback => Stored /\ ~Busy

\* When no wait of this operation timed out, the device is idle whenever the host
\* is past a wait.  At the start it may still do what was left by a killed one.
Quiet ==
  ~late /\ Working /\ pc \notin {"erase_done", "write_done"}
        /\ (retry > 0 \/ off > 0 \/ pc \notin {"erase", "erase_wait"}) => ~Busy

\* From the second pass on nothing is left over, and every command is taken.
InStep ==
  ~late /\ retry > 0 =>
    /\ pc \in {"erase", "erase_wait", "erase_cmd"} => BlankTo(off)
    /\ pc = "erase_done" =>
         \/ Busy /\ wip = [op |-> "erase", page |-> First + off - SectorPages, value |-> Blank]
                 /\ BlankTo(off - SectorPages)
         \/ ~Busy /\ BlankTo(off)
    /\ pc \in {"write", "write_wait", "write_cmd"} => StoredTo(off) /\ BlankFrom(off)
    /\ pc = "write_done" =>
         \/ Busy /\ wip = [op |-> "write", page |-> First + off - 1,
                           value |-> Word(First + off - 1)]
                 /\ StoredTo(off - 1) /\ BlankFrom(off - 1)
         \/ ~Busy /\ StoredTo(off) /\ BlankFrom(off)
    /\ pc \in {"verify_alloc", "verify"} => Stored
    /\ pc \in {"erase_wait", "erase_cmd", "write_wait", "write_cmd"} => wel
    /\ pc = "verify" \/ (pc = "pass_end" /\ rdback) => result = "SUCCESS"

\* The inductive invariant.
IInv == FlashTypeOK /\ HostOK /\ Protected /\ ReadBack /\ Quiet /\ InStep
================================================================================
