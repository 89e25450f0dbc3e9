------------------------------- MODULE SpiFlash -------------------------------
(***************************************************************************)
(* The serial flash that holds the bitstreams, as flashupdate.cpp uses it: *)
(* write enable latch, one program or erase at a time, commands ignored    *)
(* while one is in progress.  A page is erased (Blank), holds a value of   *)
(* Values, or holds neither (Junk): half programmed, half erased, or       *)
(* programmed over something else.                                         *)
(***************************************************************************)
EXTENDS Integers

CONSTANTS Sectors,      \* erase units of the device
          SectorPages,  \* pages in a sector
          Values        \* what a page of an image can hold

ASSUME FlashGeometry == /\ Sectors \in Nat \ {0} /\ SectorPages \in Nat \ {0}
                        /\ Values \subseteq Nat \ {0}

VARIABLES flash,  \* flash[p] is what page p holds
          wel,    \* write enable latch of the status register
          wip     \* the operation in progress, or NoOp
flashVars == <<flash, wel, wip>>

NumPages == Sectors * SectorPages
Pages == 0 .. NumPages - 1
Blank == 0
Junk  == -1
NoOp  == [op |-> "none", page |-> 0, value |-> Blank]

SectorOf(p) == {q \in Pages : q \div SectorPages = p \div SectorPages}

FlashTypeOK == /\ flash \in [Pages -> Values \cup {Blank, Junk}]
               /\ wel \in BOOLEAN
               /\ wip \in [op : {"none", "erase", "write"}, page : Pages,
                           value : Values \cup {Blank}]

Busy == wip # NoOp

WriteEnable == /\ wel' = (wel \/ ~Busy)
               /\ UNCHANGED <<flash, wip>>

(* An erase or a page program: ignored unless the latch is set and the     *)
(* device is free.                                                         *)
Start(op, p, v) == /\ wip' = IF wel /\ ~Busy THEN [op |-> op, page |-> p, value |-> v]
                                            ELSE wip
                   /\ UNCHANGED <<flash, wel>>

(* Programming only clears bits. *)
Programmed(old, v) == IF v = Blank THEN old
                      ELSE IF old \in {Blank, v} THEN v ELSE Junk

Touched == IF wip.op = "erase" THEN SectorOf(wip.page) ELSE {wip.page}

Complete == /\ Busy
            /\ flash' = [p \in Pages |->
                           IF p \notin Touched      THEN flash[p]
                           ELSE IF wip.op = "erase" THEN Blank
                           ELSE Programmed(flash[p], wip.value)]
            /\ wel' = FALSE /\ wip' = NoOp

(* The supply goes: what was being changed is left half done. *)
PowerLoss == /\ flash' = [p \in Pages |-> IF Busy /\ p \in Touched THEN Junk ELSE flash[p]]
             /\ wel' = FALSE /\ wip' = NoOp

(* A busy device does not answer a read: the host shifts in whatever is on *)
(* the wire.                                                               *)
ReadValues(p) == IF Busy THEN {Blank, Junk} ELSE {flash[p]}
================================================================================
