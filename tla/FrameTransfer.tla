----------------------------- MODULE FrameTransfer -----------------------------
(***************************************************************************)
(* What the image DMA promises its two users, the video pipeline and the   *)
(* software that owns the host frame buffer: a frame is a sequence of      *)
(* lines; the lines accepted and not yet in host memory are a queue of at  *)
(* most Capacity lines; they reach host memory whole, once, in the order   *)
(* of the stream; and the frame is over only when all of them did.         *)
(***************************************************************************)
EXTENDS Integers, Sequences

CONSTANT Capacity            \* lines the DMA can hold, at least one

VARIABLES phase,             \* "idle", "open": frame begun, "closed": last line accepted
          frame,             \* parity of the frame in progress, or of the last one
          stored,            \* lines accepted, not in host memory yet
          delivered          \* lines of the frame in host memory

TypeInv == /\ phase \in {"idle", "open", "closed"}
           /\ frame \in {0, 1}
           /\ Len(stored) <= Capacity

Init == /\ phase = "idle"
        /\ frame = 1
        /\ stored = <<>>
        /\ delivered = <<>>

Start == /\ phase = "idle"
         /\ phase' = "open"
         /\ frame' = 1 - frame
         /\ delivered' = <<>>
         /\ UNCHANGED stored

NextLine == [frame |-> frame, line |-> Len(delivered) + Len(stored)]

Accepted(accept) == IF accept THEN Append(stored, NextLine) ELSE stored

\* On one clock a line may be accepted (the last one closes the frame), and the
\* oldest line that was stored before may become delivered.
Transfer(accept, last, deliver) ==
  /\ accept => phase = "open" /\ Len(stored) < Capacity
  /\ deliver => stored # <<>>
  /\ phase # "idle"
  /\ stored' = IF deliver THEN Tail(Accepted(accept)) ELSE Accepted(accept)
  /\ delivered' = IF deliver THEN Append(delivered, Head(stored)) ELSE delivered
  /\ phase' = IF accept /\ last THEN "closed" ELSE phase
  /\ UNCHANGED frame

Complete == /\ phase = "closed"
            /\ stored = <<>>
            /\ phase' = "idle"
            /\ UNCHANGED <<frame, stored, delivered>>

Next == \/ Start
        \/ \E accept, last, deliver \in BOOLEAN : Transfer(accept, last, deliver)
        \/ Complete

Spec == Init /\ [][Next]_<<phase, frame, stored, delivered>>
================================================================================
