-------------------------------- MODULE GrabPath --------------------------------
(***************************************************************************)
(* What the acquisition controller (xgs_ctrl.vhd) promises the software    *)
(* that writes GRAB_CTRL and polls GRAB_STAT: one grab is active and one   *)
(* more pending; the active one is queued, armed (TRIGGER_RDY) and         *)
(* exposed, then read out while the next is queued; an abort lets the      *)
(* exposure and the readout end and forgets the grabs.                     *)
(***************************************************************************)
EXTENDS Integers

VARIABLE path     \* GRAB_ACTIVE, GRAB_PENDING, GRAB_READOUT, ~ABORT_DONE and the phase

GrabBits == {"GRAB_CMD", "GRAB_SS", "ABORT_GRAB"}

Paths == [active : BOOLEAN, pending : BOOLEAN, readout : BOOLEAN, aborting : BOOLEAN,
          phase : {"idle", "queued", "armed", "exposing", "fot"}]

Stat(active, pending, readout, aborting, phase) ==
  [active |-> active, pending |-> pending, readout |-> readout, aborting |-> aborting,
   phase |-> phase]

AtRest == Stat(FALSE, FALSE, FALSE, FALSE, "idle")

\* The self-clearing bits of one write of GRAB_CTRL.
GrabCmd(p) ==
  IF p.active THEN [p EXCEPT !.pending = TRUE]
  ELSE Stat(TRUE, p.pending, p.readout, p.aborting,
            IF p.phase = "idle" /\ ~p.aborting THEN "queued" ELSE p.phase)
Snapshot(p) == IF p.phase = "armed" THEN [p EXCEPT !.phase = "exposing"] ELSE p
AbortGrab(p) == Stat(p.active, p.pending, p.readout, TRUE, p.phase)

Command(p, bits) ==
  LET q == IF "GRAB_CMD" \in bits THEN GrabCmd(p) ELSE p
      r == IF "GRAB_SS" \in bits THEN Snapshot(q) ELSE q
  IN IF "ABORT_GRAB" \in bits THEN AbortGrab(r) ELSE r

\* What the controller does by itself, as pairs of an enabling condition and a result.
Arm(p)         == IF p.phase = "queued" THEN {[p EXCEPT !.phase = "armed"]} ELSE {}
Trigger(p)     == IF p.phase = "armed" THEN {[p EXCEPT !.phase = "exposing"]} ELSE {}
StartFot(p)    == IF p.phase = "exposing" /\ ~p.readout
                  THEN {Stat(p.active, p.pending, TRUE, p.aborting, "fot")} ELSE {}
EndFot(p)      == IF p.phase = "fot"
                  THEN {Stat(p.pending, FALSE, p.readout, p.aborting,
                             IF p.pending /\ ~p.aborting THEN "queued" ELSE "idle")}
                  ELSE {}
EndReadout(p)  == IF p.readout /\ p.phase # "fot"
                  THEN {Stat(p.active, p.pending, FALSE, p.aborting, p.phase)} ELSE {}
Cancel(p)      == IF p.aborting /\ p.phase # "fot"
                  THEN {Stat(p.active, p.pending, p.readout, p.aborting, "idle")} ELSE {}
ForgetGrabs(p) == IF p.aborting /\ p.phase = "idle" /\ ~p.readout
                  THEN {Stat(FALSE, FALSE, p.readout, p.aborting, p.phase)} ELSE {}
AbortDone(p)   == IF p.aborting /\ p.phase = "idle" /\ ~p.active /\ ~p.pending /\ ~p.readout
                  THEN {AtRest} ELSE {}

Events(p) == Arm(p) \cup Trigger(p) \cup StartFot(p) \cup EndFot(p) \cup EndReadout(p)
               \cup Cancel(p) \cup ForgetGrabs(p) \cup AbortDone(p)

\* One clock sees at most one write of GRAB_CTRL, and two events around it.
Soon(p) == {p} \cup Events(p) \cup UNION {Events(q) : q \in Events(p)}

Init == path = AtRest
Next == /\ path' # path
        /\ \E bit \in GrabBits \cup {"none"}, p \in {path} \cup Events(path) :
             path' \in Soon(Command(p, {bit}))
Spec == Init /\ [][Next]_path
================================================================================
