-------------------------- MODULE ControllerRefinement --------------------------
(***************************************************************************)
(* The acquisition controller implements GrabPath, the grab as software    *)
(* sees it in GRAB_STAT.  The phase is the state of the grab manager: it   *)
(* leaves "exposing" with the end of the FOT or an abort.                  *)
(***************************************************************************)
EXTENDS XgsController

phase == CASE curr_grab_mngr_state = "idle" -> "idle"
           [] curr_grab_mngr_state \in {"sensor_reprog", "wait_end_rdo", "wait_end_deadwindow"}
                -> "queued"
           [] curr_grab_mngr_state = "arm" -> "armed"
           [] /\ curr_grab_mngr_state = "wait_eo_fot"
              /\ curr_trig_mngr_state \in {"FOT_STATE", "EO_FOT_STATE"} -> "fot"
           [] OTHER -> "exposing"

grabPath == [active |-> grab_active, pending |-> grab_pending, readout |-> readout,
             aborting |-> abort_now, phase |-> phase]

Path == INSTANCE GrabPath WITH path <- grabPath

\* Every clock of the four FSMs is, in the bits of GRAB_STAT and the state of the grab
\* manager, at most one write of GRAB_CTRL and two events of GrabPath: a grab goes from
\* queued to armed, exposed and FOT in that order, the flags move on as its FOT ends, and
\* ABORT_DONE is set again only when nothing is queued, exposed or read out
\* (xgs_ctrl.vhd:650-669, 864-912, 2357-2469).  When, and whether, a step comes is left
\* open.
ImplementsGrabPath == Path!Spec
================================================================================
