--------------------------------- MODULE Camera ---------------------------------
(***************************************************************************)
(* The controller and the image DMA as XGS_athena.vhd wires them: the      *)
(* controller strobes the two stages of the DMA context of dmawr2tlp.vhd,  *)
(* and the DMA stores the frame that is read out with the second stage.    *)
(* The DMA itself is what FrameTransfer promises, here one frame: begun    *)
(* after its first lines were read out, ended at any time after its last.  *)
(* Its dma_idle does not reach the controller, whose input is left at '1'. *)
(*                                                                         *)
(* A DMA context (addresses, pitch, size, planes, direction) is one value. *)
(***************************************************************************)
EXTENDS XgsController

CONSTANTS Contexts,          \* bound: number of contexts told apart
          FirstLine          \* clocks of readout before the DMA may see the frame

VARIABLES strobe_DMA_P1_vector, strobe_DMA_P2_vector,
          strobe_DMA_P1, strobe_DMA_P2,
          context_strb_P1,              \* both strobes, one clock ago
          dma_reg,                      \* the DMA registers of the register file
          dma_context_p0, dma_context_p1,
          dma_set,                      \* software: SetDMA was called for the next grab
          grab_context,                 \* history: contexts of the queued grabs
          dma, dma_frame                \* the frame in the DMA and the context it should have

ASSUME CameraAssumption == Contexts \in Nat \ {0} /\ FirstLine \in Nat

contextVars == <<strobe_DMA_P1_vector, strobe_DMA_P2_vector, strobe_DMA_P1, strobe_DMA_P2,
                 context_strb_P1, dma_reg, dma_context_p0, dma_context_p1,
                 dma_set, grab_context, dma, dma_frame>>
cameraVars  == <<vars, contextVars>>

CameraInit ==
  /\ Init
  /\ strobe_DMA_P1_vector = [i \in 0 .. 3 |-> FALSE] /\ strobe_DMA_P1 = FALSE
  /\ strobe_DMA_P2_vector = [i \in 0 .. 3 |-> FALSE] /\ strobe_DMA_P2 = FALSE
  /\ context_strb_P1 = <<FALSE, FALSE>>
  /\ dma_reg = 0 /\ dma_context_p0 = 0 /\ dma_context_p1 = 0
  /\ dma_set = FALSE /\ grab_context = <<>>
  /\ dma = "empty" /\ dma_frame = 0

(* The strobes: four clocks long, so that the edge survives a clock crossing. *)

LoadP1(cmd)        == NewGrab(cmd) \/ EO_FOT

Shift(v, bit) == [i \in 0 .. 3 |-> IF i = 0 THEN bit ELSE v[i - 1]]
AnyBit(v)     == \E i \in 0 .. 3 : v[i]

StrobeStep(cmd) ==
  /\ strobe_DMA_P1_vector' = Shift(strobe_DMA_P1_vector, LoadP1(cmd))
  /\ strobe_DMA_P2_vector' = Shift(strobe_DMA_P2_vector, EO_FOT)
  /\ strobe_DMA_P1' = AnyBit(strobe_DMA_P1_vector)
  /\ strobe_DMA_P2' = AnyBit(strobe_DMA_P2_vector)

\* Mutation: the second stage follows the registers, not the first stage.
ContextOneStage ==
  /\ context_strb_P1' = <<strobe_DMA_P1, strobe_DMA_P2>>
  /\ dma_context_p0' = IF strobe_DMA_P1 /\ ~context_strb_P1[1] THEN dma_reg ELSE dma_context_p0
  /\ dma_context_p1' = IF strobe_DMA_P2 /\ ~context_strb_P1[2] THEN dma_reg ELSE dma_context_p1

\* Each stage is loaded on the rising edge of its strobe.
ContextStep ==
  /\ context_strb_P1' = <<strobe_DMA_P1, strobe_DMA_P2>>
  /\ dma_context_p0' = IF strobe_DMA_P1 /\ ~context_strb_P1[1] THEN dma_reg ELSE dma_context_p0
  /\ dma_context_p1' = IF strobe_DMA_P2 /\ ~context_strb_P1[2] THEN dma_context_p0
                                                               ELSE dma_context_p1

(* Software: SetDMA writes the DMA registers, then SetGrabCMD the others.    *)
(* SetDMA does not wait for GRAB_PENDING itself: a caller that gives each    *)
(* grab its own buffer must.  The answer of that read takes longer than the  *)
(* strobe which begins as the flag falls.                                    *)

PendingReadZero == ~grab_pending /\ ~AnyBit(strobe_DMA_P1_vector) /\ ~strobe_DMA_P1

MaySetDma(cmd) ==
  /\ cmd = "SET_DMA" => ~dma_set /\ PendingReadZero
  /\ cmd = "PARAMS" => dma_set

DmaSoftwareStep(cmd) ==
  LET left == IF EO_FOT /\ grab_context # <<>> THEN Tail(grab_context) ELSE grab_context
  IN /\ dma_reg' = IF cmd = "SET_DMA" THEN (dma_reg + 1) % Contexts ELSE dma_reg
     /\ dma_set' = CASE cmd = "SET_DMA"  -> TRUE
                     [] cmd = "GRAB_CMD" -> FALSE
                     [] OTHER            -> dma_set
     /\ grab_context' = CASE abort_grab_cmd                      -> <<>>
                          [] ~abort_grab_cmd /\ cmd = "GRAB_CMD" -> Append(left, dma_reg)
                          [] OTHER                               -> left

(* The DMA: "reading" when the frame has left the FOT, "storing" from its     *)
(* first line to its end of DMA.  It keeps up with the sensor: a frame is     *)
(* begun before the next FOT begins and is stored before the next FOT ends.   *)

FirstLineOut == ~readout_cntr2_armed \/ readout_cntr2 + FirstLine <= READOUT_LENGTH

MayMove(start, end, fot) ==
  /\ start => dma = "reading" /\ FirstLineOut
  /\ end => dma = "storing" /\ ~readout_cntr2_armed
  /\ fot /\ ~xgs_FOT => dma # "reading"
  /\ xgs_EO_FOT /\ dma = "storing" => end

DmaStep(start, end) ==
  /\ dma' = CASE EO_FOT          -> "reading"
              [] ~EO_FOT /\ start -> "storing"
              [] ~EO_FOT /\ end   -> "empty"
              [] OTHER           -> dma
  /\ dma_frame' = IF EO_FOT THEN Head(grab_context) ELSE dma_frame

CameraClock(cmd, ext_trig, exposure, fot, done, start, end) ==
  /\ MaySetDma(cmd)
  /\ MayMove(start, end, fot)
  /\ Clock(cmd, ext_trig, exposure, fot, done, TRUE)
  /\ StrobeStep(cmd)
  /\ ContextStep
  /\ DmaSoftwareStep(cmd)
  /\ DmaStep(start, end)

CameraNext ==
  \E cmd \in Commands \union {"SET_DMA"},
     ext_trig, exposure, fot, done, start, end \in BOOLEAN :
    /\ ext_trig => TRIGGER_SRC = "HW"
    /\ done => S_currentState = "S_scanout"
    /\ CameraClock(cmd, ext_trig, exposure, fot, done, start, end)

CameraSpec == CameraInit /\ [][CameraNext]_cameraVars

--------------------------------------------------------------------------------
(* Properties. *)

\* The context of the grab that is exposed is not overtaken by the registers of the
\* next grab before it moves on to the second stage.
FirstStageHeld == FOT => grab_context # <<>> /\ dma_context_p0 = Head(grab_context)

\* Every frame is stored with the DMA context of the grab that asked for it, from
\* its first line to its last, while the next grabs are queued, aborted or started
\* ("Grab context pipeline", dmawr2tlp.vhd; GRAB_QUEUE_EN).
FrameContext == FirstStageHeld /\ (dma = "storing" => dma_context_p1 = dma_frame)

\* An abort is done when the DMA is idle: the state abort_dma waits for dma_idle, and
\* GrabAbort returns to a caller that may then free the frame buffer.
AbortDrainsDma == curr_grab_abort_state = "abort_irq" => dma # "storing"
================================================================================
