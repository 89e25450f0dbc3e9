---------------------------- MODULE CameraInvariant ----------------------------
(***************************************************************************)
(* The inductive invariant of the camera: where the managers may be while  *)
(* a strobe is on its way, which grab each stage of the DMA context        *)
(* belongs to, and what software may do meanwhile.  It stands on the       *)
(* invariant of the controller.                                            *)
(***************************************************************************)
EXTENDS Camera, XgsInvariant

ContextTypes ==
  /\ {strobe_DMA_P1_vector, strobe_DMA_P2_vector} \subseteq [0 .. 3 -> BOOLEAN]
  /\ {strobe_DMA_P1, strobe_DMA_P2, dma_set} \subseteq BOOLEAN
  /\ context_strb_P1 \in BOOLEAN \X BOOLEAN
  /\ {dma_reg, dma_context_p0, dma_context_p1, dma_frame} \subseteq 0 .. Contexts - 1
  /\ grab_context \in Seq(0 .. Contexts - 1)
  /\ dma \in {"empty", "reading", "storing"}

-----------------------------------------------------------------------------
(* A strobe on its way: it rises on the next clock, or its stage is loaded *)
(* on this one.                                                            *)

Raised1 == ~strobe_DMA_P1 /\ AnyBit(strobe_DMA_P1_vector)
Rising1 == strobe_DMA_P1 /\ ~context_strb_P1[1]
Raised2 == ~strobe_DMA_P2 /\ AnyBit(strobe_DMA_P2_vector)
Rising2 == strobe_DMA_P2 /\ ~context_strb_P1[2]

\* The first stage is loaded before the grab manager has sent its trigger.
FirstStrobe ==
  /\ Raised1 => BeforeTrigger /\ curr_grab_mngr_state # "trig"
  /\ Rising1 => BeforeTrigger

\* How far the trig manager gets while the second strobe lasts: not to the next EO_FOT.
SecondStrobe ==
  LET after1 == {"readout_state", "idle", "trigger", "wait_pet"}
      after3 == after1 \cup {"wait_exp_start", "single_slope", "exp_level"}
  IN /\ strobe_DMA_P2_vector[0] => TrigIn({"readout_state"})
     /\ strobe_DMA_P2_vector[1] => TrigIn(after1)
     /\ strobe_DMA_P2_vector[2] => TrigIn(after1 \cup {"wait_exp_start"})
     /\ strobe_DMA_P2_vector[3] => TrigIn(after3)
     /\ strobe_DMA_P2      => TrigIn(after3 \cup {"monitoring"})
     /\ context_strb_P1[2] => TrigIn(after3 \cup {"monitoring", "SO_FOT_STATE"})

-----------------------------------------------------------------------------
(* The contexts. *)

\* The registers are the context of the pending grab, or free for the next one.
ContextsQueued ==
  /\ Len(grab_context) = Queued
  /\ sw_ready => dma_set
  /\ grab_pending => ~dma_set /\ grab_context[2] = dma_reg

\* The first stage holds the context of the active grab, or is about to load it; while
\* the strobe lasts a new grab finds its own there, as the registers do not change.
FirstStage ==
  /\ strobe_DMA_P1 /\ ~Rising1 => dma_context_p0 = dma_reg
  /\ grab_active =>
       grab_context[1] = IF Raised1 \/ Rising1 THEN dma_reg ELSE dma_context_p0

\* The second stage holds the one of the frame in the DMA, or is about to take it from
\* the first, which is not loaded before.
SecondStage ==
  /\ Raised2 => ~Rising1
  /\ dma_frame = IF Raised2 \/ Rising2 THEN dma_context_p0 ELSE dma_context_p1

\* The frame is not begun before.
NotBegun ==
  FirstLine > 0 =>
    /\ Raised2 => dma # "storing" /\ readout_cntr2_armed /\ readout_cntr2 = READOUT_LENGTH
    /\ Rising2 => dma # "storing"

-----------------------------------------------------------------------------
CameraInv == /\ IInv
             /\ ContextTypes /\ FirstStrobe /\ SecondStrobe
             /\ ContextsQueued /\ FirstStage /\ SecondStage /\ NotBegun
================================================================================
