--------------------------------- MODULE XgsSpi ---------------------------------
(***************************************************************************)
(* xgs_spi.vhd: the serial link to the image sensor.  Every GRAB_CMD with  *)
(* SENSOR_REG_UPDATE pushes the sensor registers and a STOP separator in a *)
(* command FIFO; when the grab manager asks for it, the FSM sends the      *)
(* commands up to the separator.  A temperature read shares the link, and  *)
(* an abort empties the FIFO.                                              *)
(*                                                                         *)
(* The eleven register writes of a grab are one "reg" word; the shifting   *)
(* of a word (S_wait_cycle to S_wait_tspi_2, S_restart) is one state of    *)
(* any length; S_readfifo1 and S_capture, the two states of the            *)
(* temperature capture and the eight clocks of S_abort_fifo_cmd are one    *)
(* state each.  Direct accesses of software to the FIFO (SER_WF_SS,        *)
(* SER_RF_SS) and their timer command are left out.                        *)
(***************************************************************************)
EXTENDS Sequences, Naturals

VARIABLES SENSOR_REG_UPDATE, \* register: a GRAB_CMD reprograms the sensor
          S_currentState,
          reconf_start, reconf_start_buff,       \* grab_mngr_sensor_reconf_start(_buff)
          read_temp_start, read_temp_start_buff, \* read_temp_sensor_start(_buff)
          read_temp_flag,
          reconf_WF_pipe,      \* stage of the FIFO writes of a GRAB_CMD
          fifo                 \* the serial command FIFO

spiVars == <<S_currentState, reconf_start, reconf_start_buff, read_temp_start,
             read_temp_start_buff, read_temp_flag, reconf_WF_pipe, fifo>>

SpiInit == /\ S_currentState = "S_idle"
           /\ reconf_start = FALSE /\ reconf_start_buff = FALSE
           /\ read_temp_start = FALSE /\ read_temp_start_buff = FALSE
           /\ read_temp_flag = FALSE
           /\ reconf_WF_pipe = 0
           /\ fifo = <<>>

\* Mutation: busy only covers the shifting of a word.
busy_scanout == S_currentState = "S_scanout"

busy       == S_currentState \in {"S_wait_reconf", "S_readfifo1", "S_captureT", "S_scanout"}
fifo_empty == fifo = <<>>
abort_fifo_cmd_done == S_currentState = "S_abort_fifo_done"

--------------------------------------------------------------------------------
(* The FIFO.  Stage 2 of the pipe writes the registers, stage 3 the STOP.   *)

PipeStep(grab_cmd) ==
  reconf_WF_pipe' = CASE grab_cmd /\ SENSOR_REG_UPDATE -> 1
                      [] ~(grab_cmd /\ SENSOR_REG_UPDATE) /\ reconf_WF_pipe \in {1, 2}
                                                       -> reconf_WF_pipe + 1
                      [] OTHER                         -> 0

fifo_write(abort_now) == reconf_WF_pipe \in {2, 3} /\ ~abort_now
fifo_data_in == IF reconf_WF_pipe = 2 THEN "reg" ELSE "stop"

FifoStep(abort_now) ==
  LET rest == IF S_currentState = "S_readfifo1" THEN Tail(fifo) ELSE fifo
  IN fifo' = CASE S_currentState = "S_abort_fifo_cmd" -> <<>>
               [] S_currentState # "S_abort_fifo_cmd" /\ fifo_write(abort_now)
                                                      -> Append(rest, fifo_data_in)
               [] OTHER                               -> rest

(* The arbiter: a request that finds the link in use is kept in its _buff.  *)

ReconfRequest(sensor_reconf) ==
  LET req  == (sensor_reconf \/ reconf_start_buff) /\ SENSOR_REG_UPDATE
      free == S_currentState = "S_idle" /\ (sensor_reconf => ~read_temp_start)
  IN reconf_start' = (req /\ free) /\ reconf_start_buff' = (req /\ ~free)

TempRequest(sensor_reconf, refresh_temp) ==
  LET req  == refresh_temp \/ read_temp_start_buff
      free == S_currentState = "S_idle" /\ ~sensor_reconf /\ ~reconf_start
  IN read_temp_start' = (req /\ free) /\ read_temp_start_buff' = (req /\ ~free)

(* The FSM.  done: the last bit of the word in S_scanout is shifted.         *)

SpiTo(from, to) == S_currentState = from /\ S_currentState' = to

SpiIdle(abort)  == /\ SpiTo("S_idle", "S_idle")
                   /\ ~abort /\ ~reconf_start /\ ~read_temp_start
SpiAbort(abort) == SpiTo("S_idle", "S_abort_fifo_cmd") /\ abort
SpiReconf(abort)== SpiTo("S_idle", "S_wait_reconf") /\ ~abort /\ reconf_start
SpiTemp(abort)  == /\ SpiTo("S_idle", "S_captureT")
                   /\ ~abort /\ ~reconf_start /\ read_temp_start
SpiWaitReconf   == SpiTo("S_wait_reconf", "S_wait_reconf") /\ fifo_empty
SpiFirstWord    == SpiTo("S_wait_reconf", "S_readfifo1") /\ ~fifo_empty
SpiWord         == SpiTo("S_readfifo1", "S_scanout") /\ Head(fifo) = "reg"
SpiStop         == SpiTo("S_readfifo1", "S_reconf_done") /\ Head(fifo) = "stop"
SpiCaptureT     == SpiTo("S_captureT", "S_scanout")
SpiShift(done)  == SpiTo("S_scanout", "S_scanout") /\ ~done
SpiLast(done)   == /\ SpiTo("S_scanout", "S_idle")
                   /\ done /\ (fifo_empty \/ read_temp_flag)
SpiNext(done)   == /\ SpiTo("S_scanout", "S_readfifo1")
                   /\ done /\ ~fifo_empty /\ ~read_temp_flag
SpiReconfDone   == SpiTo("S_reconf_done", "S_idle")
SpiReset        == SpiTo("S_abort_fifo_cmd", "S_abort_fifo_done")
SpiAbortDone    == SpiTo("S_abort_fifo_done", "S_idle")

SpiStep(abort, done) ==
  \/ SpiIdle(abort) \/ SpiAbort(abort) \/ SpiReconf(abort) \/ SpiTemp(abort)
  \/ SpiWaitReconf \/ SpiFirstWord \/ SpiWord \/ SpiStop \/ SpiCaptureT
  \/ SpiShift(done) \/ SpiLast(done) \/ SpiNext(done) \/ SpiReconfDone
  \/ SpiReset \/ SpiAbortDone

TempFlagStep ==
  read_temp_flag' = CASE S_currentState = "S_readfifo1" -> FALSE
                      [] S_currentState = "S_captureT"  -> TRUE
                      [] OTHER                          -> read_temp_flag

\* One rising edge of sys_clk in xgs_spi.
SpiClock(grab_cmd, sensor_reconf, refresh_temp, abort_now, abort_fifo_cmd, done) ==
  /\ PipeStep(grab_cmd)
  /\ FifoStep(abort_now)
  /\ ReconfRequest(sensor_reconf)
  /\ TempRequest(sensor_reconf, refresh_temp)
  /\ SpiStep(abort_fifo_cmd, done)
  /\ TempFlagStep
================================================================================
