------------------------------- MODULE HostSession ------------------------------
(***************************************************************************)
(* A session of the camera software as test_0005_SWtrig_Random.cpp runs    *)
(* it: power up the sensor, grab on software triggers while threads that   *)
(* the key 'A' starts abort the grabs, and on 'q' abort, clear the         *)
(* datapath, power down, free the buffers and let the threads stop.  The   *)
(* controller is GrabPath, the sequencer XgsPower; the application may be  *)
(* killed at any time and started again, the FPGA goes on.                 *)
(*                                                                         *)
(* Threads share the shadow of GRAB_CTRL without a lock of its own: every  *)
(* assignment to a bit field is a load and a store.  Time is counted in    *)
(* ticks of 100 ms; a thread that can run does before time passes, and so  *)
(* do the 10 ms of the sequencer and the tail of a frame in the DMA.       *)
(***************************************************************************)
EXTENDS GrabPath, XgsPower

CONSTANTS AbortThreads,      \* bound: abort threads alive at once
          AbortSleep,        \* ticks between two aborts of a thread
          DestroySleep,      \* ticks between stopping the threads and DestroyOsMutex
          PollLimit,         \* ticks of a loop of 1000 Sleep(1)
          FrameTicks         \* longest exposure, FOT or readout, in ticks

ASSUME SessionAssumption ==
  /\ AbortThreads \cap {"main", "none", "free"} = {}
  /\ DestroySleep \in Nat /\ AbortSleep \subseteq 1 .. DestroySleep
  /\ PollLimit \in Nat \ {0} /\ FrameTicks \in Nat

Threads == AbortThreads \cup {"main"}

VARIABLES pc, step, tmp,     \* per thread; step and tmp of the register write it is in
          timer,             \* per thread: ticks left of a Sleep, or before a poll gives up
          shadow,            \* self-clearing bits of sXGSptr.ACQ.GRAB_CTRL
          AbortRunning,      \* the mutex: "none", "free" or its owner
          StopAbortThread,
          buffer,            \* the grab buffer is allocated
          dma,               \* a frame is in the datapath or the DMA
          age,               \* ticks since the controller moved
          dirty              \* history: the application was killed during a grab

hostVars == <<pc, step, tmp, timer, shadow, AbortRunning, StopAbortThread, buffer>>
sessionVars == <<hostVars, path, dma, age, dirty, powerVars>>

SessionInit ==
  /\ pc = [t \in Threads |-> IF t = "main" THEN "menu" ELSE "off"]
  /\ step = [t \in Threads |-> "load"] /\ tmp = [t \in Threads |-> {}]
  /\ timer = [t \in Threads |-> 0]
  /\ shadow = {} /\ AbortRunning = "none" /\ StopAbortThread = FALSE
  /\ buffer = FALSE /\ dma = FALSE /\ age = 0 /\ dirty = FALSE
  /\ path = AtRest
  /\ PowerInit

\* Thread t goes to another place, where it sleeps or polls for so many ticks.
Goto(t, place, ticks) == pc' = [pc EXCEPT ![t] = place] /\ timer' = [timer EXCEPT ![t] = ticks]
At(t, place)   == pc[t] = place
Woken(t, place) == pc[t] = place /\ timer[t] = 0

KeepWrite == UNCHANGED <<step, tmp, shadow>>
KeepHost  == UNCHANGED <<AbortRunning, StopAbortThread, buffer>>
KeepFpga  == UNCHANGED <<path, dma, age, dirty, powerVars>>
KeepGrab  == UNCHANGED <<path, dma, age, dirty, xgs_power_good>>

--------------------------------------------------------------------------------
(* A write of GRAB_CTRL: set the bit in the shadow, write the word, clear    *)
(* the bit.  SetGrabParams writes the word with fields that are no commands. *)

Bits == [params |-> {}, grab_cmd |-> {"GRAB_CMD"}, snapshot |-> {"GRAB_SS"},
         abort |-> {"ABORT_GRAB"}]
Then == [params |-> "grab_cmd", grab_cmd |-> "rdy", snapshot |-> "release",
         abort |-> "abort_poll"]

Writing(t, s) == pc[t] \in DOMAIN Bits /\ step[t] = s
StepTo(t, s)  == step' = [step EXCEPT ![t] = s]

LoadShadow(t) ==
  /\ Writing(t, "load")
  /\ tmp' = [tmp EXCEPT ![t] = shadow \cup Bits[pc[t]]]
  /\ StepTo(t, "set")
  /\ UNCHANGED <<shadow, pc, timer>> /\ KeepHost /\ KeepFpga

StoreShadow(t) ==
  /\ Writing(t, "set")
  /\ shadow' = tmp[t]
  /\ StepTo(t, "write")
  /\ UNCHANGED <<tmp, pc, timer>> /\ KeepHost /\ KeepFpga

(* Load of the shadow and store to the register are one step.  Only the abort  *)
(* of 'q' overlaps another command, an abort too: a word stored later than it  *)
(* was loaded is the word of an abort that began later.                        *)
WriteRegister(t) ==
  /\ Writing(t, "write")
  /\ path' = Command(path, shadow)
  /\ IF Bits[pc[t]] = {} THEN StepTo(t, "load") /\ Goto(t, Then[pc[t]], 0)
                         ELSE StepTo(t, "reload") /\ UNCHANGED <<pc, timer>>
  /\ UNCHANGED <<shadow, tmp, dma, age, dirty, powerVars>> /\ KeepHost

ReloadShadow(t) ==
  /\ Writing(t, "reload")
  /\ tmp' = [tmp EXCEPT ![t] = shadow \ Bits[pc[t]]]
  /\ StepTo(t, "clear")
  /\ UNCHANGED <<shadow, pc, timer>> /\ KeepHost /\ KeepFpga

ClearShadow(t) ==
  /\ Writing(t, "clear")
  /\ shadow' = tmp[t]
  /\ tmp' = [tmp EXCEPT ![t] = {}]
  /\ StepTo(t, "load")
  /\ Goto(t, Then[pc[t]], IF pc[t] = "abort" THEN PollLimit ELSE 0)
  /\ KeepHost /\ KeepFpga

RegisterWrite(t) == LoadShadow(t) \/ StoreShadow(t) \/ WriteRegister(t)
                      \/ ReloadShadow(t) \/ ClearShadow(t)

--------------------------------------------------------------------------------
(* The mutex and the wait for ABORT_DONE, which ends after 1000 reads.       *)

\* Mutation: the mutex does not exclude.
AcquireAny(t) ==
  /\ At(t, "acquire")
  /\ AbortRunning' = t
  /\ Goto(t, IF t = "main" THEN "pending" ELSE "abort", 0)
  /\ KeepWrite /\ KeepFpga /\ UNCHANGED <<StopAbortThread, buffer>>

\* On a mutex that is gone AcquireOsMutex fails and the thread goes on.
Acquire(t) ==
  /\ At(t, "acquire")
  /\ AbortRunning \in {"free", "none"}
  /\ AbortRunning' = IF AbortRunning = "free" THEN t ELSE AbortRunning
  /\ Goto(t, IF t = "main" THEN "pending" ELSE "abort", 0)
  /\ KeepWrite /\ KeepFpga /\ UNCHANGED <<StopAbortThread, buffer>>

\* Mutation: an abort thread keeps the mutex.
ReleaseMainOnly(t) ==
  /\ At(t, "release")
  /\ AbortRunning' = IF AbortRunning = t /\ t = "main" THEN "free" ELSE AbortRunning
  /\ \E ticks \in IF t = "main" THEN {0} ELSE AbortSleep :
       Goto(t, IF t = "main" THEN "key" ELSE "check", ticks)
  /\ KeepWrite /\ KeepFpga /\ UNCHANGED <<StopAbortThread, buffer>>

Release(t) ==
  /\ At(t, "release")
  /\ AbortRunning' = IF AbortRunning = t THEN "free" ELSE AbortRunning
  /\ \E ticks \in IF t = "main" THEN {0} ELSE AbortSleep :
       Goto(t, IF t = "main" THEN "key" ELSE "check", ticks)
  /\ KeepWrite /\ KeepFpga /\ UNCHANGED <<StopAbortThread, buffer>>

\* Mutations: the abort is not waited for, or waited for without end.
AbortPollNoWait(t) ==
  /\ At(t, "abort_poll")
  /\ IF t = "main" THEN Goto(t, "hispi_clr", 1) ELSE Goto(t, "release", 0)
  /\ KeepWrite /\ KeepHost /\ KeepFpga
AbortPollNoLimit(t) ==
  /\ At(t, "abort_poll")
  /\ ~path.aborting
  /\ IF t = "main" THEN Goto(t, "hispi_clr", 1) ELSE Goto(t, "release", 0)
  /\ KeepWrite /\ KeepHost /\ KeepFpga

AbortPoll(t) ==
  /\ At(t, "abort_poll")
  /\ path.aborting => timer[t] = 0
  /\ IF t = "main" THEN Goto(t, "hispi_clr", 1) ELSE Goto(t, "release", 0)
  /\ KeepWrite /\ KeepHost /\ KeepFpga

(* An abort thread. *)

Start(t) == /\ At(t, "start")
            /\ StopAbortThread' = FALSE
            /\ Goto(t, "check", 0)
            /\ KeepWrite /\ KeepFpga /\ UNCHANGED <<AbortRunning, buffer>>

Check(t) == /\ Woken(t, "check")
            /\ Goto(t, IF StopAbortThread THEN "off" ELSE "acquire", 0)
            /\ KeepWrite /\ KeepHost /\ KeepFpga

AbortThread(t) == RegisterWrite(t) \/ Acquire(t) \/ Release(t) \/ AbortPoll(t)
                    \/ Start(t) \/ Check(t)

--------------------------------------------------------------------------------
(* The main thread: InitXGS. *)

MainGoto(place, ticks) == Goto("main", place, ticks) /\ KeepWrite

Begin == /\ At("main", "menu")
         /\ AbortRunning' = "free"                       \* CreateOsMutex
         /\ MainGoto("init", 0)
         /\ KeepFpga /\ UNCHANGED <<StopAbortThread, buffer>>

InitCheck ==
  /\ At("main", "init")
  /\ IF SENSOR_POWERUP_DONE
       THEN PowerCommand(FALSE, TRUE) /\ MainGoto("init_down", PollLimit)
       ELSE PowerCommand(FALSE, FALSE) /\ MainGoto("init_wait", 1)
  /\ KeepHost /\ KeepGrab

InitDown == /\ At("main", "init_down") /\ SENSOR_POWERDOWN
            /\ MainGoto("init_wait", 1)
            /\ KeepHost /\ KeepFpga

\* Mutation: the power-up is requested without the Sleep(100).
InitPowerUpAtOnce == /\ At("main", "init_wait")
                     /\ PowerCommand(TRUE, FALSE)
                     /\ MainGoto("init_poll", PollLimit)
                     /\ KeepHost /\ KeepGrab

InitPowerUp == /\ Woken("main", "init_wait")
               /\ PowerCommand(TRUE, FALSE)
               /\ MainGoto("init_poll", PollLimit)
               /\ KeepHost /\ KeepGrab

InitDone == /\ At("main", "init_poll") /\ SENSOR_POWERUP_DONE
            /\ MainGoto("setup", 1)
            /\ KeepHost /\ KeepFpga

\* A poll of the sequencer that gives up: exit(1).
PowerTimeout ==
  /\ \/ Woken("main", "init_down") /\ ~SENSOR_POWERDOWN
     \/ Woken("main", "down") /\ ~SENSOR_POWERDOWN
     \/ Woken("main", "init_poll") /\ ~SENSOR_POWERUP_DONE
  /\ MainGoto("failed", 0)
  /\ KeepHost /\ KeepFpga

\* The buffers are allocated and the registers set up.
Setup == /\ Woken("main", "setup")
         /\ buffer' = TRUE
         /\ MainGoto("acquire", 0)
         /\ KeepFpga /\ UNCHANGED <<AbortRunning, StopAbortThread>>

(* The grab loop.  The polls of SetGrabCMD and SW_snapshot give up after 16  *)
(* million reads, which a controller that still works does not reach.        *)

PollPending == /\ At("main", "pending")
               /\ \/ ~path.pending /\ MainGoto("params", 0)
                  \/ path.pending /\ dirty /\ MainGoto("rdy", 0)
               /\ KeepHost /\ KeepFpga

PollReady == /\ At("main", "rdy")
             /\ \/ path.phase = "armed" /\ MainGoto("snapshot", 0)
                \/ path.phase # "armed" /\ dirty /\ MainGoto("release", 0)
             /\ KeepHost /\ KeepFpga

NoKey == At("main", "key") /\ MainGoto("acquire", 0) /\ KeepHost /\ KeepFpga

\* Bound: after a kill during a grab a session has one abort thread.
KeyA == \E t \in AbortThreads :
          /\ At("main", "key") /\ At(t, "off")
          /\ dirty => \A u \in AbortThreads : At(u, "off")
          /\ pc' = [pc EXCEPT !["main"] = "acquire", ![t] = "start"]
          /\ KeepWrite /\ KeepHost /\ KeepFpga /\ UNCHANGED timer

KeyQ == At("main", "key") /\ MainGoto("abort", 0) /\ KeepHost /\ KeepFpga

--------------------------------------------------------------------------------
(* Leaving: HiSpiClr, DisableXGS, the buffers, DisableXGS again, the threads. *)

\* Mutation: the datapath is cleared at once.
HiSpiClrAtOnce == At("main", "hispi_clr") /\ MainGoto("hispi_on", 1) /\ KeepHost /\ KeepFpga

HiSpiClr == Woken("main", "hispi_clr") /\ MainGoto("hispi_on", 1) /\ KeepHost /\ KeepFpga
HiSpiOn  == Woken("main", "hispi_on") /\ MainGoto("disable", 1) /\ KeepHost /\ KeepFpga

(* First two registers are written over the serial link and read back: waits    *)
(* for SER_BUSY without a limit, for an FSM that ends each word on its own.  A  *)
(* register that reads back wrong ends the program, as Kill does.               *)
DisableXGS ==
  /\ Woken("main", "disable")
  /\ IF SENSOR_POWERUP_DONE
       THEN PowerCommand(FALSE, TRUE) /\ MainGoto("down", PollLimit)
       ELSE PowerCommand(FALSE, FALSE) /\ MainGoto("disabled", 1)
  /\ KeepHost /\ KeepGrab

DisableDown == /\ At("main", "down") /\ SENSOR_POWERDOWN
               /\ MainGoto("disabled", 1)
               /\ KeepHost /\ KeepFpga

MbufFree == /\ Woken("main", "disabled") /\ buffer
            /\ buffer' = FALSE
            /\ MainGoto("disable", 0)
            /\ KeepFpga /\ UNCHANGED <<AbortRunning, StopAbortThread>>

\* Mutation: the mutex is destroyed after 500 ms.
StopThreadsShort == /\ Woken("main", "disabled") /\ ~buffer
                    /\ StopAbortThread' = TRUE
                    /\ MainGoto("destroy", 5)
                    /\ KeepFpga /\ UNCHANGED <<AbortRunning, buffer>>

StopThreads == /\ Woken("main", "disabled") /\ ~buffer
               /\ StopAbortThread' = TRUE
               /\ MainGoto("destroy", DestroySleep)
               /\ KeepFpga /\ UNCHANGED <<AbortRunning, buffer>>

DestroyOsMutex == /\ Woken("main", "destroy")
                  /\ AbortRunning' = "none"
                  /\ MainGoto("menu", 0)
                  /\ KeepFpga /\ UNCHANGED <<StopAbortThread, buffer>>

MainThread ==
  \/ RegisterWrite("main") \/ Acquire("main") \/ Release("main") \/ AbortPoll("main")
  \/ InitCheck \/ InitDown \/ InitPowerUp \/ InitDone \/ PowerTimeout \/ Setup
  \/ PollPending \/ PollReady \/ NoKey \/ KeyA \/ KeyQ
  \/ HiSpiClr \/ HiSpiOn \/ DisableXGS \/ DisableDown
  \/ MbufFree \/ StopThreads \/ DestroyOsMutex

\* The application ends anywhere, by exit(1) or by the operator, and starts again: the
\* FPGA keeps its state, and the shadow is read back from it (the bits read 0).
Kill ==
  /\ pc["main"] # "menu"
  /\ pc' = [t \in Threads |-> IF t = "main" THEN "menu" ELSE "off"]
  /\ step' = [t \in Threads |-> "load"] /\ tmp' = [t \in Threads |-> {}]
  /\ timer' = [t \in Threads |-> 0]
  /\ shadow' = {} /\ AbortRunning' = "none" /\ StopAbortThread' = FALSE
  /\ buffer' = FALSE
  /\ dirty' = (dirty \/ path # AtRest \/ dma)
  /\ UNCHANGED <<path, dma, age, powerVars>>

--------------------------------------------------------------------------------
(* The FPGA and time.  The sensor ends an exposure and a FOT while it is     *)
(* powered; it need not when it was restarted in the middle of one.          *)

Alone(p)  == Arm(p) \cup Cancel(p) \cup EndReadout(p) \cup ForgetGrabs(p) \cup AbortDone(p)
Sensor(p) == IF SENSOR_POWERUP_DONE THEN StartFot(p) \cup EndFot(p) ELSE {}

GrabStep(paths) == /\ path' \in paths \ {path}
                   /\ dma' = (dma \/ path'.phase = "fot")
                   /\ age' = 0
                   /\ UNCHANGED <<hostVars, dirty, powerVars>>

Controller == GrabStep(Alone(path))
SensorAnswers == GrabStep(Sensor(path))

DmaEnds == /\ dma /\ ~path.readout
           /\ dma' = FALSE
           /\ UNCHANGED <<hostVars, path, age, dirty, powerVars>>

Sequencer == PowerStep /\ UNCHANGED <<hostVars, path, dma, age, dirty, xgs_power_good>>

Moving == path.phase \notin {"idle", "armed"} \/ path.readout \/ path.aborting

\* The thread has nothing to do before time passes or the FPGA moves.
Waiting(t) ==
  \/ pc[t] \in {"off", "menu", "failed"}
  \/ At(t, "acquire") /\ AbortRunning \notin {"free", "none"}
  \/ At(t, "pending") /\ path.pending
  \/ At(t, "rdy") /\ path.phase # "armed"
  \/ /\ timer[t] > 0
     /\ At(t, "abort_poll") => path.aborting
     /\ pc[t] \in {"init_down", "down"} => ~SENSOR_POWERDOWN
     /\ At(t, "init_poll") => ~SENSOR_POWERUP_DONE

Tick ==
  /\ \A t \in Threads : Waiting(t)
  /\ Moving \/ \E t \in Threads : timer[t] > 0
  /\ PowerSettled
  /\ ~dma \/ path.readout
  /\ Moving => age < FrameTicks \/ dirty
  /\ timer' = [t \in Threads |-> IF timer[t] > 0 THEN timer[t] - 1 ELSE 0]
  /\ age' = IF Moving /\ age < FrameTicks THEN age + 1 ELSE age
  /\ UNCHANGED <<pc, step, tmp, shadow, AbortRunning, StopAbortThread, buffer,
                 path, dma, dirty, powerVars>>

SessionNext == \/ Begin \/ MainThread \/ Kill
               \/ \E t \in AbortThreads : AbortThread(t)
               \/ Controller \/ SensorAnswers \/ DmaEnds \/ Sequencer \/ Tick

SessionSpec == SessionInit /\ [][SessionNext]_sessionVars

\* The system schedules every thread that can run and serves a mutex in order (Windows);
\* the FPGA and time go on.
SessionFairness ==
  /\ SF_sessionVars(Acquire("main"))
  /\ WF_sessionVars(MainThread)
  /\ \A t \in AbortThreads : WF_sessionVars(AbortThread(t))
  /\ WF_sessionVars(Controller) /\ WF_sessionVars(SensorAnswers /\ ~dirty)
  /\ WF_sessionVars(DmaEnds)
  /\ WF_sessionVars(Sequencer) /\ WF_sessionVars(Tick)

FairSession == SessionSpec /\ SessionFairness

--------------------------------------------------------------------------------
(* Properties. *)

SessionTypeOK ==
  /\ path \in Paths
  /\ shadow \subseteq GrabBits
  /\ AbortRunning \in Threads \cup {"none", "free"}
  /\ timer \in [Threads -> 0 .. PollLimit + DestroySleep]
  /\ age \in 0 .. FrameTicks
  /\ curr_power_state \in {"idle", "eclk", "ereset", "edelai", "done_ok",
                           "dreset", "dclk", "ddelai"}

\* A word written to GRAB_CTRL repeats no command of another thread and carries the
\* grab or trigger it is for, though the shadow has no lock of its own.
CommandsOwn ==
  /\ SessionTypeOK
  /\ \A t \in Threads : Writing(t, "write") =>
       /\ shadow \subseteq Bits[pc[t]]
       /\ pc[t] \in {"grab_cmd", "snapshot"} => shadow = Bits[pc[t]]

\* The software trigger finds its grab armed: no abort takes the grab away between
\* the read of TRIGGER_RDY and the write of GRAB_SS ("Waiting for second async thread
\* to finish the grab abort before start another grab").
SnapshotTaken ==
  At("main", "snapshot") /\ step["main"] \in {"load", "set", "write"} =>
    path.phase = "armed" \/ dirty

\* From the end of the abort of 'q' to the menu nothing is queued, exposed or read
\* out, though the abort races with those of the threads and its bit may be lost.
Leaving == {"hispi_clr", "hispi_on", "disable", "down", "disabled", "destroy", "menu"}
QuitIdle ==
  pc["main"] \in Leaving /\ ~dirty =>
    path.phase = "idle" /\ ~path.active /\ ~path.pending /\ ~path.readout

\* The datapath is cleared between frames and the buffer is freed when no frame can be
\* written to it any more: ABORT_DONE does not say so, the sleeps do.
FrameLeftAlone ==
  ~dirty => /\ pc["main"] \in {"hispi_on", "disable"} => ~dma
            /\ ~buffer => ~dma

\* DestroyOsMutex comes after the last use of the mutex by an abort thread, which may
\* have been about to sleep for 750 ms; a controller that is stuck makes it too late.
MutexOutlivesThreads ==
  AbortRunning = "none" /\ ~dirty => \A t \in AbortThreads : At(t, "off")

\* The sensor is never out of reset without its clock, up or down.
ClockUnderReset == xgs_reset_n_int => xgs_osc_en_int

\* InitXGS does not lose its power-up request, whatever a killed application left the
\* sequencer in ("Powerup done fail"): the Sleep(100) before it outlasts a power-down,
\* which goes through its steps in order.
PowerUpFound == ClockUnderReset /\ (At("main", "failed") => ~xgs_power_good)

\* The grab loop gets the mutex, its grab and its trigger again and again.
LoopGoesOn == At("main", "acquire") ~> pc["main"] \in {"release", "menu"}

\* 'q' ends in the menu, even when the controller no longer answers the abort.
QuitEnds == At("main", "abort") ~> At("main", "menu")
================================================================================
