# Formal model of the IRIS 4 camera FPGA (athena)

TLA+ models of the image path control of `src/athena/local_ip/XGS_athena` (the
acquisition controller that exposes and reads out the XGS sensor, the line
streamer between the sensor lanes and the pipeline, the image DMA that stores the
frames in host memory, the power sequencer), of the resource arbiter it shares
with the Ares FPGA, and of the camera software that drives them: a grab session
with its threads, and the update of the FPGA's flash. The modules are translated
from the VHDL and the C++; a definition keeps the name of the signal, state,
process or function it stands for, and `PROJECT.json` (`map`) gives its lines.

    tlc -workers 4 -config DmaPacked.cfg MCDmaEngine.tla
    tlc -workers 4 -config GrabSafety.cfg MCXgsController.tla
    tlc -workers 4 -config CameraQueue.cfg MCCamera.tla
    tlc -workers 4 -config LineStreamer.cfg MCLineStreamer.tla
    tlc -workers 4 -config HostSession.cfg MCHostSession.tla
    tlc -workers 4 -config FlashUpdate.cfg MCFlashUpdate.tla
    tlc -workers 4 -config Arbiter.cfg MCArbiter.tla
    tlapm DmaEngineProofs.tla          (and ArbiterProofs, DmaRefinementProofs,
                                        FlashUpdateProofs, LineStreamerProofs,
                                        XgsProofs, CameraProofs, HostProofs)

## 1. The system

Software (`XGS_Ctrl.cpp`) queues a grab: it writes the parameters and then
GRAB_CMD. The controller reprograms the sensor over its serial link, waits for
the trigger, exposes, and follows the frame overhead time (FOT) and the readout.
The sensor sends the frame over HiSPi lanes; the datapath turns it into an AXI
stream of lines; the DMA buffers the lines, cuts them into PCIe memory writes and
raises the end-of-DMA interrupt. At most one grab is active and one pending, so
that the exposure of a frame overlaps the readout of the frame before.

| Component | State it keeps | Operations | Talks to | What makes it correct |
|---|---|---|---|---|
| `axi_stream_in` | two FSMs, line pointers, distance counter, line contexts | store a line, back-pressure, hand a line over, retire it | stream; `dma_write` (`line_ready`, `line_transfered`, `start_of_frame`, `end_of_dma`) | no line lost or overwritten; queues agree; end of frame on the right line |
| `dma_line_buffer` | four line RAMs, context FIFO | write a beat, read, push/pop a context | the two FSMs | the FIFO is never over- or underrun |
| `mtxSCFIFO` | ring, two addresses, distance | push, pop, clear | its clients | relies on clients: nothing is refused |
| `dma_write` | control FSM, planes, offsets, addresses, TLP counters | send a line per plane, acknowledge it | `axi_stream_in`; PCIe core (`tlp_req_to_send`, grant, data) | each line once, whole, at its address |
| `dmawr2tlp` | register contexts of two queued grabs | load contexts on the controller's strobes | software, controller | a frame uses its own context |
| `xgs_ctrl` | grab, timer, trig and abort FSMs; grab flags; double-buffered parameters; readout counters | GRAB_CMD, trigger, exposure, FOT, readout, abort | software, sensor, serial link, DMA | no grab lost or repeated; a frame uses the parameters of its grab; no forbidden trigger edge; an abort always ends |
| `xgs_spi` | command FIFO, arbiter, link FSM | reprogram, read temperature, abort | `xgs_ctrl`, sensor | the sensor is programmed before the trigger |
| `XGS_controller_top` | strobe stretchers | wiring | all | strobes are seen in the other clock domain |
| `xgs_power` | power FSM, timers | power up / down | software, sensor | order of clock and reset; no request lost |
| HiSPi receiver (`xgs_hispi_top`, `lane_decoder`) | frame FSM, lane FSMs, line buffers over two clocks | start a frame, end a line, calibrate | sensor, streamer | lanes assembled into one line |
| `axi_line_streamer`, `line_buffer` | packing and stream FSMs, markers, pace counter, output FIFO; per lane four buffers and a count | wait for all lanes, cut the region, stream it | lanes, pipeline | every word of the region once, in order, marked; no start missed |
| pixel pipeline (trim, LUT, DPC, CCM, colour) | line delays | arithmetic | stream | pixel values, tlast and tuser in place |
| `pcie2AxiMaster` | TLP arbiter, register access, interrupt queue | grant, completions, interrupts | DMA, host | one TLP at a time; no interrupt lost |
| `arbiter` (both FPGAs) | state, REC and ACK per agent | REQ, DONE, abort of a waiting request | two software agents over the bus | one user at a time; no request lost |
| `flashupdate.cpp`, hex decoder | image, offset, retry count, result | erase, write, read back, retry | SPI flash | the golden image always boots; success means stored |
| test programs, `XGS_Ctrl`, `XGS_Data` | register shadows, mutex, threads, buffer | power up, grab, snapshot, abort, leave | controller, sequencer, datapath | commands are one's own; nothing in flight when its memory goes |
| rest of the `ares_pcie` FPGA, benches, vendor IP | – | – | – | outside the image path |

What is hard here: every block is several FSMs that read each other's registers
on the same clock, so that one missed or doubled clock matters; two queues
advance in parallel and are never compared; a handshake crosses in two registers
one way and one the other; software, triggers and aborts arrive on any clock; a
counter that is compared for equality may step over its end; and each frame
overlaps the next in the sensor, the controller and the DMA. In the software,
two threads share the shadow of a register without a lock, waits give up without
telling their caller, sleeps stand for events nobody waits for, and a killed
program leaves the FPGA and the flash in whatever it was doing. `hazards` in
`PROJECT.json` lists the places.

## 2. Modules

One step of a model is one rising edge of the clock of the block: each process
of the VHDL is a definition `...Step` that gives the next values of its
registers from the values before the edge, and a block is their conjunction.
A FSM is a disjunction of named transitions, one per branch of its `case`.

| Module | Models | State ↔ code |
|---|---|---|
| `MtxSCFIFO` | `mtxSCFIFO.vhd` | ring, address counters, distance, registered output; `Overrun`/`Underrun` are the reports of `P_FiFoError` |
| `AxiStreamIn` | `axi_stream_in.vhd`, `dma_line_buffer.vhd` | `WrStep`, `RdStep` are the two FSMs; a line is an identity in `line_buffer`; the context FIFO is an instance of `MtxSCFIFO` |
| `DmaWrite` | `dma_write.vhd` | `DmaStep` is the control FSM; a line is `LineTlps` TLPs of `TlpBeats` beats per plane; an address is plane, row and TLP |
| `DmaEngine` | `dmawr2tlp.vhd` and both ends: `y_trim.vhd`, `x_trim_streamout.vhd`; `pcie_tx_axi.vhd` | the stream (`Offer`, `SrcStep`), the TLP arbiter and host memory (`MayGrant`, `HostStep`), both at any pace; properties and fairness |
| `FrameTransfer` | – | what the DMA promises: a bounded queue of lines, delivered whole, once, in order; the frame ends after its last line |
| `DmaRefinement` | – | refinement mapping of `DmaEngine` onto `FrameTransfer` |
| `DmaInvariant`, `DmaEngineProofs` | – | the inductive invariant `IInv` of the engine's control, the assumption `ProperUse`, and the theorems |
| `DmaDataInvariant`, `DmaRefinementProofs` | – | the invariant `DataInv` of the data path, from the line buffers to host memory, and the proof that the engine implements `FrameTransfer` |
| `XgsSpi` | `xgs_spi.vhd` | FIFO, arbiter, FSM; a word of any length is one state left on `done` |
| `XgsCtrl` | `xgs_ctrl.vhd` | `GrabMngr`, `TimerMngr`, `TrigMngr`, `AbortStep` are the FSMs; the registered FSM outputs are functions of the state |
| `XgsController` | `xgs_ctrl` with `xgs_spi`, and the order of register accesses of `XGS_Ctrl.cpp` | software, sensor, trigger pin and DMA; properties and fairness |
| `Camera` | `dmawr2tlp.vhd` (contexts), `xgs_ctrl.vhd` (strobes), `XGS_athena.vhd` (wiring), `XGS_Data.cpp` (`SetDMA`) | extends `XgsController`; `ContextStep` is the two-deep context pipeline, `StrobeStep` its 4-clock strobes; the DMA is one frame that begins and ends (`DmaStep`); `grab_context` and `dma_frame` are history: the context each grab asked for |
| `GrabPath` | – | the grab as software sees it in GRAB_STAT: flags, readout, abort and a phase; what the controller promises |
| `ControllerRefinement` | – | refinement mapping of `XgsController` onto `GrabPath` (`ImplementsGrabPath`): the phase is the state of the grab manager |
| `XgsInvariant`, `XgsProofs` | – | the inductive invariant of the controller with its software and sensor, the theorems, and the proof that it implements `GrabPath` |
| `CameraInvariant`, `CameraProofs` | – | the same for the camera, on the invariant of the controller: strobes, contexts and their owners |
| `XgsPower` | `xgs_power.vhd` | `PowerCommand` is the clock of a register write, `PowerStep` the sequencer between writes; a delay is one step |
| `HostSession` | `test_0005_SWtrig_Random.cpp`, `XGS_Ctrl.cpp`, `XGS_Data.cpp`, `osfunctions.cpp` | one program counter per thread; `shadow` and `tmp` are the load and the store of a bit field; `timer` is a sleep or the polls left; extends `GrabPath` and `XgsPower`, so that a session runs on what `XgsController` is shown to implement |
| `HostInvariant`, `HostProofs` | – | the inductive invariant of a session, the times it needs (`Timely`), and the theorems |
| `LineStreamer` | `axi_line_streamer.vhd`, `line_buffer.vhd`, `xgs_hispi_top.vhd`, pulses of `lane_decoder.vhd`, HISPI.CTRL of `XGS_Data.cpp` | `Clock` is an edge of sclk; `Sof` and `LineDone` are the sensor on the clocks of the lanes; `hispi_ctrl` is how far `HiSpiCalibrate` is; a word is its line and its place; `clean` is history: the frame started in time and met no overrun |
| `LineStreamerInvariant`, `LineStreamerProofs` | – | the inductive invariant, `Control` and `Data`, and the theorems |
| `Arbiter` | `arbiter.vhd`, `ArbiterTest` of `Ares.cpp` | `ArbClock` is the process; `posted` the writes of an agent still on the bus |
| `ArbiterProofs` | – | the theorems of the arbiter |
| `SpiFlash` | external | the flash as the code relies on it: latch, busy, programming only clears bits |
| `FlashUpdate` | `flashupdate.cpp`, `IntelHexFormatDecoder.h` | `HostStep` is the program, one action per command or wait; a page is the unit of data; `golden`, `late` are history |
| `FlashInvariant`, `FlashUpdateProofs` | – | the inductive invariant of a reflash and the theorems |
| `MC...` | – | model-checking instances |

The pieces compose twice: `DmaEngine` and `Camera` put the controller and the DMA
together clock by clock, and `HostSession` puts the software on the abstract
controller, at the scale of its sleeps. Between the two stands
`ImplementsGrabPath`: whatever a session relies on in `GrabPath`, the four FSMs of
the controller do.

What stands around a modelled block may do all that the code in `src/` lets it
do, and more: the stream offers a beat or not on each clock, where `y_trim` and
`x_trim_streamout` follow the lines of the sensor, and ends a frame with any line;
`pcie_tx_axi` grants and takes data at any pace, where the code has an arbiter of
fixed priority and counts the dwords of a TLP; the sensor starts its
exposure after the trigger rises, its FOT after it falls, at any later clock, and
ends the integration inside the FOT, before the programmed FOT time is over.
Software follows `SetGrabCMD`, the snapshot and `GrabAbort`: one register access
at a time, parameters only while GRAB_PENDING = 0, then GRAB_CMD; a snapshot on
TRIGGER_RDY; nothing while an abort is waited for.

## 3. Runs

| Run | Question | Bounds |
|---|---|---|
| `DmaPacked` | no line overwritten, contexts with their lines, the delivery promised by `FrameTransfer`, and `IInv` (type, queues, handshake) | 4 buffers, frames of 1–5 lines: a frame longer than the ring, so pointers wrap and back pressure occurs; 1 TLP per line |
| `DmaPlanar` | every line at its place with 3 planes, bottom up; every frame is evacuated and the engine gets idle | 2 buffers, frames of 1–3 lines, 2 TLPs per plane |
| `GrabSafety` | `GrabStatusHolds` (ranges, flags, readout flag, what an abort leaves), parameters, triggers, reprogramming, overlap, and `ImplementsGrabPath` | six modes: edge, trigger-width, continuous, the last two also without overlap, and software snapshots with the dead window waited for before the trigger, fixed sensor registers and the FOT seen and not counted; 2 parameter sets with exposures 2 and 6, readout 12, FOT 2 |
| `GrabLive` | aborts and grabs end | one parameter set, with temperature reads |
| `CameraQueue` | each frame is stored with the DMA context of its own grab, with grabs queued, chained and aborted | continuous with and without sensor updates, and triggered by software; 3 contexts: the registers, the pending grab and the stored frame can all differ; exposure 3, FOT 2, readout 6 clocks, against 5 clocks of strobe |
| `LineStreamer` | the stream is the region of the frame, in order and marked; both FSMs in the same frame; the pace counter; the lanes keep a line until it is streamed; every frame that starts in time is streamed; also after late frames, overruns and with the interface switched off and on at any time | 2 lanes, so that they can be apart; regions of 5 lines (one more than a lane has buffers) and of 1, starting at and after the first word, 3 words wide, the least the assumption allows; a FIFO of 9 words, the three rows it ever holds (`xoutput_fifo` has 4096); one late frame in a row (`MaxLate`), without lines (`LateLines`) |
| `HostSession` | no thread writes the command of another or triggers a grab that was aborted; leaving finds the controller idle and the DMA done; the mutex and the sequencer; the loop and 'q' go on | 2 abort threads; ticks of 100 ms: sleeps of 5 and 8, 15 before the mutex goes, 10 for a loop of 1000 polls, 1 for the longest exposure, FOT or readout |
| `FlashUpdate` | the golden image survives, success means stored, updates are where they are looked for, the passes recover, a reflash ends | 3 sectors of 2 pages; five files: golden, golden without dual boot, an update with a gap over two sectors, one at an address no golden image names, one without its end; all four passes |
| `Arbiter` | one user at a time, the invariant (REC tells what the agent wants), hand-over, every request ends | 4 posted writes per agent: a request, its abort, a second request and its end |
| `CameraAbort`, `GrabPetWrap`, `GrabLevelAbort` | violations, see section 6 | `CameraAbort` as `CameraQueue`, continuous |

Frames are told apart by a parity bit: a frame starts on an idle engine, so two are
enough. Lengths in clocks (exposure, FOT, readout) keep the order they have in the
camera: an exposure shorter, and one longer, than the readout that is left when a
trigger may come, a FOT shorter than the readout. `CntrMod` stands for 2^29 and is
above every programmed length, so the readout counter wraps only by being
decremented at zero. The exposure counter is only compared for equality and stops
past the longest exposure (`ExposureCap`). `Sets` = 2 distinguishes the grab in
progress from the next one, and at most two are queued. `TRIGGER_OVERLAP_BUFFn` is
documented as not fully validated; the snapshot mode covers it nevertheless.

`Camera` rests on three assumptions about time, which the code does not enforce.
Software writes the DMA registers of a grab after it has read GRAB_PENDING = 0, and
that answer takes longer than the strobe that begins as the flag falls
(`PendingReadZero`); `SetDMA` alone does not look at the flag. The first line of a
frame reaches the DMA at least one clock after its readout begins (`FirstLine`),
when the second stage is being loaded; with `FirstLine` = 0 `FrameContext` fails.
And the DMA keeps up: a frame is begun before the next FOT begins, and stored before
it ends, after which its context is replaced (`MayMove`). A host that stalls longer
is outside the model. In `XgsController` the input `dma_idle` is free; in `Camera`
it is TRUE, as `XGS_athena.vhd:979` leaves it, and independent of the DMA.

`LineStreamer` rests on these: a region is at least three words wide, because the
markers of its first and last word share one register; and a pulse of a lane has
crossed before its next line ends. A start of frame may come at any time after the
lines of the frame before: it clears the counts of the lanes whatever the streamer
still does, as `lane_decoder.vhd:709` does, and an overrun stops nothing. What the
stream holds is claimed for frames that are `clean`, which start when the one
before has left the streamer (`Drained`, which the readout rate gives and nothing
checks; `frame_overrun_error` is not raised for the first frame that comes too
early) and meet no overrun. That the FSMs stay in the same frame and the
counters in their ranges is claimed for all frames. The late frame of the run
carries no lines; with `LateLines` = 2 and a single lane all five properties hold
too (a million states, four minutes), and the theorems leave both bounds free. The
output FIFO (`mtxSCFIFO`) is a sequence.

In `HostSession` a thread that can run does so before time passes, and the steps
between two ticks interleave freely. `dirty` records that the application was
killed during a grab. Nothing in its start aborts what the controller was doing,
the sensor is restarted under it, and the FOT it waits for may never come:
`SnapshotTaken`, `QuitIdle`, `FrameLeftAlone` and `MutexOutlivesThreads` are not
claimed for such a session (an abort that gives up after a second and a sleep of
750 ms outlast the 1500 ms before the mutex is destroyed), the others are. Such a
session has one abort thread. `xgs_power_good` is constant and the prompts of
`getch` are answered.

The load of the shadow and the store to GRAB_CTRL are one step (`WriteRegister`):
the only command that overlaps another is the abort of 'q', with the abort of a
thread, and a word stored late is the word of an abort that began later. The serial
writes at the start of `DisableXGS` are not modelled: they wait for SER_BUSY
without a limit, for a link FSM that ends each word by itself; only `QuitEnds`
rests on that.

In `FlashUpdate` a wait ends when the device is ready or at any time before, as
its timeout may. `SuccessMeansStored` and `RetryRecovers` speak of passes that
were read back: when `malloc` fails the code keeps the result it had, FPGA_SUCCESS
at first and FPGA_ERR_BADRDBACK of the pass before later. A device that is still
busy with an operation of a killed program ignores the commands of the first pass;
the read-back finds it and the second pass repairs it.

In `Arbiter` the bus keeps the order of the writes of an agent and a read does not
pass them. The fields REQ of both agents are never written on the same clock
(comment at `arbiter.vhd:79`): one bus carries both.

Deadlock is checked in all runs: a clock edge, or a start of the program, is
always possible.

## 4. Fairness

The clock always runs (`Quiet`: an edge on which no input moves). In the DMA, a line
once begun is sent to its end, because the sensor reads out on its own; the TLP
arbiter grants a TLP it is asked for, because the DMA is the agent of the highest
number and goes before the others (`pcie_tx_axi.vhd:124-144`), and the link takes
the data. A start of frame is never assumed. In the controller, the sensor answers
its trigger and ends the FOT, the serial link shifts its word, the DMA drains;
software commands and trigger edges are never assumed, so `GrabEnds` is checked with
TRIGGER_SRC = CONTINUOUS only. All fairness is weak: each input stays possible until
it moves, as the VHDL holds its request until it is answered.

In `LineStreamer` the clock runs with a consumer that is ready again and again,
and a lane ends the lines of a frame; a start of frame and the writes of HISPI.CTRL
are never assumed. In `Arbiter` posted writes arrive, an agent that asks goes on
polling and one that uses the resource lets it go; requests and aborts are never
assumed. In `FlashUpdate` only the program runs on (the waits time out by themselves): the
device need not finish anything. In `HostSession` the operating system runs every
thread that can run, time and the FPGA go on, the sensor answers while it was not
restarted during a grab; the one strong fairness is on the main thread's
`AcquireOsMutex`, because a Windows mutex is served in order of arrival. Keys are
not assumed.

## 5. Proofs

Eight modules hold theorems, about seven components. Each component has an
invariant that is inductive, proved with one lemma per conjunct or per group of
steps, and every property follows from it. The invariants were model-checked on
the instances of the runs before they were proved.

### The DMA: control

`DmaEngineProofs` proves, for every `MaxLines`, `LineTlps`, `TlpBeats`, number
of planes and row order, assuming `ProperUse`:

| Theorem | Statement |
|---|---|
| `Invariance` | `Spec => []IInv` |
| `CountersCount` | `Spec => LinesCounted` |
| `LinesKept` | `Spec => []NoLineOverwritten` |
| `ContextsKept` | `Spec => []ContextFifoSafe` |
| `ContextsMatch` | `Spec => []ContextOfLine` |
| `HandshakeHolds` | `Spec => []LineHeldInTransfer` |

`ProperUse` is what the software and the pipeline do: LINE_PTR_WIDTH is not 3,
the device is bus master, and a frame starts on an idle DMA. The first and the
last are needed (section 6); without bus mastering `dma_write` ignores the start
of frame and the input side waits for ever.

None of the properties is inductive. That a buffer is free when tready rises
needs the distance counter to be right, and therefore that the two pointers and
the context FIFO count the same lines (`QueuesAgree`); a line is retired on
`line_transfered`, so it needs the handshake to retire each line once
(`Handshake`); `Handshake` ranges over the state of `dma_write` and says where
the read FSM and the four handshake registers may be; a start of frame clears
the pointers, so it needs the three FSMs to be in the same frame (`SameFrame`);
and that a frame ends with its last line needs the contexts to be in the order
of the buffers with end of frame at the tail (`ContextsInOrder`). `Room` bounds
the stored lines by the state of the write FSM. `LinesCounted` says of every clock
that `distance_cntr` and the distance of the context FIFO move by the lines stored
less those released or read, as integers: neither wraps, and a start of frame,
which clears one of them and not the other, finds both at zero. There is one lemma per
conjunct (`HandshakeStep`, `SameFrameStep`, `QueuesStep`, `ContextsStep` and three for
the types); `RdMoves`, `WrMoves` and `NoSofMeanwhile` say which transitions are
possible and save each of them a case split over the product of the FSMs.

### The DMA: data and refinement

`DmaRefinementProofs` takes `IInv` from there and proves, under `ProperUse` and
`NoLineAssumption` (the value of an empty cell is no line):

| Theorem | Statement |
|---|---|
| `DataInvariance` | `Spec => []DataInv` |
| `FramesDelivered` | `Spec => []FrameInHost` |
| `EngineRefines` | `Spec => ImplementsFrameTransfer` |

The argument follows a line. `LinesInOrder`: the buffers, read from the oldest
one, hold the lines of the frame that are accepted and not retired.
`AddressOK`: the row of `dma_write` is the line it sends, although it counts
that line later than the read side retires it (`retired`); the address register,
the bytes left and the accepted header name the same TLP. `InHost`: the lines
retired are in host memory, and of the line under way the planes before this
one and the TLPs before this one. In the refinement the delivered sequence is
read back from host memory by a CHOOSE; `ViewHolds` shows from `DataInv` that the
abstract queue is then a run of consecutive lines (`View`), `RunAppend` and
`RunTail` say what storing and retiring do to such a run, and `StepRefines` maps
each clock to one action of `FrameTransfer` or to a stutter.

### The acquisition controller

`XgsProofs` proves, from `XgsCtrlAssumption` and `ControllerAssumption` (the ranges
of the constants, and the trigger-width mode with the hardware trigger only), for
every programming of the mode registers, every TRIGGER_DELAY, FOT_LENGTH and
READOUT_LENGTH, every table of exposure times, aborts at any clock, and a sensor
that answers at any clock:

| Theorem | Statement |
|---|---|
| `Invariance` | `Spec => []IInv` |
| `StatusHolds` | `Spec => []GrabStatusHolds` |
| `ParametersOfGrab` | `Spec => []FrameParameters` |
| `TriggersTaken` | `Spec => []TriggerTaken` |
| `TriggerKeptInReadout` | `Spec => NoTrigFallInReadout` |
| `Reprogrammed` | `~Temperature` gives `Spec => []ReprogrammedBeforeTrigger` |
| `NoOverlap` | if every mode without overlap sets SENSOR_REG_UPDATE, `Spec => []NoOverlapWhenDisabled` |

The two hypotheses are needed: section 6 names the counterexamples without them.
The programs of the repository never write
SENSOR_REFRESH_TEMP, and grab with SENSOR_REG_UPDATE set (`EnableRegUpdate`).

The four FSMs have no common counter or handshake: they are in step because each
reads the registered outputs of the others, a clock late. `Managers` lists the
pairs and triples of states they may be in together. Before its trigger
(`Waiting`) the grab manager finds the timer idle and the trig manager between
two exposures; a trigger on its way or cancelled there is `Delayed`, where
`abort_seq` tells the two apart; `Exposing` follows the grab to its FOT, apart
for the mode where the level of the trigger sets the exposure. `ExposureSeen` and
`FotSeen` tie these states to the monitors of the sensor, so that an exposure is
never attributed to the grab before.

That the trigger does not fall in a readout is a race of two counters, the
exposure and the readout of the frame before. `EndsAfterReadout` bounds what is
left of the one by what is left of the other from the clock the dead window is
over; it needs `CountersAgree`, as the dead window is computed with
`readout_cntr` and GRAB_READOUT cleared with `readout_cntr2`, and `ReadoutFlag`,
which says when that flag may be set. `GrabsQueued` relates the flags and the
double-buffered parameters to the grabs software asked for, `GrabManaged` says
that an accepted grab is never left without the grab manager, `LinkFollows` where
the serial link may be in each phase of the grab, and `AbortOrder` what each
state of the abort FSM has left behind.

It also proves

| Theorem | Statement |
|---|---|
| `ControllerImplementsGrabPath` | `Spec => ImplementsGrabPath` |

A clock of the controller is one write of GRAB_CTRL followed by at most two events
of `GrabPath`, an event of the grab and the end of a readout
(`ClockImplements`). The proof splits the clocks by what GRAB_STAT shows: the
start of a FOT, the FOT, its end, the two clocks of an abort that show, and all
others. The last are the only ones on which two things happen at once;
`PhaseMoves` says where the grab manager may go on them, and `BetweenFots`, a
lemma about `GrabPath` alone, that such a move is the write and the events. What
is needed from the controller is `GrabManaged` (an idle grab manager takes every
GRAB_CMD, so that the write of `GrabPath` and the FSM start the same grab) and that
`abort_seq` is only set under an abort.

### The camera

`CameraProofs` puts the DMA contexts on the controller, for any number of contexts
and all that `XgsProofs` is general in, from `CameraAssumption` (at least one context)
besides:

| Theorem | Statement |
|---|---|
| `CameraInvariance` | `CameraSpec => []CameraInv` |
| `FrameContexts` | `FirstLine > 0` gives `CameraSpec => []FrameContext` |
| `CameraImplementsGrabPath` | `CameraSpec => ImplementsGrabPath` |

The hypothesis is needed: with `FirstLine` = 0 the DMA may begin a frame on the
clock after its FOT, while `dma_context_p1` still belongs to the frame before; it
needs no more than one clock, which the run uses. `CameraInv` contains the
invariant of the controller, which a clock of the camera preserves by the lemma
that also proves `Invariance`, and so does the refinement by `ClockImplements`; what
GRAB_STAT promises does not depend on the DMA.

Whether a frame is stored with its own context is a question of when the edges of
two strobes fall. A strobe of four ORed bits has one rising edge for each event
only if it is down when the event comes; the first may still be up, when a
GRAB_CMD comes right after an EO_FOT that found no grab pending.

`SecondStrobe` follows the bits of the second strobe along the trig manager: five
clocks after EO_FOT it has not reached the next one, so every EO_FOT raises it. The
first strobe is different: a GRAB_CMD that finds it up raises no edge, and its
context is in the first stage all the same, because the registers are not written
while the strobe lasts (`FirstStage`; this is where `PendingReadZero` is used).
`FirstStrobe` says that the first stage is only loaded before the trigger of its
grab, so never between the trigger and EO_FOT (`NoneAhead`), and what the second
stage takes from it is the context of the grab in the FOT (`SecondStage`).
`ContextsQueued` ties the registers to the pending grab, so that the load at EO_FOT
finds the next context there. `NotBegun` says that the frame is not begun before
its stage is loaded.

### The line streamer

`LineStreamerProofs` proves, for every set of lanes, every set of regions and
every skew between the lanes, from `StreamerAssumption`:

| Theorem | Statement |
|---|---|
| `ControlNext` | `Control /\ [Next]_vars => Control'` |
| `PaceCounts` | `Spec => []PaceCountsRows` |
| `Invariance` | `Spec => []IInv` |
| `LinesHeld` | `Spec => []LineHeld` |
| `FramesWhole` | `Spec => []FrameWhole` |
| `OrderKept` | `Spec => []StreamInOrder` |

Both bounds of the run, `MaxLate` and `LateLines`, are free there: any number of
frames may start late, with as many of their lines as may be. `StreamerAssumption` says that a
region is at least three words wide (the markers of its first and last word share a
register), that the data phase reaches the word after it, and that the output FIFO
holds three of its rows: `xoutput_fifo` has 4096 words, a row of the widest sensor
fewer than 600.

The invariant has two halves. `Control` is inductive by itself, also through an
overrun, a late start of frame and a switch-off of the interface in the middle of a
frame, after which the data is lost but the FSMs must not be: the HiSPi FSM and the
packer are in the same frame or the first is switched off (`SameFrame`), the word
and pixel counters of a row are one linear function of each other (`RowCounters`),
`write_sync` holds the marker of the next word (`MarkerReady`), the two-bit pace
counter is the number of row ends between the packer and the consumer
(`RowsInFifo`), which is below three when a row begins, and the words in the FIFO
follow one another along their rows, so that their number is bounded by the rows
(`WordsInOrder`, `ThreeRows`). `Data` holds in clean frames: the region taken is the
one of the frame (`RegionTaken`), each lane holds the lines from the one being
streamed to the last it sent, each in the buffer of its number modulo four
(`LinesStored`), and the places of the words from the packer through FIFO, prefetch
register and output to the consumer are chained by `After` (`WordsFollow`). That the
last property needs the whole chain is why `StreamInOrder`, which only looks at the
output, is far from inductive.

### The host session

`HostProofs` proves two properties from `SessionAssumption` alone, so for any set of
abort threads and any times, over every kill:

| Theorem | Statement |
|---|---|
| `AlwaysInvariance` | `SessionSpec => []Always` |
| `CommandsAreOwn` | `SessionSpec => []CommandsOwn` |
| `PowerUpIsFound` | `SessionSpec => []PowerUpFound` |

and the others from `Timely`, which compares the sleeps of the program with what
they stand for:

| Theorem | Statement |
|---|---|
| `Invariance` | `Timely => (SessionSpec => []IInv)` |
| `SnapshotIsTaken` | `Timely => (SessionSpec => []SnapshotTaken)` |
| `QuitLeavesIdle` | `Timely => (SessionSpec => []QuitIdle)` |
| `FrameIsLeftAlone` | `Timely => (SessionSpec => []FrameLeftAlone)` |
| `MutexOutlivesTheThreads` | `Timely => (SessionSpec => []MutexOutlivesThreads)` |

`Timely` says that there are finitely many threads, K of them; that six times the
longest exposure, FOT or readout F are shorter than the poll of GrabAbort (1000
polls of 1 ms); and that the sleep s of a thread with K + 1 times F is shorter
than the `Sleep(1500)` before `DestroyOsMutex`. With F = 100 ms and s = 800 ms
that leaves room for five threads. It is sufficient; that it is necessary is not
claimed. `MCHostSession` assumes `Timely` of its constants, so that TLC checks
that the instance of the run meets it.

`Always` is inductive by itself. The shadow of GRAB_CTRL has no lock, and two
threads do write it at once, on 'q': what keeps commands apart is that the mutex
orders all writers but the aborts (`MutexHeld`), that all aborts write the same bit,
and that a thread left without the mutex by its destruction has written its abort
before the next session writes anything (`Straggling`). So the bits in the shadow are
always of the command a thread is writing, and nothing is left behind (`Shadow`).
`Sequence` gives the steps, clock and reset of the sequencer for each state, and
`PowerWaited` that it has settled when the `Sleep(100)` is over.

The rest is about time, and needs the controller. GrabAbort may return because its
poll gave up, so that an abort is through must follow from how long it takes:
`Moves` is the number of moves of the controller until then, each at most one F
long, `Within` compares them with the ticks that are left, and `AbortTaken` and
`LoopShared` say that a poll never runs out on a pending abort. `LeftIdle` carries
that from 'q' to the end of the program: nothing grabs any more, so the frame in
the DMA is the last one and the sleeps outlast it. `ThreadsEnd` bounds what the
threads still need when the mutex is about to go: one F for each thread that will
abort once more (`Askers`), what is left of the abort under way, and one sleep. These
parts are stated for a session that was not killed during a grab (`~dirty`), as
are the properties.

### The flash update

`FlashUpdateProofs` proves, for every device, every set of firmware files and
every number of retries, from `FirmwareFits`:

| Theorem | Statement |
|---|---|
| `Invariance` | `Spec => []IInv` |
| `GoldenSafe` | `Spec => []GoldenKept` |
| `UpdatesReachable` | `Spec => []UpdateReachable` |
| `SuccessStored` | `Spec => []SuccessMeansStored` |
| `SecondPassRecovers` | `Spec => []RetryRecovers` |

`FirmwareFits` is about the files and not about the program, which checks none of
it: a parsed image fits the device and is not empty, its base lies in it, its
first page is not a blank one (a header is not), and a golden image is bootable.
A wait may time out at any point, the program may be killed and restarted at any
label, and the device may still be at work from before.

`GoldenKept` is a statement about the pages of the flash; what makes it inductive
is that the operation in progress, possibly one of a killed program, touches no
page below the golden image's end (`Protected`), and that an update goes where
the golden header in the flash says, which is sector-aligned and past it
(`SectorAbove`, `UpdateReachableStep`). `SuccessStored` needs that what was read
back well is still there and that no operation can change it later (`ReadBack`:
the device is idle because a busy one answers the first read with something
else). `SecondPassRecovers` needs `InStep`: without a timed-out wait the second pass
finds an idle device (`Quiet`), so every command is taken and at each label the
pages below the offset are blank, or hold the image, with at most one operation
in progress and that one the last command.

### The arbiter

`ArbiterProofs` proves, for every `MaxPosted`, from `MaxPostedAssumption` alone:

| Theorem | Statement |
|---|---|
| `Invariance` | `Spec => []IInv` |
| `Exclusion` | `Spec => []MutualExclusion` |
| `RequestsRecorded` | `Spec => []RequestRecorded` |
| `HandedOver` | `Spec => HandOver` |

Mutual exclusion is not inductive because of what is on the bus: an agent that
has written DONE no longer uses the resource, but the arbiter does not know yet,
and its next REQ may already follow. `WritesAlternate` says that the writes of an
agent, read from what its REC says, alternate and end in what its program wants;
so a REQ never reaches an agent that holds or waits and a DONE never one that
does neither. With `RegistersDecode` (REC and ACK are functions of the state) and
`UserHasAck` this is preserved by each arrival, one lemma per kind of step.

### Only model-checked

- Liveness, in every module (`FrameCompletes`, `BackToIdle`, `FrameStreamed`, `FlashEnds`,
  `EveryRequestEnds`, `QuitEnds`, `LoopGoesOn` and those of the controller): fairness and
  ENABLED are outside the reach of the prover.
- `Parse`, the hex decoder, is a fold over the records of a file; what it returns
  for every file needs induction over data. The proofs take the image it returns.
- `PetWithinReadout` is not a theorem: it does not hold (section 6).

## 6. Where the code departs from what is said of it

Each of these has a run that ends in a counterexample (`findings` in
`PROJECT.json`).

1. `GrabLevelAbort`: in trigger-width mode an abort between the trigger and the
   exposure cancels the timer and trig managers, but not the grab manager, which
   waits for a FOT that never comes; ABORT_DONE is never set.
2. `GrabPetWrap`: a trigger delayed to the last clock of the readout meets
   `readout_cntr` = 0 and enters `wait_pet` as the counter wraps.
3. `CameraAbort`: the abort sequence ends by waiting for `dma_idle`, but the
   signal of that name in `XGS_athena` has no driver and stays at its initial
   '1'; ABORT_DONE is set while the DMA still stores the last frame. What keeps
   the software safe are its sleeps (`FrameLeftAlone`).

The modules also show these when their constants are set so. No run is kept for
them, and no run or theorem would catch them: the properties are claimed under the
assumption that is named, and a hazard of `PROJECT.json` about one of them names no
property.

- LINE_PTR_WIDTH = 3 (`line_ptr_width`) counts eight buffers, there are four line
  RAMs and four context words: `ContextFifoSafe` fails. The software programs 1 or
  2.
- With `SofWhenIdle` = FALSE a start of frame is accepted while the frame before is
  still being evacuated, and clears the pointers under it: `NoLineOverwritten`
  fails.
- With `Temperature` = TRUE a reprogramming request buffered behind a temperature
  read is not part of `busy` and the trigger overtakes it:
  `ReprogrammedBeforeTrigger` fails. The software does not read the temperature so.
- With SENSOR_REG_UPDATE = 0, the overlap disabled and a continuous trigger (a mode
  `GrabSafety` does not have) a grab from idle does not wait for the end of the
  readout: `NoOverlapWhenDisabled` fails.

Seen while reading, not modelled: `HiSpiCalibrate` counts both of its waits in one
variable up to a test for equality, so that after a timeout of the first the
second has none (`XGS_Data.cpp:174-204`); `test_0000_Continu.cpp` leaves its loop
on a HiSPi error without an abort and frees the buffer before it disables the
sensor; the read-back of `flashupdate.cpp` compares the last page whole, past the
end of an image that ends inside it; SetGrabMode(NONE) on 'q' only changes the
parameters of a next grab that never comes.

## 7. Not modelled, and the plan

Left out of the modelled blocks: SFNC trigger source and internal timer, strobe
and exposure pins, interrupts other than end of DMA, statistics, direct serial
accesses, byte-level TLP arithmetic; sync codes, CRC and bit alignment inside a
lane, `multi_line_buffer.vhd` (not instantiated); SENSOR_RESETN and the simulation
delays of the power sequencer; the other test programs, exposure and ROI
arithmetic, the tables of sensor registers. `PROJECT.json` (`components`) gives
the reason for each block that is not modelled.

Most of the C and C++ in the repository is not the camera's own logic: vendor
board support packages and drivers under `src/ares_pcie/bench/sdk`, generated
register headers (`regfile_*.h`), the XADC editor, and the memory and device
layers of the vendor (`mtxservmanager`, `milstring`). They hold no state of the
image path and are left out on purpose. The logic modelled here is mostly VHDL.

Next, in this order:

1. `TlpArithmetic`: dwords, byte enables and address steps of a TLP as operators,
   against a byte-wise reference over small payloads and alignments.
2. SFNC and the internal timer in `XgsCtrl`; the strobe outputs.
3. The interrupt queue and the TLP arbiter of `pcie2AxiMaster`; the tick table.
