# A TLA+ model of the ST-V core

This directory holds TLA+ specifications of `libretro-stv`, a libretro core for
Sega's ST-V arcade board derived from Mednafen's Saturn emulation
(`src/mednafen/ss/`), the TLC configurations that check them and proofs for the
TLA+ proof system. The specifications are written from the C++ code; each
definition that stands for code is listed with its source lines in
`PROJECT.json` (`map`).

The core emulates two SH-2 CPUs, the SCU, SMPC, VDP1, VDP2, the SCSP with its
68K, and the ST-V board. Most of it runs on one thread, the *emulation thread*
(called **main** below), driven by a list of timed events. Three parts of the
work can be given to threads of their own: the sound hardware, the drawing of
VDP1 command lists and the rendering of VDP2 lines. These hand-overs use
hand-written lock-free rings, counters and semaphores, have no tests in the
repository, and fail only under rare timings. They are modelled first, then
the event loop on which everything else depends, then the devices with the most
control of their own: the SMPC's command loop, VDP1's frame change, the
EEPROM and the saving of memories.

Contents: [1 The system](#1-the-system) ·
[2 Modules](#2-the-modules) ·
[3 Runs](#3-the-runs) ·
[4 Proofs](#4-proofs) ·
[5 Findings](#5-findings) ·
[6 Abstractions](#6-abstractions-and-what-is-not-modelled) ·
[7 Plan](#7-plan) ·
[8 Running it](#8-running-it)

## 1. The system

### Parts, state and operations

| Part | Where | State | Operations | Model |
|---|---|---|---|---|
| Sound thread and queue | `sound.cpp` | ring `SQ` with counters `SQ_Enq`/`SQ_Done`, main's view of the latter, a batched RUN slice, announced sleep and semaphore; time and output buffer of the 68K and SCSP | `SOUND_Update`, register writes, resets, `SOUND_Read16`, `SOUND_FlushOutput`, `SOUND_AdjustTS`, `SOUND_StateAction`, `SOUND_Init`, `SOUND_Kill`; push, flush, drain; the thread's loop | `SoundQueue`, `SoundInOrder`, `SoundWake` |
| SCSP main interrupt | `sound.cpp`, `scsp.inc` | the line, mailbox `SMainIntEvents` | `SCSP_MainIntChanged`, replay in `SOUND_Update`, states | `SoundInt` |
| SCU interrupt controller | `scu.inc`, `sh7095.inc` | inputs, pending bits, mask, A-bus prohibition, the offer to the CPU and its IRL | `SCU_SetInt`, vector fetch, writes to IMS, IST and AIACK, reset | `ScuInt` |
| VDP1 threaded instant drawing | `vdp1.cpp` | two framebuffers, command table and VRAM with frozen copies, drawing registers with copies, bands done, semaphore | `Update`, `SetHBVB`, register/VRAM/framebuffer accesses, `GetLine`, states, `SetThreaded`, `Kill`; the thread's passes | `Vdp1Draw`, `Vdp1Instant` |
| VDP2 render thread | `vdp2_render.cpp` | ring `WQ`, `DrawCounter`, line buffers `LIB`, the thread's copy of memory, the frontend's surface; row and `VCounter` of the line to come | writes, resets, `StartFrame`, `DrawLine`, `EndFrame`, `StateAction`, `Init`, `Kill`; the thread's loop | `Vdp2Queue` |
| Event scheduler and loop | `ss.cpp` | list of events, `next_event_ts`, `Running`, clocks of CPU and bus | `SS_SetEventNT`, `ForceEventUpdates`, `EventHandler`, `CheckEventsByMemTS`, `RunLoop`, exits, `RebaseTS` | `Events` (partly) |
| SMPC commands | `smpc.cpp` | the coroutine's place, pending and executing command, SF, Continue and Break, pending vertical blanking, pending switch of the slave | `SMPC_Update`, `SMPC_Write`, `SMPC_SetVBVS`, `SMPC_StartFrame`, `SMPC_ProcessSlaveOffOn`, reset | `Smpc`, `Events` (partly) |
| VDP1 frame change | `vdp1.cpp` | which buffer is drawn, which shown; FBCR, its latch, the pending manual change, erase areas and counters; copy of the command table with its tags | `SetHBVB`, `Update`, `GetLine`, register, VRAM and framebuffer writes, reset | `Vdp1Frame` |
| VDP1 command list | `vdp1.cpp` | list position, call return address, jump loop count | list walk | planned |
| VDP2 timing, SH-2 DMA event | `vdp2.cpp`, `sh7095.inc` | counters; DMA channels | line updates, end of the frame; DMA | as far as `Events`, `Smpc`, `Vdp1Frame` and `Vdp2Queue` need them |
| EEPROM | `ak93c45.cpp` | phase, opcode, address, bits left, data, busy time | `UpdateBus`, `ResetTS`, `Power` | `Eeprom`, `EepromChip` |
| Saved memories | `ss.cpp`, `cart/backup.cpp`, `file.cpp` | dirty flags and countdowns; files; rotating backups | load and backup, bus writes, states, the end of a frame, the save, closing | `Saves` |
| SCU DMA, timers, DSP | `scu.inc` | timer counters, three DMA channels | start factors, transfers, priority | planned |
| CD block | `cdb.cpp` | buffer partitions, audio ring | commands, sector transfer, `GetCDDA` | planned |
| ST-V I/O board | `stvio.cpp` | port latches, coin edges | port access | planned |
| Relaxed SH-2 synchronisation | `ss.cpp` | lag of the slave | catching up before an access | planned |
| SH-2, 68K, SCSP, DSP cores; pixel rendering; RAX; cartridges, decryption; database; front end; other Mednafen modules | | | instruction semantics, arithmetic, tables, I/O glue | not modelled |

### How the parts interact

* Main runs the CPUs until the head of the event list is due, and calls that
  event's handler. A bus access does the same *from inside* a CPU step. The
  handler may bring other devices up to date and move their events.
* The SOUND event calls `SOUND_Update`, which runs the sound hardware or queues
  the slice for its thread, and replays the thread's interrupt transitions into
  the SCU. Register writes are queued behind the slices. Whoever needs the
  hardware's state (samples at the end of a frame, saved states, the MIDI
  register) drains the queue first. Sound RAM is shared without
  synchronisation, by design.
* VDP2's line update tells VDP1 about blanking (`SetHBVB`), which swaps and
  fills framebuffers and starts lists. With threaded drawing the list is
  handed over with frozen copies of what it reads. Main waits for one *band*
  before it displays a row, for all bands before it touches anything else the
  thread uses.
* Each VDP2 memory write and each line is queued for the render thread, which
  has its own copy of memory and draws on the frontend's surface. At the end of
  a frame main waits for the lines, and for the whole queue before a state is
  saved or loaded.
* VDP2 also tells the SMPC of each new vertical phase. The SMPC's loop waits for
  it, for clocks, for the slave CPU to be switched by the run loop, and for the
  game; a register write brings it up to date first.
* The game reaches the EEPROM's three wires through an SMPC port of the I/O
  board. Its contents, the backup memory and a cart's memory are loaded from
  files at the start and saved at the end, the latter two also 3 seconds
  after a change.
* Reset, saved states and the closing of a game cut across all of them.

### What is hard

* **Interleaving and memory order.** Stale views of counters, sleeps announced
  and re-checked, wake-ups that may be missed, work done between two atomic
  steps of the other side.
* **Order.** Batched slices that must be flushed before anything that depends
  on them, transitions merged into three bits, register copies frozen during a
  draw, lines drawn long after they were issued.
* **Boundaries.** Counters that wrap, full rings, the last row of a band, the
  last event before a rebase.
* **Two clocks for one thing.** A line has a row on the surface and a number in the picture, and a
  reset in the middle of a frame starts only the latter again, with lines still queued.
* **Life cycle.** Threads stopped and started again with counters left from the
  last game, busy-waiting that outlives its frame, states saved and loaded
  between any two frames.
* **Things that take effect later.** An erase chosen at one blanking and carried
  out at the next, tags that mean "written this frame", a Continue bit that is a
  level, a vertical blanking remembered until the loop is idle.
* **Crashes and failures.** A process that dies with a file half written, a disk
  that is full, and a retry a minute later.
* **Re-entrance.** Event handlers that relink the list under the loop that
  walks it, and exits requested while another is under way.

`PROJECT.json` (`hazards`) lists each of these at its line with the properties
that cover it, and says why where none does yet.

### What correct means

* *Sound*: a slot is not overwritten before it is read; commands take effect
  in the order of their issue and at the emulated time of their issue; main is
  alone on the hardware when it touches it, and finds it as far as the inline
  path would have it; no wake-up is lost; each call returns.
* *Interrupts*: the SCSP's line, when high, reaches the SCU, and no interrupt is
  invented; the SCU holds none back that the CPU may take.
* *VDP1*: what the CPU, VDP2 and saved states see is what drawing in one go
  would show; no access overlaps the thread's; nobody waits for a dead thread.
* *VDP2*: each row shows the memory and the line data of its moment; the surface is given back
  untouched; states are complete; frames end without a timeout's help.
* *VDP1 frame change*: nothing shown changes under the beam, an erased buffer is
  clean when it is drawn on, a command's copy is old only for a reason.
* *SMPC*: commands do not overlap and all end; no report is overwritten unread;
  only a new blanking or a Break cuts INTBACK short.
* *EEPROM*: it does what its instruction set says, and takes its time.
* *Saved memories*: what is not waiting to be saved is on the disk; the last good
  content survives crashes; a change is saved in the end.
* *Events*: the list is ordered at all times, no event is overdue when a CPU
  runs, exits are prompt, no request is forgotten, no device goes back in time.

## 2. The modules

Conventions. Variables, constants and actions have the code's names where
TLA+ allows it. `mpc` is main's program counter and `spc`, `tpc`, `rpc` are the
threads' (`mainpc` and `threadpc` in `SoundWake`). `SoundWake`, `Vdp1Draw`, `Vdp1Frame` and
`Eeprom` name their specifications `SpecWake`, `SpecDraw`, `SpecFrame` and `SpecEeprom`, with
`InitWake`, `NextWake` and so on, so that a module of proofs can extend several. Each access to
memory that both threads use is a step of its own; work on private data is part of the step beside it.
A call of main that makes several shared accesses leaves a list, `todo`, which the following steps work
off. So main makes one call at a time, as in the code, and the thread may run
between any two accesses. *History variables* record what the code does not
keep and appear in no guard. Operators named `Bad...` are plausible bugs used
to confirm that a property can fail; no specification uses them.

### `SoundQueue` — the sound thread (`sound.cpp`)

| In the model | In the code |
|---|---|
| `SOUND_Update`, its three cases | `SOUND_Update` with a thread, starting one, and inline |
| `SOUND_Write(r)` | `SOUND_Write8/16` to a register, the resets, `SOUND_Set68KActive`, `SOUND_SetClockRatio` |
| `SoundThread_Drain(s)` then `DirectAccess` | the drain, then what its caller does to the hardware: `SOUND_Read16` (MIDI), `SOUND_FlushOutput`, `SOUND_AdjustTS`, `SOUND_StateAction` |
| `SOUND_Kill`, `Join`, `SOUND_Init` | flush, EXIT, `Thread_Wait`; the next game |
| `PushLook` … `PushPost` | `SoundThread_Push`: test against the old view, spin, slot, counter, look at the sleep flag |
| `Poll` … `Report` | `SoundThreadEntry`; 4000 polls of an empty queue are one |

`phase` is the place in the frame from which each call may come (`Emulate`
rebases and flushes at its end; states are saved, games closed and the machine reset by the
frontend between frames).
`mlast`, `owed` and the `at` of a register command are history: where the
hardware would be had each call run inline. They are what `CaughtUp` compares
the real hardware with.

**`SoundInOrder`** is the abstract channel: a list of commands issued and not
performed, in which a RUN behind a RUN may replace it. `SoundQueue` implements
it under the mapping `Outstanding` = ring, then commands of the call in
progress, then the batched slice (property `InOrder`).

**`SoundWake`** takes the ring, the announced sleep and the drain again with a
store buffer for each thread, which is what `memory_order_release` stores and
`memory_order_acquire` loads permit: stores appear in order, but later loads
may pass them. Semaphore calls empty the buffer.

### `ScuInt` — the SCU's interrupt controller (`scu.inc`)

One record, `scu`, holds its registers and the CPU's IRL; an interrupt is the
number of its bit.

| In the model | In the code |
|---|---|
| `SetInt` | `SetInt`: internal inputs latch a rise, those of the A-bus (16 and up) go through `ABusIRQCheck` |
| `CheckDoMasterInt`, with `Unmasked`, `Chosen`, `Level` | `CheckDoMasterInt`: masking with bit 15 for the whole A-bus, the lowest bit of each half, the two tables of levels |
| `SCU_MSH2VectorFetch` | the CPU takes the offer, and all is masked |
| `WriteIMS`, `WriteIST`, `WriteAIACK` | the register writes at 0xA0, 0xA4, 0xA8 |
| `Device` | `SCU_SetInt` from any other device, and the SCU itself |

`IVec` stands for `ILevel` too, since it is 0 exactly while nothing is offered; `IRL` is
kept apart, because the code sets it in a step of its own at each place, and the
two must agree.

### `SoundInt` — the SCSP's interrupt on its way to the SCU

It extends `ScuInt`, which does its steps whenever main is not inside
`SOUND_Update` (`Others`). `Changed` is `SCSP_MainIntChanged`, inline or posting
to the mailbox (a fall takes two atomic steps). `Exchange`, `ReplayRise` and
`ReplayFall` are the replay in `SOUND_Update`, each calling `SetInt`. `SaveState` and
`LoadState` have the queue drained; the SCU is saved, the mailbox is not. `edge`, `due` and
`stale` are history: whether the line really rose in the slice being replayed,
and whether a load left old events behind.

### `Vdp1Draw` — threaded instant drawing (`vdp1.cpp`)

Main's calls are lists of instructions (`wait`, `freeze`, `arm`, `publish`,
`post`, `fill`, `swap`, `line`, …), each one shared access;
`WaitDrawThreadBands` and `Spin` are the wait. The thread takes a token, saves
the registers (`Woken`), and for each band restores them (`BandPass`), draws
the rows (`DrawListPass`) and counts the band (`BandDone`). A row is the list of paints
since its last fill. A paint records the command table, texture memory, TVMR
and clip registers it was made with, so any mix-up of copies is visible.

**`Vdp1Instant`** is the abstract specification: the whole list is drawn
atomically with what VRAM and registers hold at that moment. `Vdp1Draw`
implements it when rows still unpainted are counted as painted with the frozen
data, and the registers as those the list will leave (property `InstantDraw`).
What main reads (`seen`) is part of the abstract state, so no reader can see a
row early. `MCVdp1Draw` gives the functions among the constants, and
the constraint of section 3.

### `Vdp2Queue` — the render thread (`vdp2_render.cpp`)

| In the model | In the code |
|---|---|
| `VDP2REND_Write`, `_StartFrame`, `_EndFrame`, `_StateAction`, `_Kill`, `_Init` | the calls of these names |
| `VDP2REND_Reset` | `VDP2::Reset`, at power-on and, through the SMPC's CKCHG, in the middle of a frame |
| `ActiveLine`, `BorderLine`, `BlankLine` | a line of `VDP2::Update`: the line buffer filled, `VDP2REND_DrawLine`, then `IncVCounter` at the line's HSYNC |
| `VDP2REND_DrawLine(vdp2, lib)`, `Wakeup` | that call: entry, wake-ups, `NextOutLine` |
| `PictureGoesOn`, `IncVPhase`, `Follows` | `IncVCounter`: the next line of the picture, or the next part of the field |
| `PushLook`, `PushSlot`, `PushPublish` | `WWQ` |
| `Poll` … `Pop` | `RThreadEntry`, which executes an entry where it lies and only then removes it |

A line has two numbers. `line` is its row on the surface (`CRTLineCounter`): it starts with the
frame, and the lines after the lower border have none (`VisibleLines` stands for that). `VCounter`
is its number in the picture: it starts with the picture *and at a reset of the VDP2*, which
leaves `line` alone, and it is `VCounter` by which main fills a buffer of `LIB` and by which
the thread finds it again (`LibLine`). `LIB` is handed over *outside* the queue, as the code does; what
main puts there is any value. So after a reset in the middle of a frame buffers are filled a second
time while lines queued before it may still wait to be drawn from them. A frame may end early.
`want` and `kept` are history: what each row shall show, and the row at which `VCounter` last
started.

### `Events` — the scheduler and execution loop (`ss.cpp`)

| In the model | In the code |
|---|---|
| `Earlier`, `Later`, `SetEventNT` | `SS_SetEventNT`: the two walks of the list, then `next_event_ts` |
| `StartLoop` | `RunLoop`'s outer loop: `SMPC_ProcessSlaveOffOn`, `Running = true` |
| `ForceFirst`, `ForceLast` | `ForceEventUpdates`, one event a step |
| `Turn` | one turn of the inner loop: the CPUs run up to a new time |
| `BusAccess`, `Access` | a bus access: `CheckEventsByMemTS`, then the device |
| `EventHandler`, `EventHandlerDone` | one event handled; leaving for the CPU, the outer loop or the end of the frame |
| `RebaseTS`, `NextFrame`, `Reset` | the rest of `Emulate`; a reset between frames |

`s` is one record because handlers are functions from the list to the list,
composed as the code composes calls: a VDP1 write first updates VDP2, whose
update may call SMPC and VDP1. Five events stand for eleven: SDMA (enabled only
while its CPU is, and itself a bus master), SMPC, VDP1, VDP2, MIDSYNC
(one-shot). `asked` and `turns` are history.

### `Vdp1Frame` — VDP1's frame change (`vdp1.cpp`)

| In the model | In the code |
|---|---|
| `Active`, `RightBorder`, `HSync` | VDP2's beam: the parts of a line, with `SetHBVB` and, on displayed lines, `GetLine` |
| `SetHBVB(u, hb, vb)` | `SetHBVB`, composed of the operators below in the code's order |
| `LatchTaken`, `EnterBlanking` | a latched FBCR takes effect; erasing in blanking begins |
| `Erased`, `LeaveBlanking`, `EraseChosen` | the end of blanking: buffers erased, exchanged, a list started, the next erase chosen |
| `IdleScanline` | the copy of the command table at the first line without a write |
| `EarlySwap`, `Composed` | the second place of exchange, for VDP1INSTANT |
| `Update`, `VDP2Update` | the list is drawn on; VDP2 brought up to date by an access |
| `WriteReg`, `WriteVRAM`, `WriteFB`, `Reset` | the game, between any two steps of the beam |

`v` is one record because `SetHBVB` is a composition of functions on VDP1's
state. A framebuffer is the set of rows that hold paint. `behind` is the set of
commands whose copy differs from VRAM, `fresh` those tagged with this frame.
The fields from `cut` on are history.

### `Smpc` — the command loop (`smpc.cpp`)

`ph` is where the coroutine `SMPC_Update` stopped (`SubPhase`); an action of
`Run` takes it from there to the next stop. `Idle`, `Start` and the actions
named after commands are its cases; `ContOrBreak`, `NoVB`, `Collect`, `More`
and `AbortDone` are INTBACK. `SetSF`, `WriteCommand` and `ContinueOrBreak` are
`SMPC_Write` from a game that obeys SF and answers a report once; `Stopped` is
the catching up in front of them. `Line`, `NextPhase` and `StartFrame` are
VDP2's vertical phases, `SMPC_SetVBVS` and the end of a frame.

### `Eeprom`, `EepromChip` — the AK93C45 (`ak93c45.cpp`)

`UpdateBus(cs, sk, di)` is the function of that name with any levels of the
pins; `Edge` is its switch over the phases, `Commit` the programming when the
chip is deselected, with `Memset` for all words at once, `Left` and `Over` the busy time.
`EndFrame` is `AK93C45::ResetTS`. **`EepromChip`** says what the chip does in terms of the
bits it has heard since it was selected (property `Reference`).

### `Saves` — memories that outlive a session (`ss.cpp`, `file.cpp`)

`Load`, `BackupWritten` and `CounterWritten` are the start, with
`MDFN_BackupSavFile`; `Write` and `StateAction` change memory; `EndFrame` is
the countdown in `Emulate`; `Open`, `WriteCell` and `Saved` are a save, cell by
cell; `SaveFails` is the exception, `Retry` what follows it; `Crash` may come
anywhere. `kind` chooses among the three ways in which files are written and
read; an EEPROM file cut short cannot be (`Loadable`). `good` and `loads` are history: the content at
the last clean end, and the sessions begun since.

### The proofs

| Module | Proves about | Section 4 |
|---|---|---|
| `SoundQueueProofs` | `SoundQueue`, and that it implements `SoundInOrder` | The sound queue |
| `SoundIntProofs` | `SoundInt` with `ScuInt`; `SoundWake` | The interrupt mailbox; Memory order |
| `Vdp2QueueProofs` | `Vdp2Queue` | The render thread |
| `Vdp1DrawProofs` | `Vdp1Draw`, and that it implements `Vdp1Instant` | Threaded drawing |
| `EventsProofs` | `Events` | The event list |
| `DeviceProofs` | `Smpc`, `Eeprom`, `Vdp1Frame` | The SMPC, The EEPROM, The frame change |
| `SavesProofs` | `Saves` | The saved memories |
| `ModArith` | the arithmetic of `%` for the three rings and the field's lines | |

Each module states its variables' types in `TypeOK` (`FrameTypeOK`, `EepromTypeOK`; in the
comments of its variables for `SoundWake`, and for the proof in `WakeTypes`). All are proved but
`EepromTypeOK`, which holds in the configuration of section 3 when it is added to it.

## 3. The runs

TLC checks safety and refinement with no fairness, and liveness under the
module's `FairSpec` (`FairSpecWake`, `FairSpecEeprom`).

| Run | Checks | Distinct states |
|---|---|---|
| `sound_queue` | `NoOverwrite`, `DirectAccessExclusive`, `NoLostWakeup`, `CaughtUp`; refinement `InOrder`; liveness `CallsReturn` | 1.02 million |
| `sound_int` | `HighNotLost`, `NoneHeldBack`; `NoSpurious`; liveness `HighArrives` | 805 000 |
| `sound_int_level` | violated: `LevelFollows` (section 5) | |
| `sound_wake` | `FetchesPushed`, `AccessSeesAll`; liveness `DrainReturns` | 15 700 |
| `vdp1_draw` | `Exclusive`; refinement `InstantDraw`; liveness `CallsReturn` | 835 000 |
| `vdp1_frame` | `NoGhosts`, `LagsOnlyLate`; `SteadyWhileShown` | 1.23 million |
| `vdp1_frame_stale` | violated: `OneFrameOld` (section 5) | |
| `vdp2_queue` | `SurfaceExclusive`, `FrameAsIssued`, `StateComplete`; liveness `EndsUnaided`, `CallsReturn` | 749 000 |
| `events` | `NothingOverdue`, `PromptExit`, `SwitchStops`, `RebaseHolds`, `DmaWithSlave`; `InTemporalOrder` | 472 000 |
| `smpc` | `SFTells`, `BlockKept`; `CutByNewBlanking`; liveness `CommandsEnd` | 16 800 |
| `eeprom` | `NeverEarly`; refinement `Reference`; liveness `BusyEnds` | 433 000 |
| `saves` | `Settled`, `LastGoodKept`; liveness `SavedInTheEnd` | 923 000 |

### What they show

* `sound_queue`: however the threads interleave, in any number
  of frames, games and states, the queue behaves as an ordered channel, and a
  drain leaves the hardware exactly where inline execution would. No timeout
  is needed for progress, given sequential consistency.
* `sound_wake`: with the memory order asked for, commands are read as pushed
  and a drained main sees their effects. Progress now *does* depend on the
  timeout of 1 ms: a push that races with the announcement of a sleep may be
  missed by both sides, in spite of the re-check (`sound.cpp:565-571`), as each
  side's store may still be in its buffer when it loads. Without the timeout
  (`BadSemTimeout`) `DrainReturns` fails.
* `sound_int`: no high level is lost, no interrupt is invented except by
  events of a timeline that a loaded state abandoned, and the SCU holds none back,
  however masks, fetches, acknowledges, other devices and resets come between.
* `vdp1_draw`: threaded drawing cannot be told from drawing in
  one go, by any reader, whatever is written during the draw.
* `vdp1_frame`: whatever a game writes and when, the beam meets no exchange and
  no erase ahead of it; erased buffers are clean; the copy of the command
  table lags only for commands written late (but see section 5).
* `vdp2_queue`: frames are those issued however far the thread lags, whatever resets of the VDP2
  come in the middle of them: a row always shows the memory it was issued with, and its line data
  too unless `VCounter` started again after it in the same frame (section 5). A frame that reached
  its last `BusyLines` rows ends without a timeout.
* `events`: re-entrant handlers leave the list ordered and nothing overdue;
  the two exits and the switch of the slave do not lose each other.
* `smpc`: a game that waits for SF never meets a command under way, and never
  waits for ever, whether it answers INTBACK or not.
* `eeprom`: any levels of the pins, in any order and at any time, have the effect
  the instruction set says.
* `saves`: crashes at any step and failing writes lose at most what was not yet
  saved, and a backup of the last good content is there for as many unclean
  sessions as there are backups. A memory that changes in *every* frame is not saved
  before the game stops changing it (the delay starts anew), and the EEPROM is
  saved only at the end: `SavedInTheEnd` is about the other two kinds.

### Bounds, and why they are enough

* **SoundQueue.** A ring of 2 with counters modulo 4 (`Wrap`) is full after two
  pushes and wraps at the fourth, so every combination of full, empty and
  wrapped is reached; the code's sizes, 2^14 and 2^32, have the same relation
  (`RingAssumption`), and the theorems hold for all such sizes. A batch of 2
  has a slice held back and a slice pushed. Frames of 1 or 2 slices (`FrameSlices`)
  let writes come before, between and after slices; frames repeat without
  bound. `SemCap = 1`: a token beyond the first only wakes a thread that finds
  nothing to do. `IBUF` is longer than a frame, as in the code, where a frame's
  samples fit. One register command is enough: the queue treats all alike, so
  two that are confused are confused for a RUN in some other behaviour.
* **SoundWake.** Five commands through a ring of two reuse each slot twice;
  the missed wake-up needs two.
* **SoundInt.** Two inputs (`Sources`), the SCSP's and one on the A-bus, take both ways
  through `SetInt` and each may be offered while the other is pending. The masks
  are none, each input alone and, after a fetch or reset, all. States are saved with
  the A-bus input low, nothing of it pending or prohibited, and nothing masked (`Quiet`,
  `SavedMasks`); they are loaded into anything. The rest is finite as it is.
* **Vdp1Draw.** Two bands are the least with a row displayed while another is
  drawn. Two contents tell a frozen copy from the current one, a rotated mode a
  register copy, two values of the clip registers what a pass leaves for the
  next. `OneKind` lets main bring in a second content, mode *or* clip only while
  the other two are alike; it constrains what calls and loaded states are,
  never the steps that follow. A row's paints need no bound: with VDP1INSTANT,
  drawing is started only behind a fill.
* **Vdp1Frame.** Two rows tell a row from the one before it. Four lines are the
  least with an idle line in and behind the display. Two commands tell one that
  is written from one that is not; one is enough for the violation. Fields and
  writes are unbounded. `InstantRowsAlike` leaves TVMR alone and paints
  all rows or none in VDP1INSTANT games, where no single row is ever erased.
* **Vdp2Queue.** Three rows with one busy-waiting row and a wake-up after two have every kind of row;
  pictures of two lines (`ActiveMin`, `ActiveMax`) leave the third to a border, to nothing, or to a
  line after a reset, which fills the buffer of the first row again. A ring of 2 is filled by one call of
  `VDP2REND_DrawLine` and the writes before it. Two values tell a memory, or a line's buffer, from
  another. `Paced` keeps the run small: main writes, or resets the VDP2, behind the first row and in
  blanking, and only if that changes memory; a line's data is made from the memory of its moment;
  there is no border above the picture. It constrains calls, never the steps that follow them, and the
  theorems assume nothing of it.
* **Smpc.** `MaxBlocks = 2`: a report after which another follows, twice, so the
  Continue bit is used in both senses. Otherwise finite.
* **Eeprom.** Addresses and words of two bits: an address has a first and a
  last bit, a read wraps from the last word to the first, and words differ.
  `MaxBits = 9` is an instruction with its data and one clock more, or a read of
  two words; the code's counter of bits wraps 256 clocks after the address, far beyond. An even
  number of data bits lets a word be two bytes. `MaxWrites = 1`: the words of a new chip differ, so what one
  programming changed, and what it left alone, can be read. `WriteTime =
  FrameTime = 2`: programming runs over the end of a frame unless it began with one.
* **Saves.** Two cells: a file may be half written. Two backups with three
  sessions after the last clean end are one more than `LastGoodKept` allows.
  Frames of 1 and 3 clocks against delays of 2 and 3 let the delay end exactly
  and with some over. `MaxChanges = 3`, `MaxFails = 2`: a change while
  a retry is due, and another after it. The system stops at these bounds
  with the process off, so this run does not ask for freedom from deadlock.
* **Events.** Frames of 3 ticks, with 2 of overshoot (`Slack`), delays of 1 or
  2 and turns of up to 2 let each device be called several times, events
  coincide, the bus run ahead of the CPU and the end of the frame come while
  anything else is pending. `TurnsCap = 3` is beyond what `PromptExit` allows.

### Fairness

Weak fairness of main's steps *inside* a call and of the thread's steps: the
operating system schedules both, and the spins of both yield or poll. No
fairness of new calls: a game may stop making any. The timed waits need not
time out, so progress is not owed to a timeout, with two exceptions where the
code relies on it: `SoundWake`, and `CallsReturn` of `Vdp2Queue`, which states
the assumption as its hypothesis because most pushes deliberately do not wake
the render thread. `SoundInt` assumes that the SOUND event recurs, which
`SOUND_Update` ensures by rescheduling itself. `Events` and `Vdp1Frame` claim no
liveness. `Smpc`: strong fairness of the coroutine, because events call it within
clocks, long before a vertical phase that it waits for is over (a line lasts
hundreds of clocks, a phase many lines); weak fairness of the beam, of
frames and of the run loop; of the game only that it writes the command
after it has set SF, never that it answers INTBACK. `Eeprom`: time passes, frames end, and a
game that waits for the chip polls it in each frame. `Saves`: frames and the
steps of a save go on; a process that dies is not owed a restart.

## 4. Proofs

Every safety invariant, action property and refinement that a passing run checks is also a
theorem, except the EEPROM's `Reference`. A run shows it for the constants of its configuration
and finds the counterexample when it is false; the theorem holds for every value that the named
assumptions admit. They are safety
proofs: an inductive invariant, and for the refinements a step simulation under it.

### The sound queue

`SoundQueueProofs` proves, for **every** ring size, counter width, batch, frame
length, set of register commands and setting:

| Theorem | States |
|---|---|
| `Invariance` | `Spec => []IInv`, the inductive invariant below |
| `TypeCorrect` | `[]TypeOK` |
| `RingSafe` | `[]NoOverwrite` |
| `Exclusive` | `[]DirectAccessExclusive` |
| `Complete` | `[]CaughtUp` |
| `WakeUp` | `[]NoLostWakeup` |
| `Ordered` | `InOrder` |

**Assumptions.** `RingAssumption`: `Wrap` is a multiple of `SQ_SIZE` and
larger (2^32 and 2^14; were the counter's range not a multiple of the ring,
slots would jump at the wrap). `FrameAssumption`: a frame makes fewer samples
than the output buffer holds. `BatchAssumption` and `SemAssumption`: at least
one. `CartAssumption` and `RegAssumption`: types, and RUN and EXIT are no
register commands. TLC evaluates all of them.

**The inductive invariant.** None of the properties is inductive by itself:
that a slot is free follows from main's old view of `SQ_Done`, that a drained
hardware is caught up from what every queued command will do. `IInv` adds

* `Control`: what main has left to push, and whether a slice may be held back,
  at each point of a call;
* `Window`: the true queue is never longer than main's view of it, which is
  never longer than the ring — the heart of `RingSafe`;
* `Sleep`: the announcement agrees with where the thread is, and
  `NoLostWakeup` itself;
* `Contents`: each queued command follows the one before it in time (a RUN not
  before, a register command exactly at the time its predecessor leaves);
* `Rest`, `Last`: the same for the commands of the call in progress and the
  held-back slice, whose end is where the inline path would be (`mlast`);
* `Samples`: samples made, and to be made by what is outstanding, are those of
  the inline path.

The proof has one lemma for each group of actions (`StepFetch`, `StepReport`,
`StepSlot`, `StepPublish`, `StepUpdate`, …) and `NextIInv` combines them. The
counter lemmas carry the arithmetic: `DistPush` and `DistPop` (a push or a
completion changes the distance by one, wrapped or not), `SlotFree` (the slot
at the rear is none of the queued ones if the queue is shorter than the ring),
`SlotRear` and `SlotSucc` (slots do not jump at the wrap). They rest on
`ModArith`.

**The refinement.** `Ordered` maps each step, under `Outstanding`, to a step of `SoundInOrder`
or to a stutter: a call appends its commands (`PushIssues`, `WriteRegisters`, `KillStops`), a RUN
is appended or put in the place of the one held back (`BatchAppends`), executing one takes the
head (`ExecutePerforms`), and what happens in between, down to the counter that is reported late, leaves
`Outstanding` alone (`SlotKeeps`, `PublishKeeps`, `ReportKeeps`, `DrainKeeps`). `Parts` says that
it is the ring, then the call, then the slice; it needs `Window` and `Contents` of `IInv`.

### Memory order

`SoundIntProofs`, for **every** size of the ring and number of pushes (`SizeAssumption`):

| Theorem | States |
|---|---|
| `PushedIsFetched` | `[]FetchesPushed` |
| `DrainSeesAll` | `[]AccessSeesAll` |

**The inductive invariant.** What a thread has in its store buffer, relative to memory.
`MainBuffer`: for each command that memory does not count yet, its slot and then its count, in
this order, the first slot perhaps gone ahead. `Ring`: a slot that is written holds its
command until the thread is done with it, counted by main's view of `SQ_Done`, which may lag.
`ThreadBuffer`: the effect of a command is right in front of its completion, and completions are
in order. So a completion that main sees has its effects in memory before it. The lemmas
`WrittenSlot` to `WrittenSleep` say what each kind of store does when it reaches memory.

### The render thread

`Vdp2QueueProofs` proves, for **every** size of the ring and of the semaphore,
number of rows and of busy-waiting lines, shortest and longest picture, line of the wake-up and set
of values:

| Theorem | States |
|---|---|
| `Vdp2Invariance` | `Spec => []IInv` |
| `Vdp2Types` | `[]TypeOK` |
| `SurfaceHeld` | `[]SurfaceExclusive` |
| `FramesShown` | `[]FrameAsIssued` |
| `StatesComplete` | `[]StateComplete` |

**Assumptions.** `RingAssumption` (a ring and a semaphore of at least one) and
`LineAssumption` (no more busy-waiting lines than rows), `ActiveAssumption` (a picture has two
lines at least) and `ValueAssumption` (border colour is no line data). The ring may be shorter
than a frame, or than one call: the argument does not use the 256K of the code.

**The inductive invariant.** Why does `DrawCounter = 0`, which is all that
`VDP2REND_EndFrame` waits for, mean that the frame is complete? The counter
goes up when a line is issued and down when one is drawn, with the ring between
them, so the invariant has to follow the ring. `Chained` says that there is a sequence
of memories `m` and of next lines `d`, one of each per entry, that begins with
what the thread has done (`mem`, `NextOutLine - DrawCounter`) and ends with what
main has issued (`main`, `NextOutLine`); each write changes `m`, each line
that is not drawn yet moves `d` by one and draws just what was issued: that row and
that memory. With
`DrawCounter = 0` the two ends of `d` meet, so nothing between them is undrawn,
whatever else is still queued. That `d` never falls is part of the invariant,
because it would take an induction to derive. `Debts` covers the call that main is
in the middle of, `Window` ties the two positions to the count (through
`ModArith`: `SlotFree`, `SlotNext`), `Painted` says that the lines before the
first undrawn one show what was issued. `Right` is about the line data, which does not pass through
the ring: a row queued since `VCounter` last started (`kept`) has its number in the picture `kept`
rows behind it, so no two such rows share a buffer, none has the one that main fills next, and each
buffer still holds what `want` remembers. A reset moves `kept` to the row to come, and `FrameAsIssued`
asks of the rows before it no more than their memory; border lines have no buffer.

### Threaded drawing

`Vdp1DrawProofs`, for **every** number and size of bands, set of contents, modes and clip
registers, and effect of a list on the latter:

| Theorem | States |
|---|---|
| `DrawTypes` | `[]TypeOK` |
| `ExclusiveHolds` | `[]Exclusive` |
| `DrawsInOneGo` | `InstantDraw` |

**Assumptions.** `BandAssumption`: there is a band, and the bands are consecutive, not empty, and
cover the rows. `DataAssumption`: types. `OneKind`, the constraint of the run, is not assumed.

**The inductive invariant.** Main's call is a list of instructions, so what is to come has to be in
the invariant too. `Plan` says what a list looks like: which instruction may follow which
(`Follows`: what touches the framebuffer or the registers comes right after a wait for the whole
draw, a row after a wait for its band), and at most one draw. `Setting` is what its
instructions rest on, `Ready` what the next one finds; `Thread` ties the thread's place, the
semaphore and `DrawBandsDone` together (at rest, told to stop, or drawing), `Pass` says which
rows and registers it is at, `Copies` which memory and mode it reads. `Exclusive` follows: an
instruction that touches anything has waited, so no draw is active. One lemma shows that
each call makes a `Plan` (`UpdateKeeps`, `SetHBVBKeeps`, …), one that each instruction and each
step of the thread keeps the invariant.

**The refinement.** `Shown` is the framebuffers with the rows still to be drawn counted as drawn.
Arming the thread is the step of `Vdp1Instant` that draws the list (`ArmDraws`): from here on its
rows count, with copies that nobody changes. All the thread's steps stutter (`RowStutters`: a row painted
leaves the rows to be painted); a row read by main is a painted one (`LineIsPainted`), since its
band, and all before it, are done.

### The saved memories

`SavesProofs` proves, for **every** size of memory, set of values, number of
backups, pair of delays, lengths of a frame and bound:

| Theorem | States |
|---|---|
| `SavesInvariance` | `Spec => []IInv` |
| `SavesTypes` | `[]TypeOK` |
| `SettledHolds` | `[]Settled` |
| `GoodKept` | `[]LastGoodKept` |

**Assumptions.** `CellsAssumption`, `BackupsAssumption`, `DelayAssumption` and
`BoundAssumption`: at least one cell and one backup, delays and frames that are
not zero. Nothing relates one delay to the other, or to a frame.

**The inductive invariant.** `Settled` says what holds with nothing marked or
delayed; to be inductive it needs `Prefix` (the cells written so far are on
the disk and are memory's, since nothing changes memory during a save) and has to
hold from the moment memory is loaded (`SettledSoon`). `LastGoodKept` is not inductive
either: it does not say *which* backup holds the good content, so the next
one might overwrite it. `Kept` does: a slot written `Age` backups ago is
younger than the number of sessions since the last clean end, so while that number
is within `Backups` it is not the next to be overwritten; or else no session has
touched the file yet. `Copied` and `Begun` are what `Kept` needs about the two
steps of a backup.

### The interrupt mailbox

`SoundIntProofs`, for **every** set of inputs, of masks written and of masks saved:

| Theorem | States |
|---|---|
| `SoundIntInvariance` | `Spec => []IInv` |
| `SoundIntTypes` | `[]TypeOK` |
| `HighKept` | `[]HighNotLost` |
| `NothingHeldBack` | `[]NoneHeldBack` |
| `NothingSpurious` | `NoSpurious` |

**Assumptions.** `SourcesAssumption` and `MasksAssumption`: inputs and mask bits are
those that exist, and the SCSP is one of them.

**The inductive invariant.** Three bits cannot hold a history of rises and
falls; what makes them enough is that anything posted for a line that is high
has both `rose` and `level` (`Raised`), so a fall is replayed under a high line
only with a rise posted behind it (`FallsLate`). `PostedWhy` accounts for each
posted rise: there was an edge, or the SCU's input will be high when the replay
under way has ended (`WillBeHigh`), so that the rise makes no interrupt, or it
is left over from before a loaded state. `ReplayedWhy` says the same of a rise
that was taken out.

The SCU's part, `Typed`, is `NoneHeldBack` with types, of the saved SCU too. One lemma for each of
its operators (`CheckKeeps`, `ABusKeeps`, `SetIntKeeps`, `ScuKeeps`) says that it
changes no other input, makes no interrupt of the SCSP's that was not owed, and leaves
nothing held back; they rest on `LowestIn` (a set of numbers has a lowest one) and `LevelType`
(every input has a level).

### The SMPC

`DeviceProofs`, for **every** number of reports (`MaxBlocks`):

| Theorem | States |
|---|---|
| `SmpcInvariance` | `Spec => []IInv` |
| `SmpcTypes` | `[]TypeOK` |
| `SFTellsHolds` | `[]SFTells` |
| `BlocksKept` | `[]BlockKept` |
| `CutOnlyByNew` | `CutByNewBlanking` |

**The inductive invariant.** `Busy`: SF is set from before a command is written
until it is over, and the places of the coroutine that belong to INTBACK are
reached by no other command. `Toggled`: the Continue bit differs from the value
waited for next, unless the game has changed it, at every place from which a
report can be written; `unread`, the last report not asked on from, goes with
that. `Noticed`: a vertical blanking that has not been taken up while there is a
command began after the command was written, because the idle loop takes one up
first.

### The EEPROM

`DeviceProofs`, for **every** size of words and addresses, programming time and
length of a frame: `NeverEarlyHolds` states `[]NeverEarly`. The invariant is
`Counted`: the chip counts down at least what is left of the programming time.
It may count longer, because the clocks between its last access and the end of
a frame are not counted (`ResetTS`), but never shorter.

### The frame change

`DeviceProofs`, for **every** number of rows, number of lines (at least two more) and command table,
and whatever a game writes between any two steps of the beam:

| Theorem | States |
|---|---|
| `FrameTypes` | `[]FrameTypeOK` |
| `GhostsNever` | `[]NoGhosts` |
| `LagsLate` | `[]LagsOnlyLate` |
| `DisplayIsSteady` | `SteadyWhileShown` |

**Assumptions.** `LinesAssumption`: there is an idle line in and behind the display.
`GamesAssumption`: the three kinds of game. `InstantRowsAlike`, the constraint of the run, is not assumed.

**The inductive invariant.** `NoGhosts` is about one moment, the exchange; what leads up to it takes a
whole field. `Heard`: VDP1's view of blanking is VDP2's, unless a reset intervened.
`Changing`: a change is pending only from the line at which the blanking ends to its border, so
never under the beam. `Erasing`: the erase is as far as the beam (`Displayed`), and no row behind it
holds paint; or the erase is one of those done in blanking, asked for or begun. `Lags`: a
command whose copy is old was written this frame, or late, or is one that the finding of section 5 is
about. There is a lemma for each part of `SetHBVB` (`LatchTakenIs`, `EnterBlankingIs`, `ErasedIs`,
`EraseChosenIs`, `IdleScanlineIs`, …), which `ComposedIs` and `SetHBVBIs` put together, and one
for each action.

### The event list

`EventsProofs`, for **every** length of a frame, overshoot, set of delays and length of a turn:

| Theorem | States |
|---|---|
| `TypesCorrect` | `[]TypeOK` |
| `ListStaysSorted` | the list holds each event once, in the order of the times |
| `NoEventOverdue` | `[]NothingOverdue` |
| `ExitIsPrompt` | `[]PromptExit` |
| `SwitchesAreMade` | `[]SwitchStops` |
| `RebaseIsSafe` | `[]RebaseHolds` |
| `DmaFollowsSlave` | `[]DmaWithSlave` |
| `DevicesInTemporalOrder` | `InTemporalOrder` |

**Assumptions.** `EventsAssumption`: frames, turns and delays are not zero, and no delay of a running
device reaches the time that stands for a disabled event. In the code that time is 0x7FFFFFFF,
two orders of magnitude above the longest delay; were one that long, a device would be cut off for good.

**The inductive invariant.** `Base`: types, and a list that is whole and in order. `Clocks`: the
bus is ahead of the loop only within a turn, and no device is ahead of the first event. `Heads`:
`next_event_ts` is the time of the first event (or 0), and events up to the loop's time have been
handled. `Forced`: how far a round of forced updates has come. `Exits`: what `Running` and the
exit asked for are at each place of the loop. Handlers call one another, so the argument is about a
relation: `Follows` says what any handler called at a time may do to the state (events stay or go
past that time, an exit is never taken back, the list stays whole), it is transitive (`FollowsOn`),
and each handler has a lemma that it keeps to it (`Vdp1Is`, `SmpcIs`, `Vdp2Is`, `DmaIs`,
`HandledIs`). Under these are the lemmas about lists: putting in and taking out (`InsertAtIs`,
`RemoveAtIs`, `Moved`), and that both walks of `SS_SetEventNT` find the place that keeps the order
(`EarlierIs`, `LaterIs`).

### What is not proved

**Only model-checked**: liveness (the prover has no ENABLED, and so no fairness), and the
refinement `Reference` with `EepromTypeOK`. `EepromChip` folds bits into numbers, and what a fold
computes for every input takes an induction over data, which the installed provers cannot do;
nor do they know that 2^n is a number above 0. `LevelFollows` and `OneFrameOld`
are false (section 5).

## 5. Findings

Two runs end in a violation, each of something a comment in the code says.

1. **`sound_int_level`** — `SMainIntEvents` is documented as "bit 0 = rose,
   bit 1 = fell, bit 2 = current level" (`sound.cpp:114`). A fall is posted in
   two atomic steps (`fetch_or(2)`, `fetch_and(~4)`, line 175). If the exchange
   in `SOUND_Update` comes between them, it sees the level bit set and does not
   replay the fall, and the second step finds nothing to clear. The SCU's input
   stays high with the line low, until the next transition. The next rise is
   then no edge for the SCU's latch. 8 states.
2. **`vdp1_frame_stale`** — "commands in the seam (~15/540) that weren't
   rewritten this frame → kept from the previous snapshot (1-frame-old but
   self-consistent)" (`vdp1.cpp:154-155`). When the idle line's copy of the table has
   been taken, the frame change only increments `VDP1FrameNum` (line 1526). A
   command written after that line, say in vertical blanking, is not copied at
   the change, and its tag is that of a past frame afterwards, so it is not
   copied at any later change either. It is drawn as it was
   until some write to the table makes the next idle line copy everything. 23 states.

Remarks that no run is about: a pulse inside one slice that starts with the
SCU's input still high leaves nothing to latch, where the inline path would
raise the interrupt again (`sound.cpp:114-116`). A latched FBCR overrides a
newer one written in the same display (`vdp1.cpp:1307`). Starting a list by
hand in a VDP1INSTANT game draws the copy made at the last change.
A reset of the VDP2 in the middle of a frame (CKCHG, `smpc.cpp:1206`) starts `VCounter` again
(`vdp2.cpp:963-964`) without waiting for the render thread, so the line buffers of this frame's
queued lines are filled again (`vdp2.cpp:502`, `vdp2_render.cpp:3055`): rows above it may be drawn
with the window state, rotation and sprite line of a row below it, depending on how far the thread
lags. The same happens if the game changes the vertical resolution in such a way that the end of
a frame is skipped and the next picture is drawn into it. Nothing in the repository promises
otherwise; `FrameAsIssued` says exactly which rows may be affected, and the invariant fails without
that exception. An EEPROM file that is cut short by a crash makes every later load of the game
fail, since only a missing file is accepted (`ss.cpp:1733-1734`).
`VDP2REND_Kill` does not clear its thread's handle as `SoundThread_Stop` and
`StopDrawThread` do. The EEPROM's command that writes all words does so with `memset`
(`ak93c45.cpp:104`), which takes the low byte of the data for both halves of each word;
nothing in the repository says what it should be.

## 6. Abstractions, and what is not modelled

* **Data.** The state of the sound hardware is the time it ran to, the last
  register command and the number of samples; VRAM and a command list are one
  value; a VDP2 memory is one value.
* **ScuInt**: the CPU fetches its vectors from the SCU, at any moment at which IRL is
  not 0 (its own mask and internal interrupts only delay that); automatic vectors, the slave's interrupt,
  the DMA that an interrupt starts and the timers' conditions are left out.
* **SoundQueue** and the other threaded modules interleave sequentially
  consistently; only `SoundWake` has store buffers. Sound RAM, which main and
  the sound thread share unprotected, and the CD block's audio ring are left out.
* **Vdp1Draw** covers the VDP1INSTANT path that threading requires. A list ends
  where main's walk of it ended (`LastJumpAddr` and `JumpLoopCount` are not
  modelled). `LATESWAP`, which the database gives to no game at present, the FBCR
  latch (to one game, which is
  not drawn instantly; see `Vdp1Frame`), and reads of registers by a debugger are left
  out. `SCU_CheckVDP1HaltKludge`, which may delay a draw, is a free choice.
* **Vdp2Queue** has for the beam only what gives lines their row and number: borders of any length
  and pictures of `ActiveMin` to `ActiveMax` lines, since resolution, PAL and interlace may change at
  any line; vertical synchronisation and the blankings around it are one part; a line's HSYNC comes with
  the line. A change of resolution may jump over the line at which the frame is ended. A line buffer is
  filled in one step, at which the thread may look at the old or the new value but not at half of it;
  only rows that may show later line data anyway could tell. Deinterlacing, which mixes a row with
  that of another field, is left out, and so is the case of a game whose loading fails, and with it
  a second `VDP2REND_Kill` (a hazard listed without a property).
* **Events** leaves out the SCU's DMA and DSP, sound, CD block, cart and
  master-DMA events (the DMA of the slave stands for bus masters reached from a
  handler, MIDSYNC for one-shot events);
  the packing of events in saved states; `SS_Reset` apart from what it does to
  the slave; and the relaxed synchronisation of the slave CPU, in which a
  device access may come from a CPU that lags. Devices' counters are abstracted
  to nondeterministic delays.
* **Vdp1Frame** has an erase area that is the whole framebuffer from row 0: an area
  that starts lower is erased ahead of its display, as a comment in `GetLine`
  admits. EDSR and LOPR, `LATESWAP`, VRAM5000FIX, interlace and the threads are left
  out; what a list paints is a free choice of rows.
* **Smpc** has one command for those done at once and one for those that take
  clocks; the effect of commands on other devices, the RTC, the reset button
  and NMI, the contents of reports, IR0WA and the ports' protocols are left out. A game
  that writes a command without looking at SF is outside the model.
* **Eeprom** leaves out `write_enable`, which the code sets and never reads (a
  write needs no enabling), and the unused values of registers.
* **Saves** takes the memories one at a time; their files are independent. RTC
  and SMPC memory, written only at the end, and a file system that
  loses what was written before a crash are left out.
* **Not modelled at all.** Cores, signal processing, pixel arithmetic,
  decryption and decompression are functions of data, and best tested by
  comparison. The SH-2 and SCSP recompilers generate code. The front end,
  database, file access, the thread primitives (thin wrappers of pthreads,
  modelled where they are used) and the serialisation format have little
  control of their own. Other Mednafen modules and vendored libraries are not
  part of this core's logic.

## 7. Plan

Done: the sound queue with its abstract channel and its proofs, the interrupt
mailbox with the SCU's interrupt controller, threaded drawing as a refinement, the render thread,
memory order, the event list, VDP1's frame change, the SMPC's loop, the EEPROM as a refinement, saves; proofs
of all safety properties of these but `Reference`, with the step simulations behind `InOrder` and
`InstantDraw`. Left, in order:

1. `Vdp1List`: jumps, calls, returns, the loop limit; main's walk against the
   drawing passes (a hazard without a property today).
2. `ScuDma`: start factors and indirect tables, composed with `ScuInt`; the timers.
3. `EventsPacker` in `Events` (saved states); relaxed synchronisation.
4. `StvIo`: coin edges and multiplexed inputs.
5. `CdAudio`: the audio ring between CD block and sound thread. VDP2's
   latches. RAX.

Proofs to come: those of the modules above as they are written; `EepromTypeOK`, once 2^n is
stated as a table the provers can use.

One configuration answers as many questions as it can, to keep the whole suite
within minutes.

## 8. Running it

    tlc -workers 2 -config SoundQueue.cfg SoundQueue.tla
    tlc -workers 2 -config Vdp1Draw.cfg MCVdp1Draw.tla
    tlapm SavesProofs.tla
    tlapm --summary Vdp1DrawProofs.tla

`PROJECT.json` lists each run's module and configuration, the source lines of
each definition, and for each property a plausible bug that breaks it.
