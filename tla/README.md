# Verification of the GBA emulator

TLA+ models of the emulator core (`src/core`, `include/gba/core`) and of the
desktop host (`apps/desktop`), the TLC configurations that check them, and
theorems with proofs checked by TLAPS. `PROJECT.json` maps every definition to
the source lines it models and lists the runs, mutants, findings, hazards and
theorems; this file explains them.

## 1. Inventory

The core is a sequential, deterministic machine: one thread steps the CPU and,
around every instruction, advances the devices by the cycles it took. What makes
it hard is *time*: the same cycle is seen by several devices, work is batched
(idle skips, IntrWait chunks, DMA bursts inserted into a window), and the result
must not depend on how the window was cut. It is also written with much
duplication: fast paths beside slow ones, Thumb beside ARM, writer beside parser
beside hash. The host adds files, a background writer thread, failures and
crashes.

| Component | State | Operations | Hard because |
|---|---|---|---|
| Atomic save files (`desktop_persistence.hpp`) | `<f>`, `<f>.tmp`, `<f>.old` | write_file_atomic, read_binary_file, backup_file, recovery at load | crash between two renames, every call may fail |
| Desktop save lifecycle (`desktop_app.cpp`, `async_save_writer.hpp`, `save_state_guard.hpp`) | running ROM, save memory, dirty snapshot, flush counter, writer job, `.sav`, `.state1` | load, switch, reset, flush, F5, F8, exit | stale snapshot, background writer, rejected ROMs, failed writes |
| Frame stepping and sessions (`android_runtime.cpp`, `core_session.cpp`) | clock and generation of the machine, rows collected, picture shown | step_frame, reset, load_rom, load_state, step | calls that stop in mid-frame, machines replaced between calls, every call must return |
| Timers (`timers.cpp`) | 4 counters, reloads, controls, start delays, cycle counter | write_reload, write_control, defer_newly_enabled_ticks, tick, save/load | cascades inside one window, start delay, window slicing, restore |
| PPU timing (`ppu_timing.cpp`) | line, cycle in line, DISPSTAT, frame count | tick, write_dispstat, recheck_vcount_match, save/load | edges inside one window, VCOUNT match edge, VBlank/HBlank order |
| Device advance (`core_scheduler.cpp` advance_devices) | all device clocks, pending cycles of DMA | split a window at PPU boundaries, DMA and timers inserted | DMA adds time which triggers DMA; termination; time accounting |
| DMA controller (`dma_controller.cpp`) | 4 channels, latches, pending immediate triggers | register writes, run_trigger, run_sound_fifo, save/load | writes that re-enter the controller, repeat and reload, priority |
| Sound unit (`apu.cpp`) | FIFOs, generators, mixer, sample ring | register writes, timer pops, DMA refills, tick, drain | buffers at their limits, left-over cycles |
| Instruction stepping (`core_scheduler.cpp` step_from_pc) | pc, latencies of a pending interrupt | fetch, cycles before the access, access, rest, immediate DMA, refill | an interrupt may enter at several points of a step |
| HLE BIOS: IntrWait, IRQ dispatch, long SWIs (`core_scheduler.cpp`, `bios.cpp`) | wait masks, interrupt frames, work frames | wait_for_interrupt_mask, dispatch/return, queue/advance | nested interrupts, chunks that must not cross a wake edge |
| CPU (`arm7tdmi.cpp`) | registers, modes, banks, flags | ARM and Thumb arithmetic, multiplier, transfers, calls, exceptions | mode and bank switches, interworking, edges of the arithmetic, two copies of everything |
| Memory bus (`memory_bus.cpp`) | RAM, video memory, ROM, save | loads and stores of 8, 16 and 32 bits | direct paths beside the byte path, mirrors, widened byte stores |
| Backup memory (`memory_bus.cpp`) | Flash, EEPROM, SRAM protocol state | the command sequences | protocol states, banks |
| IO registers, interrupt controller, keypad (`io_registers.cpp`, `interrupt_controller.cpp`, `keypad.cpp`) | IE, IF, IME, KEYCNT, keys, WAITCNT | halfword and word access, requests, acknowledgements | merging, write-one-to-clear, level against edge |
| Save-state codec (`save_state_codec.cpp`) | byte format v3..v6 | encode, decode_into | three orders of the same fields, transactional decode |
| Renderer, wait states and timing tables, BIOS arithmetic | | | data path only, section 7 |

How they interact: `CoreScheduler::step_*` executes one instruction and calls
`advance_devices(cycles)`, which ticks timers, serial clock, APU and PPU
interval by interval, calls the DMA controller at HBlank, VBlank and sound
timer overflows, and adds the bus cycles of the transfers to the time that
passes. Devices set bits of IF; the scheduler takes a pending interrupt between
two instructions (or, in a fitted case, before an access) and, with the
high-level BIOS, plays the BIOS's part of the dispatch itself. DMA writes and
CPU writes both go through the memory bus and the IO registers into the
devices. `AndroidRuntime` steps a `CoreSession` to the next frame boundary and
collects the lines that the scheduler presents. The desktop host drives it frame
by frame, and after each frame compares the cartridge save memory with its last
snapshot and writes `<rom>.sav` through `write_file_atomic`; save states are
encoded and written by a worker thread.

What makes each part correct, in a sentence: a save on disk is never lost or
replaced by something the player did not write; what is shown is one frame of the
machine that runs; a window of time does the same however it is cut; no edge
(HBlank, VBlank, VCOUNT, overflow) is lost or seen twice; a DMA channel that is
enabled can fire and one that is done does not fire again; a sound buffer loses
only its oldest samples; an interrupt handler returns to what it interrupted,
which goes on with the instruction that was due; a wait returns in the cycle its
interrupt comes; a state file restores its machine or nothing; the fast and the
slow path, the ARM and the Thumb form of the same operation agree; and every
call returns.

## 2. Modules

| Module | Models | State and actions against the code |
|---|---|---|
| `SaveSlot` | what a file write promises | one slot; `Begin`, `Commit`, `ReturnTrue`, `ReturnFalse`, `SlotCrash` |
| `SaveFile` | what a write can leave of a file and of its `.old`, as a caller finds them | `Readied`, `AfterWrite`, `AfterFailure`: sets of pairs, without the calls that lead to them |
| `AtomicWrite` | `persistence::write_file_atomic`, and the orphan recovery of `load_rom_from_path` | `target`, `temp`, `backup` are the three names of a file; `pc` is the next file-system call, each one an action that may fail; `Crash` between any two. `OutcomesAreKnown` says that it leaves the pairs of `SaveFile` and no others |
| `DesktopSession` | `DesktopApp` (load, switch, reset, flush, F5, F8, exit), `AsyncSaveWriter`, `load_save_state_for_session` | one action per call made by the event loop; the writer thread is an action of its own; a write of a `.sav` or of a state is one step with the outcomes of `SaveFile`, the failed and interrupted ones included; `adopted`, `lost`, `seen`, `requested`, `confirmed` and `blanks` are history |
| `FrameStepping` | `AndroidRuntime::step_frame`, `capture_scanline`, and what the host does between calls | `call` holds the local variables of a call, `raster` the lines collected, `seen` what the presentation check compares; a row is known by the machine and the frame it shows; `stuck` is the one step that neither counts nor takes time, a refused return from an interrupt |
| `Timers` | `timers.cpp`, and the timer horizon of the BIOS waits | registers and latches of the four timers; `tick` in closed form (at which cycles of a window a timer is incremented and overflows) |
| `TimersLoop` | the same `tick` with the loops of `increment_timer` and `handle_overflow` | compared with the closed form in every state |
| `PpuBeam` | the arithmetic of `PpuTiming::tick`, as edges in a window and as the loop of the code, and the display horizon of the waits | pure operators |
| `DeviceAdvance` | `advance_devices`, with DISPSTAT writes and acknowledgements between windows | EXTENDS `PpuBeam` with a timer, the serial clock and the DMA triggers; `loop` holds the local variables of the call |
| `IntrWait` | `wait_for_interrupt_mask` and its horizons | EXTENDS `DeviceAdvance`; a chunk is a window |
| `DmaController` | `dma_controller.cpp` | one step per scanned channel and per unit, because a unit may write DMA registers |
| `LossyQueue` | what a sound buffer promises: first in, first out, oldest forgotten | one sequence; a step clears, takes one and gives some |
| `Apu` | `apu.cpp` and the sound part of the scheduler | the FIFOs and the ring keep their slots, heads and counts as the code does, and refine `LossyQueue`; a register write, overflow, refill, tick or host read is one action |
| `HleIrq` | `service_pending_irq`, `dispatch_hle_irq_vector`, `dispatch_hle_irq_return`, `queue_hle_work`, `advance_hle_work`, the latencies of an interrupt | operators on the machine, a record; link address and saved registers are named by the context they belong to, `stack` and `kept` are what the program itself relies on |
| `InstructionStep` | `step_from_pc`, `step_arm`, `step_thumb` and their order of fetch, access, DMA, refill and interrupts | EXTENDS `HleIrq`; the program is free, a step is one action with an event in one of its phases |
| `FlashChip` | what the Flash chip promises: its commands as a table of writes and their effects | pure operators over a chip `[cells, typed, idMode, bank]` |
| `BackupMemory` | the save of `MemoryBus`: SRAM, Flash and EEPROM | `type`, `data`, `cmd`, `id`, `bank` are the five fields of the class; one action per host call and per kind of write; `WriteFlash` is the switch of `write_flash_byte` |
| `IoRegisters` | `io_registers.cpp`, `interrupt_controller.cpp`, `keypad.cpp` | a register of each kind the facade tells apart: stored, read-only, unreadable pair, word port, IE/IF/IME, KEYCNT, WAITCNT |
| `MemoryBus` | `memory_bus.cpp` | EXTENDS `BackupMemory` and `IoRegisters`; byte path and direct paths are separate operators, as in the code |
| `RegisterFile` | what a program assumes of banked registers: each mode names physical registers | pure operators over a file `[mode, regs]` |
| `RegisterBanks` | the banked registers of `Arm7tdmi` | `cpu` holds `registers_` (`live`), the R8-R12 copies (`high`) and the R13/R14 slots (`slot`); `spsr` the mode bits of the saved PSRs; one action per kind of instruction that changes mode or reaches another bank |
| `Alu` | the barrel shifter, data processing, flags and conditions, ARM and Thumb | each operation as the code computes it, beside integers (`ArithmeticIsExact`) and beside one-bit shifts (`ShiftsAreRepeated`): `DataProcessingIsExact` |
| `Multiplier` | `execute_multiply_long` and the Booth multiplier it runs for the carry flag | `product` and the carry-save words |
| `CallReturn` | BL, BX, SWI, interrupts and the returns, in both states | link registers, T bit and saved PSRs; `stack` is what the program expects to come back to |
| `DataTransfer` | LDR, STR, LDM, STM, SWP and the Thumb forms | memory with RAM, ROM and a region without answer; ARM and Thumb forms are separate operators |
| `SaveStateLayout` | the fields in the order of the writer, of the parser and of the hash | three enumerations, each transcribed from its own code |
| `SaveStateCodec` | `encode`, `decode_into` and the versions | a file is a sequence of bytes; `Damage` changes it, `DecodeInto` commits or refuses |
| `HostProofs`, `DesktopSessionProofs`, `TimersProofs`, `DmaSoundProofs`, `IntrWaitProofs`, `InstructionStepProofs`, `MemoryBusProofs`, `CpuProofs` | theorems about the modules they extend | see section 5 |

The `MC*` modules give values to constants. `MCHost`, `MCDmaSound`, `MCMemoryBus`
and `MCCpu` put specifications side by side that share no state: one moves while
the others rest where they start, so such a run explores the states of each and
not their product. A definition whose comment starts with `BUG:` or `A fault:`
is not part of a model, and neither is one that only `PROJECT.json` names under
"mutants": it is a plausible mistake in the definition that follows it, put in
its place to show that the property named there notices.

Abstractions worth knowing. File contents are values of a set; the `.sav` of a
game is a version number with its owner. Timer counters have a small modulus and
divisors, the frame has a few lines of a few cycles, and a DMA transfer is its
units and cost: the code uses these numbers only through comparison, modulo and
division, which the models keep. `scheduler_cycles_` counts modulo a frame in
`DeviceAdvance`; it is 64 bits wide in the code and is only used modulo a frame
or in differences. The latencies of an interrupt are constants in the order of
the fitted ones (`MCLatency`); how long an instruction takes is free. In
`BackupMemory` one bit stands for a byte, because programming is a bitwise AND
and erasing sets every bit. A byte of `IoRegisters` has the two bits that matter
of its register, and a bank of `MemoryBus` has `Span` bytes. A word has 4 bits in
the instance of `Alu` and 8 in that of `Multiplier` (one Booth digit a cycle; the
code takes four); a byte has four values in `DataTransfer` and in
`SaveStateCodec`. In `SaveStateLayout` an array is two of its elements, and the
hash has no collisions. In `RegisterBanks` an instruction is the values it
writes.

## 3. Runs

Run a configuration with `tlc -config <cfg> <module>`; all of them end within
three minutes with two workers.

| Run | Instance | Shows |
|---|---|---|
| `host` | three byte vectors, so that the old, the new and a stale content differ; one game, two contents, a flush period of 2, with switches, both outcomes of a reset, F5, F8, crashes and ROMs the engine rejects; two visible lines of three, steps longer than a frame | with every file-system call failing (`exists()` answers truly) and a crash between any two, a write implements `SaveSlot` (`AtomicReplacement`) and leaves its files as `SaveFile` says (`OutcomesAreKnown`); progress that stays in memory reaches the disk although writes fail, unless F8 or F9 declares it clean (`PlayIsFlushed`); what is published is one frame of the running machine (`PublishedIsWhole`); every step_frame returns, or repeats a return that was refused (`FrameEnds`) |
| `desktop` | three games, two of them with saves, two contents each, a flush period of 2 frames. An execution has some of the games (`owned`): the two with saves, with ROMs the engine rejects, saves a reset refuses and resets that lose the machine; or one with a save and the one without, with F5, F8 and the writer | saves stay with their ROM (`Ownership`); a save the process has never seen is not overwritten (`NoBlindOverwrite`); a switch keeps progress (`SwitchKeepsProgress`); F8 loads what the last successful F5 captured, or finds no file while that state is beside it as `.old` (`LoadSeesLatestSave`); a blank memory replaces progress only after a reset that lost the machine (`BlankOnlyAfterLoss`) |
| `timers` | three timers, so two cascades; divisors 1 and 2; modulus 2; windows up to 3 cycles | window slicing and restoring are invisible, the wait horizon stops at overflows, and the loops of the code compute the closed form |
| `waits` | 3 lines (2 visible) of 3 cycles, HBlank transfers longer than a line, VCOUNT on and beyond the frame, chunks of 3 cycles and a limit of two frames | the loop sees every edge once, clock and display stay together, lines are presented once and before their HBlank transfers, a wait returns in the cycle its flag is set, every call returns |
| `dma_sound` | channels 0 and 1 (one of them a sound channel), counts of one and two units, transfers that rewrite registers; FIFOs of three samples, a ring of two | an enabled channel is armed, `immediate_pending_` is exact; the buffers are lossy queues, and ticks add up however time is cut |
| `step` | three nested interrupts, two places to a context, BIOS calls with queued work | every context goes on with the instruction and registers that are due in it, queued work is charged to its caller, no interrupt waits for ever |
| `bus` | regions of four bytes with mirrors, VRAM of 12 folded to 16, a ROM that ends in a word, two stores to IO or one elsewhere; Flash banks of four bytes in two sectors | every width reads what the bytes say, a store changes what it addresses and nothing else (of IO byte by byte, registers that cannot be read included), held keys are seen, every Flash write does what the command table says |
| `codec` | three machines whose fields differ from their neighbours, four versions, every byte changed, every truncation | an intact file restores its machine exactly, a damaged one never reaches the session |
| `cpu` | user, system, supervisor and fiq mode; words of 4 bits; 15 operands of the multiplier at its edges; calls nested three deep; 40 bytes of RAM with ROM and nothing behind them | the banks are a banked file and user mode is left through exceptions only; arithmetic, shifts and multiplier compute what they should; calls come back; block transfers are inverse in pairs and leave the base when refused; Thumb forms do what their ARM forms do |
| `reset_blank` | the two games with saves | violation, section 6 |
| `cpu_return_loads`, `thumb_returns` | the same CPU with the one form left out of `cpu` | violations, section 6 |

Why the bounds are enough: each is the smallest at which the interesting cases
are present. Two games are needed to mix up saves or states, three file contents to
tell a stale copy from the old and the new one; modulus 2 with a reload of 1 makes a
timer overflow once per increment and several times per window; with three
timers a cascade feeds a cascade; a frame with visible and blank lines has every
kind of edge, and transfers longer than a line trigger their successor; two
frames and one change of machine give the presentation check something to
confuse; a ring of two and FIFOs of three wrap in a few steps; nesting of three
has an outermost, an inner and an innermost frame; two stores to IO make the
second find what the first left in its register, while one store to RAM is
enough, because `StoreIsLocal` speaks of one store at every mirror and the
addresses of `ReadsAgree` reach what it left through all of them; four bytes leave room for two unlock offsets and
offset 0 in two sectors; shift amounts of three bits go past a width of four;
fiq is the only mode with its own R8-R12, and the code treats interrupt, abort
and undefined mode like supervisor mode. Counters that never stop are capped by
named constants (`MaxCycle`, `MaxWrites`, `MaxFrames`, `MaxGeneration`,
`MaxStores`); `timers` and `host` stop when they reach theirs and are the runs
with `CHECK_DEADLOCK FALSE`.

Fairness. `DeviceAdvance`, `IntrWait` and `FrameStepping` assume that a call that
has begun runs to its end (weak fairness of the steps of the call): the code is
sequential, so nothing but the call itself could keep it from returning, and that
is what `WindowEnds` and `FrameEnds` rule out. `InstructionStep` assumes that the
host goes on stepping, and that the program goes on executing instructions that
do not change the pc among whatever else it does; how often it branches, masks or
is interrupted is free. `host` assumes that the event loop keeps running frames
(weak fairness of `Frame`) and that the file system does not refuse every write
(strong fairness of the successful frame in which a write is due). Of crashes, the
writer and the user it assumes nothing: they may do anything at any moment. That
F8 and F9 take unsaved memory for the clean snapshot is an exception in
`PlayIsFlushed` itself (`Adopted`: so adopted, and not changed since), because
without it the property fails (section 6).

## 4. Hazards

`PROJECT.json` lists forty places where this code can go wrong in a way that a
test hardly reaches, each with the properties that would notice. They fall into
these groups: failures and crashes around the files of the host; frames and
states of one machine mistaken for another's; windows of time that are cut,
restored or extended by DMA; state that is left over by a sequence of register
writes (start delays, DMA counts, `immediate_pending_`, held keys); buffers at
their limits; protocol and bank state of the Flash chip and the CPU that outlives
its command or mode; numeric edges of shifts, carries and the multiplier;
operations that are written more than once; and handlers, waits, calls and BIOS
work that interrupt each other.

One more is known and not covered: the file dialog's callback runs `switch_rom`
(`desktop_app.cpp:589`), and on which thread SDL calls it is SDL's contract. The
model takes it as an event of the loop.

## 5. Theorems

TLC checks the instances above; the theorems hold for every value of the
constants that satisfies the named assumptions of the modules. Thirty-one of them
state a property that a run checks; the others are type invariants and
strengthenings, and what a run would only repeat. The proofs are checked with
`tlapm <module>`.

Where a finding of section 6 shows that a property fails for some value of a
constant, the theorem has the opposite as its hypothesis, and no other:
`ProbeMayFail = FALSE` in `HostProofs`, `Faultless` (an existing `.sav` can
be read and an orphan recovered) for two theorems of `DesktopSessionProofs`,
`NoSelfTarget` for one of `InstructionStepProofs`, and `"halfword" \notin ReturnForms`
(no handler returns with MOVS PC, LR to a halfword) for `CallsReturnHold`. The runs use the same values.

`HostProofs` has three parts. About `AtomicWrite`, for any set of byte vectors
(assumption: `Absent` and `Torn` are no byte vectors). The inductive invariant `IInv` is `TypeOK /\ GoodCopy`:
- `TypeCorrect`: a torn temporary never gets the name of the file. `TypeOK` alone
  is not inductive: that the temporary is whole when it is renamed is `GoodCopy`.
- `GoodCopyHolds`: at each `pc` of the fallback, which of the three files holds
  the old bytes. It is the strengthening the others need: `NeverLost` alone
  does not say where the bytes are in the middle of the two renames.
- `FileNeverLost` and `WriteRefinesSlot`: every step
  keeps what a reader would recover, or makes it the new bytes; under the
  refinement mapping (the slot is the file, or its orphan when there is none)
  each step is a step of `SaveSlot` or a stutter.

- `WriteLeavesKnownFiles` (`OutcomesAreKnown`): the step that `DesktopSession` takes for
  a whole write is a step of the real one. `Traced` follows the pair of the file and
  its `.old` from call to call, from what the call found (`found`) to one of
  the outcomes, through the recovery of an orphan at the beginning and the
  restore at the end.

About `FrameStepping`, for any screen, budget and lengths of steps (assumption: a
screen has visible lines and a line ends after its HBlank):
- `PublishedIsWholeHolds`: that a picture is whole is a fact about a moment hours
  of steps after its rows were written. `RowsAreOfMachine` relates the raster to
  the clock: there is one frame of which all rows so far are, the next row is the
  one whose HBlank the clock has not yet reached, and a raster that is behind is
  of another generation and will be cleared; a return that is refused moves
  neither. A step writes its rows cycle by cycle; that this recursive function follows its equation is shown by the least
  cycle at which it would not.

About `SaveStateCodec`, for any set of machines, widths, limits and damages
(assumption: a machine has the fields that are written):
- `SessionStaysGenuine`: the gate compares hashes, so what it is worth depends on
  what they cover. Section by section of the writer, each field is in the hash
  (`EveryFieldIsHashed`), so from version 5 on an equal hash is an equal machine
  (`HashIsWhole`). The invariant is that the file carries the hash of a machine the
  program was in, of the kind of the version that wrote it, whatever storage
  changed; the parser, about which nothing is assumed, may return anything.

`DesktopSessionProofs`, for any ROMs, contents, flush period and set of events
(assumption: the sentinels are no contents, states or jobs). `IInv` is `TypeOK`
with four parts, and writes have the outcomes of `SaveFile` throughout:
- `SavesStayWithTheirRom` (`Ownership`): needs `Opened` (save writes are enabled
  for a ROM with a save only) and `StatesOwned` (the same of every save state on
  disk and of the one the writer holds, because F8 brings it back into memory).
- `LoadsSeeTheLatestSave`: needs `Latest`, that what was requested last of a ROM
  is in the writer or has been stored, and that what has been stored is on disk under
  one of its two names, whichever way a later write failed or was cut off; F8
  waits for the writer to be empty. It does not say that F8 finds the state under
  its own name: that fails (`LoadFindsLatestSave`, section 6).
- `SwitchesKeepProgress`: from `IInv`, action by action: every way to leave a ROM
  flushes first and stops when that fails.
- `NoSaveIsOverwrittenBlindly`, if `Faultless`: needs `Known`, that while writes are
  enabled the stored save is one this process has loaded, written or copied.
- `NoBlankBeforeLoss` (`BlankOnlyAfterLoss`), if `Faultless`: needs `BlankInv`, that
  before a loss a blank memory with writes enabled faces no progress on disk,
  which states hold a blank, and that a machine with a save ROM keeps its memory.
  All events are allowed, resets that refuse the save and resets that lose the
  machine among them; after such a loss the property speaks again when a ROM is
  opened, because what happens until then is the violation `reset_blank`.

`TimersProofs`, for any modulus, divisors, reload values and window lengths
(windows of at least one cycle exist). `IInv` is `TypeOK` with three parts:
- `TypeCorrect`: counters stay below the modulus through any number of overflows
  in a window. The step for `tick` rests on the bound of the closed form after
  the reload.
- `DelayIsAnchored`: a pending start delay belongs to a timer started in the
  current cycle, because a tick uses up the delay only if it is at most one.
- `SavedStatesLoad`: with the part that timer 0 never counts up, `load_state`
  accepts what `save_state` produces.
- `RestoresAreTransparent`: `load_state` re-anchors the start cycle, which then may
  differ from the saved one, but the ticks of a prescaler depend on the cycle
  only, and the delay on the anchoring just proved; `NotAhead` excludes timers
  started in the future.
- `WaitsMissNoTimer`: before the horizon of a free-running timer fewer ticks come
  than it needs to overflow, and a cascade overflows only where its source does,
  so the horizon of the source bounds the whole chain.
- `SlicesAreInvisible`: the ticks of a window are those of its parts; after
  the ticks of the first part the closed form goes on as if it had not stopped,
  also when the cut falls on a reload; carried up the chain of cascades timer by
  timer, so that the overflows feed the same cycles in both.
- `LoopsAreClosedForm` (`LoopsMatchClosedForm`), about `TimersLoop`: the loops of
  `increment_timer` and `handle_overflow` against the closed form. `At(ts, T, O, x, y, q, n)`
  is the accumulator when each timer j has had its increments up to cycle `x[j]` and
  its overflows up to `y[j]` (T and O are the cycles that the closed form gives) and
  the main loop has come to timer q. A round moves a cascade to the next overflow
  of its root (`RoundIs`), because between two overflows a counter only counts up
  (`Jump`); `handle_overflow` moves the timers the root feeds to the same
  cycle one after the other (`WalkStep`). After four stages every position is the end
  of the window, which is the closed form (`EndIs`). The ticks of a prescaler
  are numbered (`Ladder`), so that the rounds count them; the least round that
  is not some `At` cannot exist.

`DmaSoundProofs`, about `DmaController`, for any word counts, programmed channels and
control words:
- `EnabledChannelsAreArmed`: the property speaks of the moments between two
  calls; `AllArmed` holds it at every unit of a transfer, also after one has
  rewritten the control register of the channel being served.
- `PendingFlagIsExact`: in the middle of a call the flag lags. `Untouched` says
  how: in a call for immediate transfers nothing immediate is left behind the
  scan and the flag is recomputed at the end, in the others it is exact at every
  unit. It fails once a transfer writes a control register (section 6), which
  is the excuse in the property itself.

About `Apu`, for any capacities, words, thresholds, generators and window lengths
(assumptions: all words have the same number of bytes; a tick is too short to
fill the ring of samples; channels 1 and 2 serve the FIFOs):
- `SoundShapeHolds`: heads and sizes of the buffers stay in their rings and the
  remainders of the clocks below their periods.
- `QueuesLoseOldestHolds`: a step may pop, refill with several words and push; the
  property says that a buffer only loses what is oldest and, without a pop, only
  when it is full. Each operation is `Pushes` of n items or `Pops`, and pushes
  compose (`PushMore`), so the recursive functions over words and bytes are one
  `Pushes` (`WrittenPushes`, `RefilledPushes`).
- `TicksAddUpHold`: two ticks are one of the sum. Clocks, generators and the samples
  a tick emits are functions of the time that went by, and the emission of n and
  then m samples is that of n + m (`SampledMore`).

`IntrWaitProofs`, about `DeviceAdvance` and `IntrWait`, for any numbers of lines and
cycles, transfer costs, timer periods, windows and masks (assumptions: the order
of the edges in a line, costs below a bound, the batch fits a window, the limit
is two frames). `Shape` is the type invariant with the local variables of an
idle call at rest and inserted time recorded:
- `ClockAndDisplayAgree`: inductive with `Shape`. Moving the beam by an interval adds
  the interval modulo a frame (`FrameMoves`), which needs the arithmetic of
  remainders, stated as lemmas at the head of the module.
- `EveryEdgeIsSeen` (`LoopSeesEveryEdge`): the loop of `PpuTiming::tick` jumps from edge
  to edge. `At(p, d, n)` is what a reference that goes cycle by cycle has after d of
  n cycles; one iteration from `At(p, d, n)` leads to `At(p, d + s, n)`, because no
  cycle before the next edge has one (`EdgesAreNew`). The loop is a recursive
  function; a least iteration at which it is not some `At` cannot exist.
- `LinesArePresentedInOrder`: an interval ends at the next edge at the latest, so
  the number of lines that are done moves by one exactly when the observer is
  called, and back to zero in vertical blank only.
- `WaitsReturnInTime`: `WakeIsExact` speaks of the next interval and is not inductive.
  `Bounded` speaks of the whole rest of the chunk: it ends at or before
  the next overflow, serial completion and enabled display edge. Each interval
  takes as much from the rest as from every distance (`DistanceShrinks`) and sets
  no watched flag before it (`NoEdgeBeforeDistance`); `ChunkLength` shows that the
  code's minimum of three horizons is at most each distance.

`InstructionStepProofs`, about `HleIrq` and `InstructionStep`, for any depth of
nesting, lengths of work and latencies. The invariants are predicates of a
machine because a step composes a dozen functions of one (`Raised`, `Advanced`,
`Entered`, `Dispatched`, `Returned` and so on), and each is shown to keep them:
- `TypeCorrect`, `ReturnsAreToTheInterrupted`, `WorkIsChargedToItsOwn`: `Sound` says that
  the frames of the scheduler are the innermost interrupted contexts in their
  order, and that the SPSRs the handlers keep are the modes below. The property
  about the return is about one moment; the relation between `hle.outer` and the
  stack has to hold all the way there and back. Work is charged where the
  depth that the scheduler counts from its frames equals the caller's, and the
  invariant makes that depth the true one outside the vector.
- `InterruptsAreInvisible`, if `NoSelfTarget`: `OnCourse` adds that every saved link
  is the pc that is due in the context below. Without the hypothesis the
  link after a branch to itself is wrong (section 6).

`MemoryBusProofs`, about `BackupMemory`, for any sizes of the chips, banks, sectors and blocks (the
sector divides the bank), any unlock addresses, bytes, save files and states.
`IInv` is `TypeOK` and `BankFits`, that a second bank is selected in a flash128k
only; `TypeOK` alone does not bound `bank * BankSize + offset`.
- `IndexesStayInBounds`: no byte and no sector that a write addresses lies
  outside the save; the sector's end rests on `SectorEnds`.
- `SavedStatesLoad`: `load_state` accepts what `save_state` produces.
- `ProtocolImplementsTable`: in every state, every write has the effect the command
  table names. `SpellsNext` and `SpelledIs` compare the code's state with the writes
  that lead to it; then one lemma per effect (nothing, program a cell, erase a
  sector or the chip, choose a bank, enter and leave ID mode).

About `IoRegisters` and `MemoryBus`, for any sizes of the regions and any addresses
(assumptions: regions have whole words, all registers that `Held` names lie in IO):
- `BusInvHolds` and `KeypadIsSeen`: `KeypadSeen` speaks of a condition that holds and a
  request that was made; the step needs that a condition which starts to hold
  requests the interrupt in the same write, whichever of KEYCNT, the keys or IF
  changed (`Noticed`).
- `ReadsAgreeEverywhere`: the direct paths of the wide loads return what byte loads
  return, at every mirror and over the end of a region: the bytes of an access
  lie in one region and, in video memory, on one side of the fold.
- `StoresAreLocal` (`StoreIsLocal`): a store is a sequence of byte stores or one wide
  store; `Confined` says of each that it changes its footprint only, and is
  transitive. The footprint is what is addressed, byte by byte in IO too: write8
  merges the byte into the halfword it reads, so that the sibling is
  kept where the register reads back what it holds (`SiblingKept`). `Held` is what
  the machine holds, also of a register that cannot be read, so the two kinds that
  do not read back what a write needs are named (`Rebuilt`): IF, which a merge
  acknowledges (section 6), and the DMA source, whose sibling is cleared.
  That the bytes of IE and WAITCNT which have unused bits stay masked is part of
  the invariant. A write of KEYCNT may also request the keypad's
  interrupt, and no other.

`CpuProofs`, about `RegisterBanks`, for any set of modes, registers and values. `TypeOK` is
inductive, and the rest follows from it state by state:
- `BanksAlwaysHold`: `SwitchKeeps` shows that each physical register, whether
  live or in a slot, keeps its value when the mode changes, `AssignReaches` that
  a write changes the one register the mode names.
- `UserBankAlwaysCurrent` and `UserIsAlwaysRemembered`: what STM^ stores, and how
  user mode is left.

About `CallReturn`, for any code, targets and depth of nesting (assumption: code
addresses are numbers):
- `CallsReturnHold` (`CallsReturn`): a link is in LR, on the stack of its mode or, halfway
  through the BL pair of Thumb, about to be made. `CallInv` says where the link of
  each frame is, up and down the whole chain: the stack of a mode holds exactly the
  links of its frames in their order, LR and SPSR of each mode belong to its
  innermost frame, and no two frames of the same exception mode are open at once.
  It holds the property about the next return by looking at the last frame.

Only model-checked, because they are outside the prover:
- liveness: `PlayIsFlushed`, `FrameEnds`, `WindowEnds`, `IrqTaken`;
- `RoundTrip`: that the parser inverts the writer is an induction over the layout
  and the bytes of a value;
- the bits of words, which use `Bitwise` or exponentials: `DataProcessingIsExact`
  (`Alu`), `MultiplierAgrees` (`Multiplier`), `BlocksRoundTrip`
  (`DataTransfer`) and `ThumbAbbreviatesArm` (`MCCpu`).

## 6. Findings

Kept as runs whose violation is expected:
- `reset_blank`: a reset whose reload and rollback both fail leaves save writes
  enabled on a machine without a cartridge; the next reset captures no save
  memory, leaves a blank one (`desktop_app.cpp:423`), and a switch or exit flushes
  it over the good save.
- `cpu_return_loads`: an LDM with the S bit and R15 in its list restores the mode
  first and then writes R13 and R14 of its list into the user slots
  (`arm7tdmi.cpp:3497-3515`). Returning to user or system mode those slots are no
  longer current: the value is not seen, and the next mode switch overwrites it.
- `thumb_returns`: `MOVS PC, LR` and LDM with the S bit restore the T bit and then
  clear the two low bits of the address in either state (`arm7tdmi.cpp:2700`,
  `3523`). A handler of a SWI at a word-aligned Thumb address returns to the SWI.

Seen while modelling. The passing runs leave these out by a constant
(`ProbeMayFail`, `ReadMayFail`, `RecoverMayFail`, `OddHalfwords`, `SelfTarget`), or
the property names the case (`Adopted`, `lost`, `stash`, `stuck`, `Rebuilt`, `rewritten`,
`loop.stretched`). Each shows when the configuration is changed as said:
- `ProgressIsFlushed` for `PlayIsFlushed` in `MCHost.cfg`: `reset_runtime` makes unsaved
  memory the clean snapshot (`desktop_app.cpp:441`), so that only exit, a switch or a
  further change writes it, also when F9 is pressed just once. F8 does the same
  with the memory of the state (`desktop_app.cpp:576`).
- `LoadFindsLatestSave` for `LoadSeesLatestSave` in `MCDesktopSession.cfg`: a state whose
  background write fails in both renames of its fallback, or is cut off between
  them, is left only as `.state1.old` (`desktop_persistence.hpp:143-155`).
  `load_rom_from_path` puts such an orphan of a `.sav` back before it reads
  (`desktop_app.cpp:230`), F8 does not (`desktop_app.cpp:546`) and finds no state.
- `RecoverMayFail = TRUE` in `MCDesktopSession.cfg` violates `NoBlindOverwrite`: a failed
  recovery of the orphan is only a warning (`desktop_app.cpp:239`), the session starts
  fresh with writes enabled, and its next write replaces what the orphan held.
- `ReadMayFail = TRUE` in `MCDesktopSession.cfg` violates `NoBlindOverwrite`: a `.sav` that
  exists but cannot be read is treated like one that is absent
  (`desktop_app.cpp:246`) and replaced by the first flush, although for a save that is
  read but rejected the same function makes a copy or disables writes.
- `ProbeMayFail = TRUE` in `MCHost.cfg` violates `AtomicReplacement`: an error of `exists()`
  reads as "absent", and a stale `.old` replaces the newer file
  (`desktop_persistence.hpp:114`, `desktop_app.cpp:230`).
- `CallReturns` for `FrameEnds` in `MCHost.cfg`: when the SPSR of an interrupt names no
  mode, the return from its handler is refused without an instruction and without
  time (`core_scheduler.cpp:2653-2659`). `step_frame` neither counts such a step nor
  looks at its status (`android_runtime.cpp:265`), and repeats it for ever.
- `ByteStoresKeepSibling` for `StoreIsLocal` in `MCMemoryBus.cfg`: a byte store to IO is
  merged with what the register reads back (`memory_bus.cpp:811-833`). IF reads its
  pending requests, which a write of ones acknowledges: a byte store to one half
  of IF clears the requests of the other.
- `PendingIsPure` as an invariant of `MCDmaSound.cfg`: a transfer that writes a DMA control
  register can leave `immediate_pending_` different from what the channels say
  (`dma_controller.cpp:402-411`, `570`), although `load_state` recomputes it as "a pure
  function of channel state" and the state hash covers it.
- `OddHalfwords = TRUE` in `MCCpu.cfg` violates `ThumbAbbreviatesArm`: LDRH and LDRSH from
  an odd address are aligned or read as a byte in ARM state; in Thumb state the
  bus refuses them and the register gets open bus (`arm7tdmi.cpp:3071`).
- `WakeIsExact` without its conjunct on `loop.stretched` is violated: the chunk of
  a wait is measured in CPU cycles, and a watched flag may be set in DMA time
  inserted into it; the wait then runs the rest of its chunk, up to 63 cycles
  (`core_scheduler.cpp:3001`).
- A DMA transfer that stops its own channel while the repeat bit is set leaves a
  stopped channel with a count, which `load_state` refuses
  (`dma_controller.cpp:562`, `353`).
- `Forms = {"returnBase"}` in `MCRegisterReturn.cfg` violates `UserLoadsArrive`: an
  exception-return LDM with write-back updates the R13 of the mode it returns
  to, not the R13 it loaded through (`arm7tdmi.cpp:3552`). `Forms = {"fiq"}`
  violates it because R8-R12 are not rerouted when fiq executes the load.
- `SelfTarget = TRUE` in `MCInstructionStep.cfg` violates `ResumesWhereDue`: a
  taken branch to itself leaves the pc where it was, the step reads that as an
  instruction that went on (`core_scheduler.cpp:1971`), and an interrupt taken
  there returns behind the branch.

Differences between two pieces of the code that the models reproduce and no
property forbids:
- A byte store to a DMA address, which reads as zero, clears its sibling byte, one
  to a timer's reload stores its counter beside it (`memory_bus.cpp:811-833`): the
  merge takes what the register reads, not what it holds.
- An unaligned word store goes on into the next word, a word load of the same
  address rotates the word it is in: the bytes that crossed over do not come back,
  although the comment of `write32` says so (`memory_bus.cpp:956-959`). An
  unaligned word load over the end of a ROM whose size is no multiple of 4 is open
  bus as a whole.
- Thumb LDMIA writes its base back although the base is in the list, where the
  ARM form refuses; ARM LDM is refused where Thumb LDM reads open bus.
- `data_processing_cycle_estimate` (`arm7tdmi.cpp:491-494`) tests bits 4 and 7
  without the I bit, so that some immediates are charged a register shift's
  cycle; coprocessor instructions that do nothing take no cycle.
- `apply_save_type` and the import of a captured save do not fail with the sizes that
  the code itself passes. The model lets the import of a reset be refused all the
  same, because the code has an answer to it.

## 7. Not modelled

The renderer, the arithmetic and decompression of the BIOS services are pure
functions of data, without the control this project is about; wait states and
instruction timings are tables fitted to hardware traces, with no reference to
check them against. SDL windows, audio output, input pumping and frame pacing are
I/O. The harness, corpus, benchmarks, command line and tools support testing. Of
the modelled parts these details are left out: the bits of the instruction
encodings, R15 as an operand of arithmetic, the debug ports and the open-bus latch
of the bus, the idle registers of the serial port, the trace-fitted special cases
of the interrupt latency, the misfetch recovery of ROM code, and diagnostics.
Every part is listed in `PROJECT.json` with its status.

## 8. Plan

The models are complete in the sense above. They were built in the order files,
host, timers, display, DMA, device advance, waits, interrupts, backup memory,
register banks; then sound, codec, frames, the step, the bus and the rest of the
CPU. The proofs came after them in the order files, timers, register banks,
backup memory, DMA, desktop, the step, waits, Flash commands; then calls, frames,
sound, the bus, the display loop and the codec.
