# TLA+ model of the mini64 emulator core

mini64-libretro is a libretro port of the mupen64plus Nintendo 64 emulator. This
directory holds TLA+ modules for the part of it that decides *when things happen*:
the event queue of the R4300 core, the delivery of interrupts to the guest, the
devices of the RCP whose work ends through that queue, resets, savestates, the
session of the front end that drives it all, and the cheat engine that runs in it.
TLC checks them on small instances; TLAPS proves the safety properties and both
refinements for every value of the constants, some of them under conditions that the
theorems state. `PROJECT.json` maps each definition to the lines it models.

Paths below are relative to `src/mupen64plus-core/src/` unless they start with `src/`.

## 1. The system

### Parts, their state and their operations

| Part | Source | State | Operations |
|---|---|---|---|
| Event queue | `device/r4300/interrupt.c` | list of (type, count) nodes from a pool of 16, `next_interrupt`, `special_done` | add by count or delay, remove first, remove by type, translate, init, get |
| Interrupt delivery | `device/r4300/interrupt.c`, `cp0.c`, `mips_instructions.def`, `cached_interp.c`, `pure_interp.c` | Count, Compare, Status, Cause, `delay_slot`, `skip_jump`, `reset_hard_job`, `stop` | branches, idle loops, MTC0, ERET, exceptions, `gen_interrupt` and its handlers |
| MI | `device/rcp/mi/` | interrupt lines and mask | raise (in a handler), signal (outside one), clear, mask write |
| VI | `device/rcp/vi/` | `next_vi`, `delay`, field | arm, vertical interrupt, scan-line read |
| SI, PI, AI | `device/rcp/{si,pi,ai}/` | status registers, AI FIFO, `last_read`, `delayed_carry` | start of a transfer, end event, status write, AI length read |
| RSP, RDP | `device/rcp/{rsp,rdp}/`, `src/mupen64plus-rsp-hle/src/hle.c` | HALT, BROKE, task lock, FREEZE and deferred work | `do_SP_Task`, status writes, end events, unfreeze |
| Frame-buffer protection | `device/rcp/rdp/fb.c` | protected pages | protect before a display list, note reads and writes |
| RI, RDRAM | `device/rcp/ri/`, `device/rdram/` | registers | storage |
| PIF, CIC, controllers, paks | `device/pif/`, `device/controllers/` | PIF RAM, channel pointers, pak state | command parsing, pak access |
| Cartridge storage | `device/cart/` | flash RAM mode and status, SRAM, EEPROM, RTC | DMA and register access |
| Game Boy cartridges | `device/gb/` | bank registers, MBC3 clock | reads, writes, latch |
| Device assembly | `device/device.c` | | power-on, soft and hard reset |
| Savestates | `main/savestates.c` | a byte image | save, load |
| Cheats | `main/cheat.c` | list of cheats with their codes and saved values | add, apply at boot and at VI, enable, disable, delete |
| ROM identification | `main/rom.c` | the open ROM's settings | open, look up |
| Front end | `src/libretro/libretro.c`, `api/frontend.c`, `main/main.c` | the coroutine, `initializing`, `l_ROMOpen`, `g_EmulatorRunning` | `retro_init`, load, run, reset, unload, deinit, (un)serialise, cheats |
| Recompilers | `device/r4300/new_dynarec/`, `x86*`, `recomp.c` | generated code | as the interpreters |
| RSP HLE, GLideN64 | `src/mupen64plus-rsp-hle/`, `src/GLideN64/` | audio and graphics buffers | run a task to its end |

### How they interact

The emulator is one thread (a coroutine of the front end). The guest's instructions
let Count advance. At every branch the interpreter compares Count with
`next_interrupt`; once it is reached it calls `gen_interrupt`, which takes the first
node of the queue and calls the handler of its type. Handlers queue further events
(the VI its next frame, the timer its next round, SPECIAL_INT the next wrap of
Count), raise lines in MI, and through MI and Cause take an exception if Status
allows it. The guest's register writes start transfers (which queue an end event),
acknowledge lines, and change masks; each of these may queue CHECK_INT, the event
that takes an exception at the next branch. In the middle of the VI handler the
thread applies the cheats and goes back to the front end for the end of `retro_run`;
the front end may ask for a reset there, take or load a savestate, change the
cheats, or end the session, before the VI handler goes on.

### What is hard

* Count is a 32-bit register that wraps. Events are ordered by their unsigned
  distance from Count, with cut-offs at half and at a sixteenth of the range, and a
  marker event (SPECIAL_INT) that stands for the wrap itself.
* `next_interrupt` is a copy of the first node's count that some operations refresh
  and others do not.
* Exceptions in a delay slot are split: the registers change at once, the jump
  waits for the end of the branch.
* MTC0 Count and MTC0 Status call `gen_interrupt` from inside an instruction.
* A reset comes in the middle of the VI handler, clears the queue under transfers
  in flight, and may come on top of another reset.
* The node pool is finite; when it is empty the code logs an error, drops the event
  and goes on.
* A savestate is loaded under C frames (the VI handler, `gen_interrupt`, perhaps
  MTC0) that go on afterwards with the loaded state.
* An RSP task may end, loop on itself and be resumed by a later register write, or be
  unknown; its interrupts are held back, and held back longer when the RDP is frozen.
* The commands of the core are refused silently in the wrong state, and the front end
  does not look.

`PROJECT.json` lists these as hazards, each at its line.

## 2. Modules

### `EventQueue`, `QueueSpec`, `EventPool`

`EventQueue` has the queue as a record of the list, `next_interrupt`, `special_done`
and a flag that remembers a failed allocation; every function of `interrupt.c` that
works on the list is an operator from record to record with the name it has in the
code, the image in a savestate included. The list is a sequence, the pool its length.
`CountMod` is the range of Count (2^32 in the code), `PoolCapacity` the number of
nodes (16).

`QueueSpec` is the state machine of these operators: what the queue promises its
users. `EventPool` is the code as it stands, nodes linked through `next` and a stack
of the free ones; it implements `QueueSpec` under the refinement mapping that follows
the links (`ImplementsQueue`), and no node is ever leaked or linked twice
(`NodesAccountedFor`).

### `R4300Interrupts`

The composition of the queue with the CPU and with MI, VI and the RCP lines as the
CPU sees them.

* `pc` is the place of the single thread: between two instructions (`run`), in
  `gen_interrupt` as called by a branch (`gen`), MTC0 Status (`status`) or MTC0
  Count (`count`), and back in MTC0 Count before the queue is translated
  (`translate`). Every way through `gen_interrupt` is one action (`ViInt`,
  `CompareInt`, `CheckInt`, `SpecialInt`, `Hw2Int`, `NmiInt`, `DmaInt`, `ResetHard`,
  `SkipJump`), handler and exception included.
* The guest is nondeterministic: between two branches it executes up to `MaxInstr`
  of the modelled instructions (register writes to VI, MI, SI/PI/AI, SP; MTC0 of
  Status, Compare, Count, Cause; ERET; a fault), in any order, the last one perhaps
  in the delay slot. Every other instruction only advances Count.
* One tick of the model's Count stands for many instructions, so that an update of
  Count may also find it unchanged: `BlockCounts` holds 0.
* The lengths of transfers are nondeterministic (`DmaDelays`), which also covers the
  code's `randomize_interrupt` option.
* The front end's request is made where the code makes it, inside `ViInt`.

Assumptions on the environment, all of them constants or guards that are named in
the module:

* `WrapSafe`: no event is due in the stretch in which Count wraps between two
  branches (see 5).
* `RearmAtZero`: whether the guest writes VI_V_INTR_REG while VI_INT is due at count
  0. The runs that exclude the case start from an odd count where possible, so that
  no event falls on 0.
* A transfer or an RSP task is started only when its event is not pending. `RcpDma`
  models what the devices do without this.
* `CauseAnytime`: whether the guest writes Cause with interrupts enabled. The code lets
  it; it is FALSE in `irq`, whose properties are about Cause (boot code writes it with
  interrupts disabled), and TRUE elsewhere.
* Only graphics tasks carry display lists.

The end of an audio transfer may queue the next one, and the end of an RSP task may leave
the SP line down, as `RcpDma` and `RspRdp` have it in detail.

### `StateReload`, `DeviceEvents`, `MCInterrupts`

`StateReload` adds savestates to `R4300Interrupts`: the front end loads one while the
VI handler waits. The image replaces everything but `special_done`, so that loading
an earlier frame is a step from that frame's own state with the `special_done` of
another moment (`Loads`). An image is taken in `new_vi`, after VI_INT has been removed and
before it is queued again; `ReloadKeepsOrder` compares the list at that moment with the one
that inserting its nodes one by one gives.

`DeviceEvents` is what the CPU side promises the devices: an event that was started
stays queued until its handler runs, once, and raises the line (the SP's may leave it
down, the AI's may queue a second buffer); a line falls only by an acknowledgement, a task
or a reset. `ImplementsDevices` says that
`R4300Interrupts` with loads implements it. It is also all that `RcpDma` and `RspRdp`
assume of the queue.

`MCInterrupts` adds the record- and set-valued constants a `.cfg` cannot spell.

### `RcpDma`

The status registers and the end events of SI, PI and AI, both directions of the SI
DMA, overlapping PI transfers and PI status resets, the two-entry AI FIFO with the
piecemeal hand-over of samples, to reads of AI_LEN_REG while the AI is idle too (a third
write replaces the second entry), and what the
two resets do to all of this. The queue is the number of queued nodes of each type,
dispatched in any order. The remaining AI length a read computes from Count is any
length of the transfer. `heard`, `stale` and `nmi` are history variables: the samples
of the current buffer that were handed over, whether a transfer from idle was moved by
a carry, and whether a soft reset has come. Register writes that return early without
changing anything (an SI address that is not PIF RAM, a PI address no device answers)
are stutters and left out; so are the bytes and the sample format.

### `RspRdp`

SP_STATUS_REG, the task in DMEM, `rsp_task_locked` with INTR_UNSAFE_RSP, the SP and DP
lines and events, FREEZE and `do_on_unfreeze`, the screen update of the VI handler,
and both resets. A task runs inside the write that starts it; what the plugins make of
it is a choice: a display list ends or loops (`RSP.infloop` of GLideN64) and raises DP
or not, a known task ends, an unknown one does nothing at all, since `HleForwardTask`
reports it as forwarded. The first return of GLideN64's loop (`RSP.cpp:94-98`) is left
out: it needs `ConfigOpen` or a restart of the window, which nothing in this build sets
(`src/GLideN64/src/N64.cpp:13`). Writes of SP_STATUS_REG set CLR_HALT only on a halted
RSP and never SET_HALT: an assumption on the guest, which the theorems spell out as
`LibultraWrites`. The NMI leaves another header in DMEM, where the boot ROM copies IPL3
(`device/pif/bootrom_hle.c:119`). `owed` (what was held back and not delivered), `quiet` (the
last task ran without INTR_BREAK) and `orphan` (a soft reset or a load cut off a list
in its loop) are history. The events are counted, as in `RcpDma`.

### `Savestates`

`RspRdp` with the front end's saves and loads at the point where the core waits,
reached from the loop or from inside MTC0 Count. `slot` is the image; `rsp_task_locked`,
`interrupt_unsafe_state`, the plugin's state and a pending hard reset are not in it.
`LoadExact` compares the machine after a load with the one the image was taken of.

### `Cheats`

The list of cheats as sequences of codes, with `cheat_apply_cheats` as a recursive
function over the cheats and, for each, over its codes (`Pass`). A code is its kind, a cell, a value and `old_value`; the kinds are grouped by
effect (plain, boot, button and expansion writes, tests with and without the button),
patch codes are expanded when a cheat is added. `ConditionsGuard` compares the pass
with its one flag to a declarative reading of the list. `lost` is the history of
cells that no code can restore (section 5).

### `Frontend`, `MCFrontend`

Sessions from `retro_init` to `retro_deinit` in one process: the coroutine, the state
the core's commands test, `main_run` with plugins that refuse to start, a guest that
stops by itself (NI, also in a delay slot, where `gen_interrupt` still runs once), the
resets' effect on the boot codes, and the cheat calls. The host keeps to the order of
calls that `libretro.h` allows. `MCFrontend` has the lists of codes.

### The proof modules

`EventQueueProofs`, `R4300InterruptsProofs`, `InterruptDeliveryProofs`,
`DeviceEventsProofs`, `EventPoolProofs`, `RcpDmaProofs`, `RspRdpProofs` (also about
`Savestates`) and `FrontendProofs` (also about `Cheats`) hold the theorems (section 4).
Each extends the module it is about.

## 3. Runs

Run them with `tlc -config <run>.cfg <module>`.

| Run | Module | Question | Answer |
|---|---|---|---|
| `frames` | MCInterrupts | Do vertical interrupts come on time, with transfers of two devices in flight and loaded savestates in between, over any number of wraps of Count; are due events taken in order, does a load bring back the list that was saved, and does each device see each of its events once? | `TypeOK`, `FrameOnTime`, `NotEarly`, `InOrder`, `ReloadKeepsOrder`, `ImplementsDevices` hold |
| `resets` | MCInterrupts | Do soft and hard resets complete when asked for in any frame, on top of each other too, and do frames keep coming, over any number of wraps? | `FrameScheduled`, `FramesForever`, `ResetCompletes`, `HardResetCompletes` hold |
| `timer` | MCInterrupts | What do writes of Compare and Count, the firing timer, resets and a pool of 3 nodes do to the queue? | `SpecialOnce`, `TimerFollowsCompare`, `FirstNotNull` hold |
| `irq` | MCInterrupts | Is an enabled interrupt ever lost, with masks, acknowledgements, nested exceptions, faults, delay slots and RSP tasks? | `IrqLevel`, `IrqNotLost` hold |
| `pool` | EventPool | Do the linked nodes implement the queue, also when they run out? | `NodesAccountedFor`, `ImplementsQueue` hold |
| `dma` | RcpDma | Does BUSY always have its end event, do transfers end, is the buffer that plays handed over whole and once, does the FIFO drain, does a carry leak, with both resets? | `TypeOK`, `BusyPending`, `AudioComplete`, `FifoDrains` hold; `SiBusyPending`, `SiCompletes`, `CarryFresh` hold until the first soft reset |
| `rsp` | RspRdp | Are interrupts and pictures that were held back delivered, once, and does every task end once, with lists that loop, a frozen RDP and resets? | `TypeOK`, `LoopLocked`, `OwedPending`, `DeferredFrozen`, `OneCompletion`, `RunningEnds`, `Delivered`, `HardResetCompletes` hold |
| `savestate` | Savestates | Is a frame lost or doubled by a load, is a load exact, is deferred work kept? | `FrameOnce`, `LoadExact`, `OwedSaved` hold |
| `frontend` | MCFrontend | Is the coroutine protocol kept over two sessions, do cheats keep the game's values, do tests guard what they should? | `SessionEnds`, `OriginalsKept`, `ConditionsGuard` hold |
| `early_frame` | MCInterrupts | Is an event dispatched early when the guest rewrites Compare? | `NotEarly` is violated |
| `reset_si` | RcpDma | Is SI stuck after a soft reset? | `SiNeverStuck` is violated |
| `left_running` | MCFrontend | Does the core finish in `retro_deinit`? | `CoreFinishes` is violated |

The three violations are findings in `PROJECT.json`: `remove_event` leaves
`next_interrupt` stale, so `gen_interrupt` runs whatever is first too early; the NMI
clears the queue but not SI's DMA_BUSY; and `retro_unload_game` cannot close the ROM of
a running game, so that the next session cannot load one, and its `retro_deinit`
starts the old game and deletes the coroutine under it.

### Bounds, and why they suffice

* *Range of Count.* 272 in `frames` and 128 in `resets`, with frames of 18 and 20: many
  frames and several events between two wraps, and the cut-offs at a half and a
  sixteenth lie well apart from each other and from the largest step. `frames` has the 4
  nodes its events need and transfers of lengths 2 and 6, so that one device's event may
  overtake another's and start on both sides of the marker; it satisfies
  `PollingGuest(2)`, and its counts are odd, so that it is an instance of the theorems of
  section 4 about time. A step must stay below a sixteenth of the range, as it does in the
  code by five orders of magnitude; `irq` therefore uses 272 with steps of 16. The state
  spaces are closed: Count wraps for ever, there is no cap on the length of a behaviour.
* `timer` uses a range of 16 and no ordering property: there the interest is in which
  nodes are queued at all, and the pool of 3 nodes makes `alloc_node` fail in every
  operation. It also lets writes of Count and Compare meet at all distances.
* `irq` has one RCP device next to the VI and one modelled instruction per block; the
  theorem `IrqNeverLost` has no such bound. The
  mask and Status values written are those that enable interrupts; they are disabled
  by exceptions, NMI-free power-on and faults.
* `pool` has 3 nodes, of which allocation leaves none after a few additions, and a
  range of 16 that the delays 1 and 9 and the rebasing cross at both cut-offs.
* `dma`: audio buffers of 1 and 3 units so that a buffer can be read in parts, and
  two PI transfers in flight.
* `rsp`: all four kinds of task; the writes of SP_STATUS_REG are those of libultra:
  start with and without INTR_BREAK, acknowledge, signal, and one that does nothing,
  which runs a locked task on. DP events are capped at 2 (`MaxDpEvents`); a cap on SP
  events is not needed. `savestate` has the tasks that can be locked, one image, and
  one value for MTC0 Count.
* `frontend`: two cells, two guest values and two values of codes, one cheat besides the
  one of the ROM database, two lists (a write behind two tests and a button code
  behind one; a patch of boot codes), 2 instead of 60 frames before the codes apply,
  and two sessions, since a third starts like the second.

No symmetry is used: the events of different types are treated differently.

### Deadlock

Checked in every run but `irq`, `frontend` and `left_running`. With `GuestFaults` an
ERET with ERL set or a non-zero MTC0 Cause makes the interpreter set `stop`, and the
emulator ends; a front end may stop after its last session, and a coroutine resumed
after its end takes the process down.

### Fairness

`FairSpec` of `R4300Interrupts`: `gen_interrupt` returns (weak fairness; it is
straight-line code), and the guest keeps executing branches that advance Count and
that reach `gen_interrupt` when it is due (strong fairness, because the guest's other
instructions interleave with branches). The first holds of the host, the second of
any guest that does not hang in a straight line, which the finite memory of the
machine excludes. Liveness is checked without loads, which nothing forces.
`FairSpec` of `RcpDma` and of `RspRdp`: each end event that is queued is dispatched,
and a hard reset that is not held off is taken (weak fairness), which is what `frames`
and `resets` show of the queue. Nothing makes the guest acknowledge, unfreeze or go on
with a locked task; `Delivered` and `HardResetCompletes` say what depends on it.

## 4. Proofs

`tlapm` checks all proofs. They hold for every range of Count from 16 up, every pool
of at least two nodes, every set of guest writes and every delay: the assumptions are
`CountModAssumption`, `PoolCapacityAssumption`, `ConstantsAssumption`,
`LoadsAssumption`, `EventPoolAssumption`, `RcpDmaAssumption`, `RspRdpAssumption`,
`SavestatesAssumption`, `CheatsAssumption` and `FrontendAssumption` (which say that the
lists of codes are lists of codes), which TLC evaluates in the runs. What a theorem needs
beyond them is an antecedent in its statement, and is said here with the reason. Every inductive invariant was checked with
TLC before it was proved.

*`EventQueueProofs`* shows that an addition inserts exactly one node somewhere and
leaves the rest alone (`AddEvent`), that a removal takes out exactly one
(`RemoveEvent`, `RemoveInterruptEvent`), where an insertion puts the node (`InsertAtPlace`,
`PushPlace`), and that every operation keeps `QueueInv`:
the queue is well typed, has at most one SPECIAL_INT, and one unless an allocation
failed, at most one COMPARE_INT, which is at Compare, and never neither of the two.
`SpecialOnce` alone is not inductive: that the list is never empty after a failed
allocation depends on the timer, and the timer's uniqueness on Compare being what it
is queued at.

*`R4300InterruptsProofs`* lifts `QueueInv` through every action to `IInv`, from which
follow

* `TypeCorrect`: `Spec => []TypeOK`;
* `WrapMarkerOnce`: `Spec => []SpecialOnce`;
* `QueueNeverEmpty`: `Spec => []FirstNotNull`, the safety of `gen_interrupt`'s
  dereference of `q.first`;
* `TimerAtCompare`: `Spec => []TimerFollowsCompare`;
* `IrqLevelHolds`: if `~CauseAnytime` then `Spec => []IrqLevel`, inductive relative to
  types: whatever else clears IP2 either looks at the lines again or runs with interrupts
  disabled.

The lemma `DelayedJumpKept` says of guests that keep MTC0 Count out of delay slots
(`CountOutsideSlots`) that `next_interrupt` stays 0 until the jump left behind by an
exception in a delay slot is made. With MTC0 Count in the slot it is false (section 5); the
next module uses the lemma.

*`InterruptDeliveryProofs`* is about the order of the queue as far as delivery depends
on it.

* `FrameAlwaysScheduled`: with `CountWrites = {}`,
  `Spec => [](~evq.failed => FrameScheduled)`. `FrameInv` says the same also inside
  `gen_interrupt`; it is preserved because every operation but the VI's own handler, the
  resets and the translation keeps each VI_INT at its count (`KeepsVi`). Both conditions
  are needed: MTC0 Count moves VI_INT and not `next_vi`, and an exhausted pool drops it
  (section 5).
* `IrqNeverLost`: if for some bound `B` on one advance of Count
  `MaxInstr * B < Sixteenth` (`ShortBlocks`), and `WrapSafe` and `~CauseAnytime`, then
  `Spec /\ CountOutsideSlots => [](~evq.failed => IrqNotLost)`. `IrqNotLost` is not inductive: a transfer
  started after the CHECK_INT was pushed could be queued in front of it.
  `IrqInv(B)` adds how far Count is past the CHECK_INT at most, the instructions spent in
  this block times `B`; as long as that is below a sixteenth of the range
  `before_event` lets nothing overtake it (`NotBefore`, `AddKeepsCheck`). A real block is
  far shorter than 2^28 counts. The handlers are the other half: after every one of them
  an enabled interrupt is taken or no longer pending (`GenInterruptDue`, which uses
  `IrqLevel` and that a waiting jump means EXL, `SkipExl`). A node refused by the pool may
  be the CHECK_INT itself, hence `~evq.failed`.

*`DeviceEventsProofs`* is about `SpecLoads`, the machine with loaded savestates. It proves
the refinement `DevicesServed`: `SpecLoads /\ []RoomForReset => ImplementsDevices`. The
abstract `queued` is the number of nodes of a type; an insertion adds one to the number of
its type and a removal takes one off (`InsertionNumber`, `RemovalNumber`, by a bijection of
the positions), so that every operation of the queue either keeps the numbers of the devices
(`SameDevices`) or changes one of them by one (`AddNumber`, `RemovedNumber`). Each action is
then one abstract action or a stutter, an allocation that fails included: the event was then
never started. Loading inserts the nodes of the image one by one; after n of them the list
is a permutation of the first n (`PermutedInsertion`, `LoadPermutes`), whatever order
`special_done` gives them, so that `IInv` and the numbers survive (`LoadInv`,
`LoadsKeepQueue`: `SpecLoads => [](TypeOK /\ SpecialOnce /\ FirstNotNull /\ TimerFollowsCompare)`).
The exception is in `RoomForReset`: the soft reset's two events may take the last nodes,
after which VI_INT, already removed, cannot be queued again, and no abstract step takes it
away. If no soft reset is asked for the condition is vacuous, whatever the pool does.

Its second half is about time: for every `b` with `PollingGuest(b)`,

* `PollingFrameOnTime`: `SpecLoads /\ []NotAtZero => []FrameOnTime`;
* `PollingNotEarly`: `SpecLoads /\ []NotAtZero => []NotEarly`;
* `PollingInOrder`: `SpecLoads /\ []NotAtZero => []InOrder`;
* `PollingReload`: `SpecLoads /\ []NotAtZero => []ReloadKeepsOrder`.

None of the four is inductive, and the order of the list cannot be read off its counts, which
wrap. `Timed` gives each node a time, its count or its count plus the range of Count:
SPECIAL_INT stands at the end of the range once it has run or Count has passed the half, and
at 0 before; a device's event is less than half the range ahead. The times follow the list, strictly
before SPECIAL_INT, and the event at place i is late by at most `PoolCapacity - i` blocks and
what the current block has used (`Wait`): each event before it costs one block, because every
branch that finds an event due has one dispatched. `BeforeTime` is the heart: as long as
nothing is a sixteenth of the range late, `before_event` compares times. From it follow the insertion
(`AddTimed`), removal (`RemoveTimed`), the marker's handler on both sides of the wrap
(`SpecialTimed`, `PollTimed`), the advance of Count, where a wrap takes the range off every
time (`WrapTimed`), and the idle loop, which does not pass the first event (`IdleTimed`). That
a load brings back the list that was saved is `LoadSorted`: when VI_INT was first the marker
waits for the next wrap, and inserting a sorted list node by node appends each one.

`PollingGuest(b)` says: Count advances by at most `b` between two updates, `WrapSafe`, and
`PoolCapacity` blocks are shorter than a sixteenth of the range and than a frame
(`Margins`; in the code 16 blocks against 2^28 and some 10^6 counts); delays are below half
the range; the guest does not enable interrupts, does not fault, writes neither Compare nor
Count, and does not rearm the VI at count 0; the front end asks for no soft reset and loads no
state from the other side of a wrap. `NotAtZero` says that Count is not exactly 0 once
SPECIAL_INT has run. For `WrapSafe`, the writes of Compare and Count, the rearming, the loads
and `NotAtZero`, section 5 has a behaviour of the code in which a property fails without it. The
others are what the argument needs: after a soft reset the queue starts at Count 0, a fault
makes `next_interrupt` differ from the first node, and with interrupts enabled there is no bound
on the lateness, since an ERET may push a new CHECK_INT in front of a late event in every block.

*`EventPoolProofs`* proves `PoolAccounted` (`Spec => []NodesAccountedFor`) and the refinement
`PoolImplementsQueue` (`Spec => ImplementsQueue`) for every pool of at least two nodes. `PoolInv`
says that there is a path of distinct nodes from `first` along the links, and that the other
nodes are the free part of the stack, each once (`Good`). The recursive functions that follow
the links are computed on that path by taking the last place at which they could be wrong
(`LinkedPath`, `StopPath`, `ListPath`), which replaces an induction. Each operation on the
links is then the operation of `QueueSpec` on the sequence the path spells: linking a node is
an insertion at the place where the code's loop stops (`NodesBeforeStop`, `AddNode`),
unlinking a removal (`DropNode`, `PopNode`), and rebasing and loading are done node by node
(`TranslateNodes`, `LoadNodes`).

*`RcpDmaProofs`* proves, from one invariant with a part for each interface,
`DmaTypeCorrect`, `BusyAlwaysPending` and `AudioAlwaysComplete` for every guest, and, until
the first soft reset, `SiAlwaysPending` and `CarryAlwaysFresh`. `AudioComplete` speaks of
the buffer that plays; what the code does to others is in section 5.

*`RspRdpProofs`* proves `RspTypeCorrect`, `LoopAlwaysLocked`, `OwedAlwaysPending`,
`DeferredOnlyFrozen`, `OneCompletionAlways` and `RunningAlwaysEnds` for every set of
tasks, every bound on DP events and every set of writes of SP_STATUS_REG that halt the
RSP by no write and clear BROKE only together with HALT (`LibultraWrites`, an
antecedent of the theorems; `rsp` satisfies it). Without it a guest that halts the RSP
and starts it again runs a task twice. None of the properties is inductive alone.
`IInv` adds that a halted RSP has no end of task queued (`HaltIdle`: without it a start
could queue a second one), that the lock and INTR_UNSAFE_RSP agree (`LockFlagged`),
that the plugin waits in the task that is in DMEM (`LoopTask`), and that an end of task
is held back only while INTR_BREAK is set (`OwedBreaks`).

Of `Savestates` the same module proves `OneFrameAlways` for every guest, and `LoadAlwaysExact`,
`OwedAlwaysSaved` and `LoadKeepsRsp` (`LoopLocked` and `OneCompletion` with saves and
loads) under `LibultraWrites`. The invariant `SaveInv` has a part about the image: it
satisfies what the invariant of `RspRdp` says about the variables it holds (`SlotInv`),
and the state a safe image stands for can be computed from it (`SlotExact`). `RunningEnds`
is not among the results: a task locked at the save is not locked after the load.

*`FrontendProofs`* proves `SessionAlwaysEnds` for any number of sessions and any cheats.
`SessionInv` says how the call the host is in, the coroutine and the core's flags go
together; the part that carries the proof is what an earlier session may have left over
(`Leftover`). About the cheats it proves, for every list of codes and every memory,
`OriginalsAlwaysKept` and `ConditionsAlwaysGuard`. `OriginalsKept` is not inductive;
`CheatInv` says of every cell that is not `lost` that at most one code writes it, one that
saves, and that the cell or that code holds a value of the guest (`KeptAt`). One code of a
pass keeps it (`CodeKept`), hence a pass over the codes and a pass over the cheats
(`PassKept`, `ApplyKept`). `ConditionsGuard` follows from the agreement of the pass with the
reference after each code (`AgreeStep`). The inductions over places are done with `UpTo` and
`Iteration`, which follow from the least element of a set of naturals.

Only model-checked:

* the liveness properties `FramesForever`, `ResetCompletes`, `HardResetCompletes`,
  `SiCompletes`, `FifoDrains` and `Delivered`, which are out of the prover's reach;
* `FrameOnTime`, `NotEarly`, `InOrder` and `ReloadKeepsOrder` are proved for polling guests
  only, as said above; so are `FrameScheduled`, `IrqLevel` and `IrqNotLost` under their
  conditions.

## 5. Deviations seen without a run

These were met while modelling. Where a run is named, it reproduces the deviation with
the constants given; the others are read off the code.

* *A missed wrap* (`frames` with `WrapSafe = FALSE`, `BlockCounts = {2, 4}`, `Loads = "none"`):
  `FrameOnTime` fails. The loop's test `next_interrupt <= Count`
  (`device/r4300/cached_interp.c:97`) is a plain comparison; an event just below the
  top of the range is missed when Count wraps before the next branch.
* *Compare just behind Count* (`frames` with `CountMod = 256`, `CompareWrites = {251}`): the
  timer event goes to the head of the queue and holds the vertical interrupt back for a round of
  Count (`interrupt.c:115`).
* *MTC0 Count* (`frames` with `CountWrites = {1}`): `translate_event_queue`
  (`interrupt.c:287`) moves the nodes, but `next_interrupt` and `vi->next_vi` stay in
  the old time base, so `FrameOnTime` and `FrameScheduled` fail.
* *A stale CHECK_INT*: `check_int_handler` (`interrupt.c:415`) tests neither Status nor
  Cause. An interrupt that was taken, masked or acknowledged in the block in which its
  CHECK_INT was queued has its exception all the same. Two instructions of one block that
  call `r4300_check_interrupt` (`interrupt.c:371`, without the test for a second event of
  the type that `:168` has) queue two CHECK_INT; the second is due at the branch after
  the first, inside the guest's handler, and overwrites EPC (`cp0.c:268`). Both show with
  `irq` and `MaxInstr = 2`, `CountMod = 528`, checking that an exception is taken only
  with an interrupt pending and enabled, or that CHECK_INT is in the queue at most once.
* *MTC0 Count in a delay slot* (`irq` with `CountWrites = {32}`, `CompareWrites = {80}`,
  checking that `next_interrupt <= Count` when the CPU runs with a jump left behind): its
  `gen_interrupt` may take an exception, and `translate_event_queue`, which follows, may
  set `next_interrupt` to Compare. The guest then goes on behind the delay slot, with EXL
  set, and reaches the vector only at that count (`mips_instructions.def:1216`).
* *MTC0 Cause with interrupts enabled* (`irq` with `CauseAnytime = TRUE`,
  `MaxInstr = 2`, `CountMod = 528`): writing 0 clears IP2 under a line that is up, and the level does not show
  again until the next check (`mips_instructions.def:1247`): `IrqLevel` fails.
* *Soft resets in quick succession* (`resets` with `CountMod = 512`, `ViDelay = 2`,
  `NmiDelay = 128`, `Requests = {"soft"}`, under `Spec` without the liveness
  properties): each reset queues two nodes
  (`device/device.c:245`), the pool of 16 is exhausted and VI_INT is dropped, so
  `FrameScheduled` fails. In real time this is a reset in every frame for as long as
  an NMI is pending.

* *VI_INT queued twice* (`frames` with `RearmAtZero = TRUE` and `InitCount = 0`):
  `get_event` returns 0 for an event at count 0 as for none, so a write of
  VI_V_INTR_REG at that moment queues a second VI_INT and `FrameOnTime` fails
  (`device/rcp/vi/vi_controller.c:151`).
* *A load under another `special_done`* (`frames` with `Loads = "any"`,
  without the refinement): `FrameOnTime` fails when the load falls
  into the last block before Count passes a sixteenth of its range; otherwise the
  handler of SPECIAL_INT repairs the order at the next branch (`interrupt.c:321`).
* *Count exactly 0* (`frames` with `CountMod = 512`, `PoolCapacity = 4`, `InitCount = 488`,
  `BlockCounts = {0, 1, 3}`, `Dma = {"SI_INT", "PI_INT"}`, `DmaDelays = {4, 20}`,
  `ViDelay = 26`): when the marker has run
  and Count is still 0, its distance is 0 instead of a round, so `before_event`
  (`interrupt.c:108`) does not look at `special_done`; a transfer started at that count goes
  behind the marker and waits for the next wrap, and `InOrder` and `ReloadKeepsOrder` fail.
* *Soft reset and audio* (`dma` with `CarryFresh` stated as `~stale`): the NMI clears
  AI_STATUS_REG but not `delayed_carry`, and the first buffer afterwards may be moved by
  0x2000 (`interrupt.c:458`).
* *Audio handed over twice* (`dma`, where `heard` may exceed the buffer once it has ended):
  the end event leaves `last_read`, so that a read of AI_LEN_REG while AI is idle pushes
  samples again (`device/rcp/ai/ai_controller.c:177`).
* *Audio never handed over*: a write of AI_LEN_REG while the FIFO is full replaces the
  second buffer (`device/rcp/ai/ai_controller.c:109`), of which nothing was played.
* *Saving at an unsafe moment*: `retro_serialize` and `retro_unserialize` do not look at
  `interrupt_unsafe_state`; the jobs that did are commented out in `interrupt.c:525` and
  `:618`. The lock is not in the image, so that a display list saved in its loop is
  started anew, and a load inside MTC0 Count goes on to write Count. `LoadExact` is
  restricted to the safe case for this reason.
* *RSP*: an unknown task never breaks (`src/mupen64plus-rsp-hle/src/hle.c:341`,
  `HleForwardTask` returns 0): it stays locked, and holds off hard resets,
  until the guest runs another task. A task without
  INTR_BREAK gets no SP_INT and never shows HALT again (`rsp_core.c:331`). A soft reset
  during a looping list leaves the video plugin in it: the next list resumes the old one
  (`src/GLideN64/src/RSP.cpp:100`). `do_SP_Task` also takes back a DP or SP line that was
  already up (`rsp_core.c:285`).
* *Cheats*: `retro_cheat_set` builds the cheat anew also when it switches it off, so the
  saved values go and nothing is restored, although `cheat.c:288` says "if cheat was
  enabled, but is now disabled, restore old memory values". A soft reset between the
  switch-off and the next VI pass has the same effect, since the boot pass clears
  `was_enabled`. Two codes on one cell restore the first one's value. Button and
  expansion codes save nothing. A cheat call before a ROM is open works on a list head
  that was never initialised.
* *Front end*: after a guest that stops by itself, or a plugin that fails to start,
  `retro_run` and `retro_deinit` resume a coroutine that has ended; `SessionEnds` says
  that this is the only way to get there.

## 6. Not modelled

`PROJECT.json` lists every part with its status. Of the modelled parts these are left
out: VI scan lines, the field bit and changes of `vi->delay`; ordering across an NMI;
the `CountPerScanlineOverride` option;
SP DMA and the signal bits; the byte layout of savestates and older formats; parsing of
cheat strings and overlapping cells; core options, video context and resampling. A hard
reset is asked for through the core API; `retro_reset` itself is soft.

Most of the repository is not of the kind that such a model can say something about,
and the mapped share of its lines stays small for that reason: GLideN64 with its shaders,
texture filters and OpenGL headers, the ROM table, and vendored libraries are more than
half; the recompilers are generators of machine code whose
correctness is about instruction encodings; instruction decoding, TLB contents, floating
point, RSP microcode, mappers and pak commands compute on data within one step of this
model. What decides the order of events, and what happens between two of them, is in
`interrupt.c`, `cp0.c`, the device controllers, `savestates.c`, `cheat.c` and
`libretro.c`, and that is what is mapped.

## 7. Plan

Done: `EventQueue`, `R4300Interrupts`, `RcpDma`, `RspRdp`, `StateReload` and
`Savestates`, `Cheats` and `Frontend`, `EventPool` and the two refinements; proofs of the
safety of interrupt delivery, of its timing for polling guests, of the devices, of the RSP,
of savestates, of sessions and of cheats, and of both refinements. Next:

1. The timing theorems for soft resets (a queue that starts at Count 0), and for guests that
   enable interrupts, with a bound on the number of exceptions an event can wait for.
2. `CartStorage`: the flash RAM command machine and the address range it shares with
   SRAM.
3. `Mbc3Rtc` and the PIF channel parser: pure algorithms against a reference definition.
4. Frame-buffer protection.
