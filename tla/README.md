# TLA+ models of ts-x86-emulator

This directory models, model-checks and proves properties of the emulator for the
Technologic Systems TS-3x00 boards: a KVM-based virtual machine with an emulated 16450 UART
on a pty, a flash chip, a disk reached through an option ROM, a real-time clock with CMOS
memory, an A20 gate, chip select units and an interval timer, and the start-up over the user's
files. `src/...` paths below are relative to the directory that holds the
repository, so that `src/src/main.cpp` is the repository's `src/main.cpp`.

- [The system](#the-system): inventory, interactions, hard behaviours
- [The modules](#the-modules) and how they correspond to the code
- [The runs](#the-runs), their bounds and what they show
- [Fairness](#fairness) and [other assumptions](#assumptions)
- [The proofs](#the-proofs)
- [What the models say about the code](#what-the-models-say-about-the-code)
- [What is not modelled](#what-is-not-modelled) and [the plan](#the-plan)

Run a model with `tlc -workers 2 -config X.cfg M`, a proof with `tlapm M.tla`.

## The system

The process has two threads. The **CPU thread** (`cpuThread`, main.cpp:649-934) loops around
`KVM_RUN` and handles every exit itself: port I/O through a table of handlers and devices, memory
accesses to the unmapped flash chip, the A20 gate, the disk registers. The **main thread** runs
a uvw (libuv) loop with the callbacks of the UARTs' ptys, timers and async handles and of the
signal handler. They share the UARTs' registers, some booleans (`requestExit`) and nothing else.

| Part | State | Operations | What makes it correct |
|---|---|---|---|
| UART, `Serial16450` | `queue`, `receive`, the register booleans (readable, writable, two interrupt flags, two enables, DLAB), two one-shot timers, two async handles, whether the pty is read, the eventfd | loop: `data_event`, two timer callbacks, two async callbacks; CPU: register reads and writes | no byte lost, repeated, reordered; bounded buffer; each half always woken again; interrupts delivered |
| Flash chip | contents (a shared mapping of the file), `flashState`, KVM slots 4 and 5 | guest reads and writes of unmapped or read-only memory | only complete command sequences change the contents; identification is visible and then goes away |
| Virtual disk | `selectedDiskLBA`, `updateDiskMapping`, KVM slot 7; the option ROM's registers | int 13h 02h, 03h, 08h; disk registers | a transfer moves the sectors asked for; the window shows what the register says; calls end |
| Threads, set-up and mappings | `requestExit`, `cpuShutdownNotification`, `a20register`, `lastA20Register`, `updateDiskMapping`, `diskData`, KVM's eight slots | the set-up's system calls, exits of KVM_RUN, remappings, SIGINT, async callbacks, join | memory above 1 MiB is what the gate says, the disk window what the register says; KVM is asked for nothing it refuses; orderly end |
| `DS12887` | selected register, alarms, registers A-D, 114 bytes of memory, their file | index and data ports, constructor | memory survives the process; time formats agree |
| Port dispatch | constant tables of `AddressRange`; the data area of `KVM_RUN` | one look-up per exit | a port reaches its device; what the guest reads was written for it; unimplemented widths throw |
| Static handlers | none but the A20 and disk registers | one call per exit | they answer what was asked |
| `RuntimePaths`, `MachineConfig` | the user's data directory, the machine's, two images and a saved configuration in it | constructors, at each start | no image is overwritten or left half written; a start succeeds |
| `ProgrammableIntervalTimer`, `i386EXClockPrescaler` | three counters; a prescaler | command, counter and prescaler ports | counts are loaded, latched and read whole (not instantiated by `main`) |
| `ChipSelectUnit`, decoders, `RAM`, `ROM` | address and mask registers | register access, `selects...Address`, `map` | selects the programmed range, which shows the whole memory (no device attached yet) |
| `HexDisplay`, logger, checksum tool, `stringformat.asm` | none | | |

Interactions: the CPU thread calls the devices; a UART's register access sends an async handle
and queues a pty write, and its callbacks write an eventfd that KVM turns into an interrupt, upon
which the guest accesses registers again. The option ROM, run by the guest, drives the disk
registers, upon which the CPU thread changes the mapping the ROM copies through. SIGINT sets
`requestExit`, which the CPU thread tests between exits; when it leaves it notifies the loop.

What is hard: the UART's registers are plain booleans which both threads access, the CPU thread
under a mutex and the loop thread without it; wakeups are chained through handles and timers that
merge requests; an edge-triggered interrupt is lost if it is raised at the wrong time; a transfer is
cut into pages with all the boundary cases; mappings change by calls that can fail half way; the
process can die within the writing of its CMOS file or the copying of an image, and another instance may
start meanwhile. `PROJECT.json` lists these hazards one by one.

## The modules

Every action stands for a whole handler or for one access of state shared with the other thread.
`map` in `PROJECT.json` gives the lines of each definition. Definitions below a comment that
begins with "Slip" are the code with a plausible mistake in it. No specification uses them; they
stand next to the definition they would replace, and replacing it must break a property.

### Serial16450, TerminalInput

`Serial16450` is one UART under an arbitrary guest. The receiving and the sending half have the same
registers and nearly the same callbacks, so both are functions of a `Side`:

| Model | Code |
|---|---|
| `queue`, `receive` | `queue`, `registers.receive` |
| `ready["read"]`, `ready["write"]` | `registers.readable`, `registers.writable` |
| `flag`, `enabled` | `registers.readInterrupt...`, `writeInterrupt...` flags and enables |
| `timer`, `notify` | `readTimer`, `writeTimer` active; `readNotify`, `writeNotify` signalled |
| `reading` | the pty handle is reading |
| `irqfd` | the eventfd written by `triggerInterrupt` |
| `loop`, `cpu` | the next access of each thread; the mutex is held while `cpu # Idle` |
| `local` | the locals of the interrupt control write |
| `arrived` | the number of bytes the terminal has sent (bytes are numbered) |

The loop thread locks only around the queue, so its callbacks are split into single accesses:
`TimerSeesByte`, `TimerSetsReady`, `TimerSetsFlag`, `TimerTestsEnabled`, `TimerTestsOther`,
`TimerTriggers`. The CPU thread's accesses are split in the same way. Two accesses are joined where
only one thread ever writes the state concerned (the enables). Memory is sequentially consistent, but
the compiler's freedom is kept where it decides something: after `flag = ready; if (flag)`, a build
may reload the flag or reuse the stored value (`Builds`, `Tested`).

`TerminalInput` is what a guest may expect of the receiver: numbered bytes taken in order, once, and
(with `FairSpec`) each some day. `Input == INSTANCE TerminalInput WITH taken <- receive` is the
refinement; `InputOrder` is its safety, `InputSpec` the whole.

### SerialPolled, SerialIrq

Both constrain the arbitrary guest by a driver and reuse every other action. `SerialPolled` reads the
line status and accesses data only when its bit was set. `SerialIrq` adds KVM's irqfd, the 8259's edge
detection and a handler that reads the interrupt status until none is pending, signals the end of
interrupt and (where `rearm`, chosen at the start from `Rearms`) switches the enables off and on again, as
drivers for edge-triggered UARTs do. KVM and the 8259 are external: they are modelled from how Serial.cpp:106-132 registers the eventfd.

### Flash

The decoder of `KVM_EXIT_MMIO` (main.cpp:797-886). `Transition` is the table of command writes,
`Erased` what an erase blanks, `SetSlots` the two calls that map or unmap the chip and its alias, each
of which may fail. `written`, a history variable, holds the writes since `flashState` was last `Read`.

### VirtualDisk, VirtualDiskMC

The option ROM's transfer loop and the emulator's disk registers, at the grain of one copy and one
commit of the register. 02h and 03h run the same instructions with source and destination swapped
and are one transfer. Sectors are their LBAs, so `moved` says exactly what a call has copied. 16-bit
arithmetic is taken modulo 65536 and the signed jump of line 257 is `Signed`. `VirtualDiskMC` holds
the calls of the runs.

### Machine

The process from `main`'s first system call to its return. `MapsSlot` sets one of the eight slots, in the order of
main.cpp:466-517; the other calls of the set-up are `Opens`, `CreatesProcessor` and `CreatesDevices`. The CPU thread's
loop is one action per exit and one per system call of the two remappings that follow every port access: slot 3 for the
A20 gate (`FreesSlot3`, `MapsSlot3`; `high` is the build's `HIGH_MEMORY_SIZE`, zero for none) and slot 7 for the disk's
page (`FreesSlot7`, `UnmapsPage`, `MapsPage`, `MapsSlot7`). Any call may fail, for a reason of the system's or because
`Accepts` says KVM must refuse it; `Accepts` is external and states KVM's rules for slots. `ExitThrows` is the exception
a device raises for an access width it does not implement, which nothing catches. The notice that the CPU thread sends at
its end (`Leaves`) and the end itself (`Ends`) are two steps, so that it is the join (`Joins`) that keeps `main` from
returning in between.

### Startup

One or more instances of the program over one user's files: `RuntimePaths` before `main` (Config.cpp), the two parses of
the options and the populating of the machine's directory (MachineConfig.cpp), the opening of the images (main.cpp). A
copy is two steps, `CreatesFile` and `FillsFile`, with `CallFails` and `Killed` possible at any point and other instances
between. A saved configuration that is there but cut short may fail the second parse or leave it anything to do
(`StumblesOverConfig`). Guests change the images of running instances (`GuestWrites`), which makes an overwritten image visible. `cut`,
`faulted` and `overlapped` are history variables: whose writing was cut short, and which starts met a fault or a rival.

### Ports, Timer, Decoding, and Peripherals, which composes them with DS12887

`Ports` is the handling of `KVM_EXIT_IO`: both tables with their real ranges, the order on `AddressRange` by which the maps
find a port (`Before`, `Find`), the widths each device implements, what the static handlers assert in a build with
assertions, and the data area, of which each byte is known by who wrote it last.

`Timer` is one channel of the interval timer with the prescaler in front of it. `Resolve` is `resolveTimers`, which every
access makes first; the time since the one before is a parameter of every action, in clock periods. A latch that has been
read is forgotten (nothing reads it again), to keep the states few. Two history variables: `session` is how far the read of a
latched count has come, and whether another latch has torn it; `due` is how many clock periods an ideal counter, one that loses
no part of a tick, would still need to reach zero (`Elapse`), which `NeverAhead` compares with the code's.

`Decoding` is one chip select unit: registers are sets of bits, `iowrite16` replaces a half. The guest programs its
window (`Programs`) word by word in any order, or writes something else (`Scrambles`, `Turns`). Behind the unit is a
decoder with a `RAM` or `ROM`; `MemoryMap`, `DecoderMap` and `UnitMap` are the `map` functions of the three classes.

`Peripherals` instantiates these and `DS12887`. They share no variable in the code and never call each other: an interleaving
of two of them is two independent behaviours, so each behaviour of the composition moves one of them (`focus`) and no
property of one part can be lost by that. `PeripheralsMC` holds the inputs: windows, addresses at their edges, memories,
and the ports at both ends of every range and next to them.

#### DS12887, NonVolatileRam

The real-time clock's ports, its alarm registers in the four formats, its memory and the file. The stream
buffers all 114 bytes, so a store is two system calls, `OpenFile` (which truncates) and `CloseFile`, either of
which may fail unnoticed, and `Dies` can come anywhere between. The guest sets alarms to times the clock shows;
the clock itself is the bound variable of `SetAlarm`. `NonVolatileRam` is the abstract memory: its bytes, and
whether they are stored, being stored, or lost to a failed store. `failed` and `copied` are history variables.

### Serial16450_proof, SerialPolled_proof, SerialIrq_proof, Machine_proof, Flash_proof, VirtualDisk_proof, Startup_proof, Peripherals_proof

Theorems and proofs, see below.

## The runs

| Run | Question | Bounds |
|---|---|---|
| `uart` | Arbitrary guest, all interleavings: `FifoOrder`, `BackPressure`, `RxWakeup`, `TxWakeup`, `InputOrder` | 3 bytes, chunks of up to 2, both builds |
| `polled` | Polling guest: one token per half, the receive bit never lies, each read is new; with fairness `InputSpec` and `TxBecomesWritable` | 3 bytes, chunks of up to 2 |
| `irq` | Interrupt handlers: without rearming reads are new (`HandlerReadIsNew`) and writes are paced (`HandlerWriteIsPaced`); with one that rearms every byte is taken (`InputServed`) and everything is sent (`TxDrains`) | 2 bytes, chunks of up to 2, 3 to send; builds that load the flag again; drivers that rearm and drivers that do not |
| `irq_lost` | finding: without rearming, an interrupt is lost for ever (`RxServed`) | 1 byte each way |
| `flash` | `ChangesOnlyWhenArmed`, `EraseIsWhole`, `IdentifierVisible` under all series of writes | both unlock offsets, the first one's image in another sector, another offset; every command of the decoder |
| `flash_reset` | finding: a reset does not make the array readable (`ResetMakesReadable`) | identification commands only, no failing calls |
| `vdisk` | `TransferExact`, `CallEnds` over series of calls | 8 starts around page, word and disk boundaries, 9 counts around the page size and the sign bit |
| `vdisk_carry` | finding: a transfer across a multiple of 65536 sectors goes wrong (`CarryReachesHigh`) | 2 starts just below it |
| `machine` | From the set-up on: `A20Mapped`, `WindowMapped`, `RequestsAreLegal`, `StopsInOrder`, and `ExitIsReached` | no high memory, a megabyte, and as much as fits below the flash chip; otherwise finite |
| `startup` | `WholeUnlessCut`, `NeverOverwritten`, `StartSucceeds` (and of rivals, one) over all series of starts, failures and deaths | 2 instances, with and without `--no-save-config` |
| `startup_directory` | finding: a first start with `--data-directory` fails (`StartSucceeds`) | 1 instance |
| `peripherals` | timer: `LatchedReadIsWhole`, `NullCountHonest`, `LoadIsWhole`, `NeverAhead`; chip select: `WindowIsExact`, `StaysSelected`, `MemoryIsRepeated`; ports: `DispatchExact`, `AccessesAreAnswered`; clock: `Survives` (refinement of `NonVolatileRam`, whatever store is cut short), `AlarmReadsAsClock` | timer with bytes of 3 values (2 in decimal), one divisor, two delays (5 and 40 periods: from less than a tick, at the largest divisor that occurs, to several wraps of the count); 3 windows, 15 addresses, 2 memories; all edges of all port ranges, all widths; first and last CMOS byte and the century register, 2 values, 3 hours |

Why the bounds suffice. In `Serial16450` the behaviour depends on the queue being empty or not and
on which bytes it holds; three bytes in chunks of one or two give an empty, a partly drained and a
refilled queue, and every interleaving of two rounds of the wakeup chain. The counters exist only to
name bytes, and the theorems below are for every value of them. `irq` is smaller because of the cost of its
liveness; the lost interrupt needs one byte in each direction, and `irq` has one more to receive and two more to send (the third
is what shows that a driver that rearms may write too early). The flash decoder's state does not depend on offsets other than by the comparisons and the
sector, of which each outcome occurs. In `vdisk` each page-relative start class (first, middle, last
sector) meets each count class (below, at, above a page; below and at the sign bit).
In `startup` a race is between two; a third instance meets what one of two has left. In `peripherals` the timer's
arithmetic is in terms of `Radix` (256 in the code) and `Hundred` (100) only: with 3 and 2 a decimal byte that is too
large, the wrap of a register, of a count within a period and over several, and of the prescaler (whose divisor 7 is
the code's 0xFFFE) all occur. The decoding uses the real widths. The ports are compared with the ranges' ends only.
The CMOS file's treatment of a byte does not depend on the byte's value or neighbours.

`Flash`, `VirtualDisk`, `Machine`, `SerialIrq` and `Peripherals` say `CHECK_DEADLOCK FALSE`: a machine whose
`requestExit` is set, a guest whose handler has nothing left to do, and a process ended by an exception, an assertion or
a division by zero stop. `uart`, `polled` and `startup` are checked for deadlock.

## Fairness

- **Serial16450** (`Fairness`): weak fairness for the register access under way (the CPU thread runs straight to
  its unlock), strong fairness for the loop's work on each side (`LoopWork`: its async handle, its timer, its timer callback). libuv runs,
  in every iteration, all expired timers and all signalled handles, so none is passed over for ever in
  favour of another, and the loop's locked sections are short and compete with one other thread. Strong
  fairness is needed because an action of the loop is disabled while another callback runs or the mutex is
  taken. Nothing is assumed of `DataEvent`: the terminal need not send.
- **Startup**, **Peripherals**: none; their properties are of safety.
- **SerialPolled**: the guest's loop is strongly fair: it polls for ever, and gets the mutex. **SerialIrq**: the
  same for the handler, weak fairness for KVM's reaction to the eventfd. The guest need not halt or poll; that
  the interrupt is delivered at all is the question.
- **Machine**: the CPU thread runs on outside `KVM_RUN`, and the main thread runs on. Nothing is assumed of the guest: nothing
  interrupts `KVM_RUN` when an exit is requested, so a guest that spins without exits, or halts, keeps the process alive.
  `ExitIsReached` names that case (`[](cpu = "run")`) next to an exception of a device's.
- **VirtualDisk**: the guest's processor executes the handler on.

## Assumptions

- Memory is sequentially consistent between the threads. The booleans are not atomics, so formally the accesses
  are races; the model allows each interleaving of single accesses and, for the flags, the two values a
  build may test.
- A started timer fires at any later moment; the delay (the divisor) only matters for speed.
- libuv's handles: `send` on an async handle merges with a pending one; `start` on a running one-shot timer
  does not add a second expiry; the callbacks do start one only when it is not active.
- `pty->write` succeeds; the terminal's side of what is sent is not modelled.
- In `VirtualDisk` calls do not overlap.
- In `Startup` system calls are atomic, and a file whose writing is not cut short is complete; nobody else
  changes the user's files. An instance in which `--no-save-config` makes the images come from the current directory is
  out of the model.
- In `DS12887` a `write` of 114 bytes is one step with respect to the death of the process (the file system may
  still fail it); the machine itself, as opposed to the process, does not crash.

## The proofs

`Serial16450_proof` proves, for every `MaxBytes`, `MaxChunk` and set of `Builds` allowed by the assumptions:

- `TypeCorrect`: `Spec => []TypeOK`.
- `FifoCorrect`, `BackPressureCorrect`. The inductive invariant is `BufferInv == FifoOrder /\ BackPressure` with
  `TypeOK`: an arrival needs `reading`, which implies an empty queue, so the queue never exceeds a chunk, and the
  chunk appended is the successor of `arrived`. Only `DataEvent`, `ReadData` and `TimerResumesPty` touch it; `QuietSteps`
  says so of all other actions.
- `InputImplemented`: `Spec => InputOrder`, that each step is a step of `TerminalInput` or a stutter; `FifoOrder` makes
  the head of the queue `receive + 1`.
- `RxWakeupCorrect`, `TxWakeupCorrect`. `Wakeup`, their conjunction, is inductive with `TypeOK`: each action that takes
  a disjunct away establishes the next one in the chain (notify, timer, callback, ready, access, notify).

`SerialPolled_proof` proves that a polling guest is a guest (`PolledIsAGuest`: `PolledSpec => Spec`), so everything
above holds of it, and then `OneRxTokenCorrect`, `OneTxTokenCorrect`, `ReadableIsTrueCorrect` and
`EachReadIsNewCorrect`. "Exactly one token" is "some" (the wakeup invariants) and "no two" (`RxAlone`, `TxAlone`);
neither is inductive without `PolledAccess`: the guest makes only data accesses, each begun while its side was
ready, and the queue is not empty where the loop is about to set readable or has set it. That is what the polling
buys: without it (the arbitrary guest) a data read between `TimerSeesByte` and `TimerSetsReady` leaves the receive bit set
over an empty queue.

`Machine_proof` proves, for every set of sizes of high memory that end below the flash chip:

- `TypeCorrect`: `Spec => []TypeOK`.
- `StopsInOrderCorrect`. `StopInv`: the notice that the CPU thread leaves (`shutdown`), and main being past its loop,
  each mean that the thread has left its own and can only end; main past the join, that it has ended.
- `A20MappedCorrect`. `SetUpInv` says which slots main has set at each step; `GateInv` that from the loop on slot 3
  agrees with the register value *last compared*, unless a remapping is under way or has failed, and then the exit has been
  requested, so that `TestsExit` does not let the guest run. `A20Mapped` itself is not inductive: it says nothing of the
  states in between.
- `WindowMappedCorrect`. `WindowInv` gives, for each place between two calls of the disk's remapping, what slot 7 and
  the pointer are.
- `RequestsAreLegalCorrect`. `RegionInv` says that every slot holds one of its own regions or none; `RegionsFit`, that
  the regions of different slots are apart for every size of high memory.
  With them no remapping is refused for an overlap, and `GateInv` and `WindowInv` give the rest: what is deleted is there,
  what is mapped is not.

`Flash_proof` proves `IdentifierVisibleCorrect` (inductive as it stands), `ChangesOnlyWhenArmedCorrect` and
`EraseIsWholeCorrect`, for every set of offsets and commands. `ArmedInv` says of each state of the decoder exactly which writes led to it; with it, an erase
or a programming can only be the next write after its complete sequence. The other lemmas (`AppendTo1` to `AppendTo4`,
`Follows`) tell the provers what appending to those short sequences gives.

`SerialIrq_proof` first proves that an interrupt-driven guest makes only the UART's own steps, so that `TypeOK`, `FifoOrder`,
`BackPressure`, `RxWakeup` and `TxWakeup` hold of it (`UartCorrect`) and it implements the safety part of `TerminalInput`
(`IrqInputImplemented`), and then, for drivers that do not rearm, `HandlerReadIsNewCorrect` and
`HandlerWriteIsPacedCorrect`. The invariant is `HandlerInv`: each half of the UART has its turn in at most one place (signalled,
timer, callback, ready, flagged, reported to the handler), and a flag or a report that the handler may act on is truthful, that is, there
is a byte or the transmitter is ready. A driver that rearms breaks both, by having a condition flagged twice.

`VirtualDisk_proof` proves, for every set of requests within the geometry, `WindowCorrect` (the registers keep their ranges; in a
call the window is the page of the LBA selected) and `TransferExactCorrect`. `ProgressInv` says that what has been copied and what
remains (`bl`, a byte compared as a signed number) make up the request, and where in a page the next copy begins.
The carries between the register's words are lemmas about 16-bit arithmetic.

`Startup_proof` proves, for any number of instances and any set of options:

- `TypeCorrect`, and `WholeUnlessCutCorrect`, which is inductive as it stands.
- `NeverOverwrittenCorrect` from `FillInv`: an image that is being filled is still partial, and one instance fills it, because
  only one can have created it.
- `StartSucceedsCorrect`, for starts without `--data-directory` (run `startup_directory` shows that the restriction is needed)
  that read no configuration cut short.
  `OrderInv` says what is there at each step of a start, `AloneInv` that an instance that has met no rival finds nothing but what
  it made or found, `HopeInv` that without a fault one instance is still on its way or has succeeded, as the one that makes
  what others found missing takes over from them.

`Peripherals_proof`, for every value of its constants:

- Timer: `NullCountHonestCorrect`, `LatchedReadIsWholeCorrect`, `LoadIsWholeCorrect`, `NeverAheadCorrect`, for every `Radix`
  (the code's is 256), every delay and divisor. `LatchInv` and `LoadInv` say which digit of which count lies in the guest's hands
  between the two bytes; the lemmas `Remainder` and `Digits` are the arithmetic. `NeverAhead` is inductive with the types:
  the ticks taken off never stand for more time than has passed (`ElapseKeeps`), within a period and over any number of wraps.
- Ports: `DispatchExactCorrect` and `AccessesAreAnsweredCorrect`, for every set of ports. `DevicesApart`, `HandlersApart` and
  `TablesApart` show that no two entries of the real tables overlap; `PortsInv` that the handler of an access is one that the search finds.
- Chip select: `WindowIsExactCorrect`, `StaysSelectedCorrect`, for every window that the registers can express, and
  `MemoryIsRepeatedCorrect` for every memory of up to 64 MB. `SameBits` (two numbers agree from a bit on if and only if they have the
  same bits above it) and `InBlock` (the addresses of a window are those with its base's upper bits) carry them. That the memory
  is repeated whole follows in three steps: what is rounded up is the least power of two that holds the length; an address and its
  distance from the window's start agree modulo it, as the start is a multiple of the window's size; and what the decoder then
  maps is exactly that remainder, if it lies in the memory.
  `StaysInv` is the order of the writes: until the first word of the mask is written nothing is compared, and from then on the
  address register is the new one.
- Clock: `AlarmReadsAsClockCorrect`, for every time and format, from the invariant that an alarm that was copied from the clock's
  register reads as it; and `SurvivesCorrect`, the refinement of `NonVolatileRam`, with one case per action for the step it maps to.

Two devices are used where the provers offer none. A theorem of the library that takes an operator cannot be instantiated, so
induction over bits goes by a least counterexample (`Least`). Powers of two are known to the provers only as
numbers, so `Powers` goes through the thirty that a 32-bit address has.

The assumptions are the named ones on constants, no others: offsets lie in the chip and commands are bytes
(`Flash`), high memory ends below the flash chip (`Machine`), there is an instance (`Startup`), calls are within the geometry that
function 08h reports and move at most a segment (`VirtualDisk`), inputs have the widths of their registers and a window is one
that a unit can be programmed for, a power of two at a multiple of itself (`Peripherals`), and those of `Serial16450`.

One property was changed by its proof. `HandlerWriteIsPaced` was first stated of every driver, and `irq` found no violation with 2 bytes
to send. The invariant that its proof needed does not hold for a driver that rearms, and with 3 bytes to send, as the run has them now, TLC finds such a driver writing
to a transmitter that is not ready: switching the enables on flags the transmitter, and the callback that has just made it ready flags it once more. The
property is now about drivers that do not rearm, as `HandlerReadIsNew` is.

Only model-checked: liveness (`InputSpec`, `TxBecomesWritable`, `InputServed`, `TxDrains`, `CallEnds`, `ExitIsReached`), which
is out of the prover's reach, as `ENABLED` is. Every safety property of every passing run is a theorem. Each module's `TypeOK` declares the types of its variables; those of the
UART, of `Machine` and of `Startup` are theorems, and the other proofs establish what they need of theirs.

## What the models say about the code

Four runs end in a violation, each of a statement of the repository (`findings` in `PROJECT.json`):

1. `irq_lost`. The irqfd is in resample mode and the comment at Serial.cpp:135 promises a retrigger, but the code is
   compiled out. A trigger between the handler's last status read and its end of interrupt is lost; then both
   conditions stay flagged, each timer callback finds the other one flagged and triggers nothing, and the receiver
   is dead. The readme's "It also might hang, there are still a few bugs with the interrupt handling" is consistent
   with this.
2. `flash_reset`. A reset after an identification command leaves the chip unmapped, and a second identification
   command then ends the run.
3. `vdisk_carry`. `add dx, 2` between `add ax, 8` and `adc ax, 0` loses the carry.
4. `startup_directory`. With `--data-directory` the second parse of the options takes the machine's name off the path
   again after the images' paths were made from it, so that the directory they are copied to is not made.

Noted while modelling, without a statement in the repository to hold them against, and modelled as they are:

- An interrupt control write that repeats an enable whose flag a status read has cleared sets the flag again and
  triggers nothing (Serial.cpp:218-220): "new" is judged by the enables, not by the flags.
- Even a handler that rearms is not safe in every build: the interrupt control write stores a flag and tests it while
  the loop thread writes it without the mutex, and a build may test the stored value (`Tested`). With
  `Builds = {"reuse"}`, 1 byte to receive and 2 to send, TLC finds an input that is never served, so `InputServed` states as its
  precondition a build that loads the flag again; `TxDrains` has none and holds with either.
- With rearming, the read flag can be set for a byte already taken, so a status read may report data there is
  none of; and the write flag can be set twice for one readiness, so that the second write comes too early.
  `HandlerReadIsNew` and `HandlerWriteIsPaced` are therefore about handlers that do not rearm.
- An unaligned call for 128 sectors runs past the window because `bl` is compared as a signed byte: a bug at
  virtual-disk.asm:257 (`jng`, where the count is unsigned). `TransferExact` exempts it (`LongUnaligned`); no text of the repository
  says how many sectors a call may ask for, so it is listed here and not among the findings.
- SIGINT only sets a flag, on the loop's thread, and nothing interrupts `KVM_RUN` (main.cpp:639, 654-665). A guest that spins without
  exits never sees it; nor does one in `HLT`, which with the interrupt controllers in the kernel does not leave `KVM_RUN`.
- A guest access of the flash chip wider than a byte fails the assertion at main.cpp:806; in a build without assertions its first byte is
  taken, and that is the access of `Flash`.
- A saved configuration cut short is read by the second parse of the next start (MachineConfig.cpp:95-97, 118-125), which may
  fail or end up with other options; nothing repairs the file.
- A wide read of the disk registers copies the access's width from the word it selects and may read past it (main.cpp:219-220).
- A store of a CMOS byte truncates the file before it writes it (DS12887.cpp:96): a death in between loses the bytes stored before.
  `NonVolatileRam` allows that loss (`Lose`); `Survives` says that there is no other.
- The hour 12 written to the alarm in 12-hour mode is noon for AM and hour 24 for PM (DS12887.cpp:57-66); the clock
  itself shows noon as hour 0 PM. `AlarmReadsAsClock` is about hours in the clock's own convention.
- An image whose copy was cut short is never repaired: the next start finds a file and runs with it.
- Of instances that start at the same time some fail: the one that finds the directory made since it looked takes it
  for missing (Config.cpp:58-64), and the copy of an image made since throws.
- Timer: a read of a count that was not latched returns it as of the access before (Timer.cpp:135 comes before
  `resolveTimers`); time that is not a whole tick is lost at every access (line 206); the period is `reload + 1`
  (line 211); the divisor 0xFFFE wraps to zero and traps. A latch replaces one that has not been read, and a latch between the two
  bytes of a read leaves the read at its high byte (lines 56-59): the guest gets the low byte of one count and the high byte of
  another. `LatchedReadIsWhole` names that as its exception; a status read in between starts the read over. Because remainders are
  lost a count may lag behind its clock without bound; `NeverAhead` says that it never runs ahead.
- Chip selects: the enable bit is stored and not looked at, so that all units select something at reset. `RAM` says it
  may be mapped for writing and offers a mapping for reading; `unmap` does nothing once the unit was reprogrammed.
- A read of the POST port, and the upper bytes of a wide read of the keyboard's or the LCD's ports, return what the
  access before left in the data area.

## What is not modelled

Logging, the parsing of options and configuration, the checksum tool, `stringformat.asm`, and the values that the static
I/O handlers answer: they keep no state another part depends on. Of the set-up the processor's identification and initial
registers. Of `RAM` and `ROM` loading a file and giving pages back. libuv's and KVM's insides: `pty->write` is called
from the CPU thread on a handle of the loop thread, a race inside libuv. The UART's modem control, divisor and scratchpad
registers. The timer's operating modes, which the code stores and does not use. Function 08h of int 13h and the chaining
to the BIOS.

## The plan

In the order of importance:

1. (done) The UART with both kinds of guests, the core of the system, with its proofs; flash, disk, threads, CMOS.
2. (done) Start-up over the user's files with failing and interrupted copies and rival instances.
3. (done) Set-up and both remappings with high memory; timer and prescaler; chip selects and memories; port dispatch.
4. `DS12887`: reading the time in several accesses against a clock that ticks, composed with `Startup`'s files; the
   option ROM's installation and function 08h.
5. (done) Proofs of every safety property that a passing run checks, in all modules.
6. Proofs: the type invariants of `VirtualDisk`, `Flash` and the parts of `Peripherals` as theorems of their own.
