# A specification of the ssagarWyoos kernel

TLA+ modules for the kernel in `src/` (a small i386 operating system after
"Write your own Operating System"), TLC configurations that check them on small
instances, and TLAPS proofs of what matters most for every instance. Paths below
are relative to the repository, which is the directory `src/` here: the C++
files are in `src/src/`, the headers in `src/include/`.

## 1. The system

The boot loader jumps to `loader.s`, which runs the static constructors and
calls `kernelMain`. With interrupts disabled, `kernelMain` creates the heap, the
task table, the interrupt manager and the drivers, enumerates PCI, activates
keyboard and mouse, reads the partitions of a disk, and at last enables
interrupts. From then on everything happens in interrupt handlers: the timer
switches tasks, the two input drivers report to event handlers, and tasks make
system calls. There is one processor; every gate is an interrupt gate, so
handlers are not interrupted.

| Component | State | Operations | Interacts with | What is hard | What makes it correct |
|---|---|---|---|---|---|
| Heap (`memorymanagement.cpp`) | doubly linked list of chunk headers inside the heap | constructor, `malloc`, `free`, `new`, `delete`, destructor | its callers | long sequences of calls; four links per merge; sums that wrap | list tiles the heap, free neighbours are merged, blocks are disjoint and stay put |
| Task table (`multitasking.cpp`) | table of tasks, current index, saved frame per task | `AddTask`, `Schedule` | called by interrupt dispatch | order of save and index update, wrapping index, full table | each task resumes on its own stack and gets its turn |
| Interrupt dispatch (`interrupts.cpp`) | active manager, table of handlers, the two 8259 controllers | construction, registration and destruction of handlers, `Activate`, `Deactivate`, `HandleInterrupt` | every driver, the scheduler | requests at any instruction, spurious ones, two controllers, handlers that go away | every hardware interrupt is acknowledged, no request starves, no dangling handler |
| Stubs and context switch (`interruptstubs.s`, `Task`, `CPUState`) | stacks and registers | stub, `int_bottom`, `iret`, `Task::Task` | dispatch, scheduler | layout agreed by four pieces of code; exceptions with and without an error code | interrupts are invisible to the code they interrupt |
| System calls (`syscalls.cpp`) | none | call 4 writes a string | console | reads the caller's registers from its frame | it sees the caller's `eax` and `ebx` |
| Keyboard and mouse (`keyboard.cpp`, `mouse.cpp`) | shift flag; packet buffer, offset, buttons | `Activate`, `HandleInterrupt` | one PS/2 controller with one output buffer | bytes of two devices and of the controller in one buffer; answers that come late | both devices are heard and the controller's other bits are kept; keys and movements are reported once, in order |
| Disk (`ata.cpp`) | none in the driver; the drive's protocol state | `Identify`, `Read28`, `Write28`, `Flush` | file system | drives that are absent, slow or failing; whole sectors only | calls return; no word is left behind; sectors are read and written truly |
| Partitions and FAT32 (`msdospart.cpp`, `fat.cpp`) | loop variables and sector buffers | `ReadPartitions`, `ReadBiosParameterBlock` | disk driver, console | failed reads that leave stale buffers; clusters, chains, sizes at boundaries | files are printed completely; the boot goes on |
| Driver list (`driver.cpp`) | table of 265 drivers, their number | `AddDriver`, `ActivateAll` | `kernelMain`, drivers | unchecked table without initial values | drivers are activated once, in the order they were added |
| Boot (`kernelMain`) | the objects it constructs, one after the other | none: it runs once | everything | handlers that are registered before they are complete; sizes computed from what the boot loader says | all that handlers and drawing rely on is there when interrupts are enabled |
| Console (`kernel.cpp`) | text buffer, `printf`'s cursor, the mouse's cursor | `printf`, `OnMouseMove` | every component prints; mouse driver | two cursors on one buffer; an `int8_t` that wraps; the cleared screen | both cursors stay on the screen, one cell is inverted, nothing is overwritten |
| GUI (`gui/`) | tree of widgets, positions, dragging, focus, pointer; the picture | `AddChild`, mouse events, key events, `Draw` | input drivers, VGA | events reach several windows; focus is a path set link by link; events in the middle of drawing | a dragged window lets go with the button, keys reach the widget pressed last, the picture catches up |
| VGA (`vga.cpp`) | the card's registers, frame buffer | `SetMode`, `FillRectangle`, `PutPixel` | GUI | write-protected registers, an index latch left anywhere | every register of the mode holds the table's value and the picture is on |
| PCI (`pci.cpp`) | none | scan of buses, devices, functions, registers | driver list | uninitialised registers, devices that answer for functions they do not have | each function is found once, with its I/O address if its header is of type 0 and has an I/O register |
| GDT (`gdt.cpp`) | four descriptors | encode, decode | dispatch, tasks | 32-bit limits squeezed into 20 bits | the segment ends less than a page below what was asked for, never beyond |

`PROJECT.json` lists all components with their status, and under `hazards` the
places in this code that are hard to test, each with the properties that would
catch it going wrong or the reason why none does yet.

## 2. Modules

| Module | Models | Relation |
|---|---|---|
| `Allocator` | what `malloc` and `free` promise | abstract specification |
| `MemoryManager` | `memorymanagement.cpp` | implements `Allocator` |
| `RoundRobin` | what the scheduler promises | abstract specification |
| `TaskManager` | class `TaskManager` | implements `RoundRobin` |
| `ContextSwitch` | stubs, `Task`, `CPUState`, `DoHandleInterrupt`, system calls | composes with `TaskManager` (its `AddTask` and `Schedule` are `TaskManager`'s actions) and implements it |
| `InterruptManager` | `interrupts.cpp`, with controllers and interrupt flag | |
| `UserInput` | what the input drivers promise | abstract specification |
| `InputDrivers` | `keyboard.cpp`, `mouse.cpp`, the PS/2 controller they share | implements `UserInput` |
| `AtaDriver` | `ata.cpp`, with the drives on the bus | |
| `FatReader` | `msdospart.cpp`, `fat.cpp` | assumes of `Read28` what `AtaDriver` shows |
| `Console` | `printf` and `MouseToConsole` of `kernel.cpp` | |
| `Desktop` | `gui/`, with the drawing of `vga.cpp` | |
| `EventHandlers` | which of the two hears of keys and movements, per build | composes `Console` and `Desktop` |
| `Gdt` | `gdt.cpp`, descriptors byte by byte | operators |
| `Pci` | `pci.cpp`, with the configuration space | |
| `Vga` | the mode setting of `vga.cpp`, with the card | |
| `Boot` | `kernelMain`, `driver.cpp` | composes `Pci`, `Gdt` and `Vga`; establishes what the others start from |
| `*_proofs` | theorems and proofs about the module of that name; `Boot_proofs` also about what `Boot` is composed of and about `FatReader` | |
| `MC*` | values of the constants for TLC | |

How state and actions correspond to the code:

- **MemoryManager.** `chunk[c]` is the header at address `c`, for the headers in
  the list; `pFirst`, `size`, `pChunk` are the variables of the code. The walk of
  `malloc` is one step per iteration (`ScanNext`, `MallocTakes`, `MallocFails`);
  `free` is one step, composed of its two merges (`MergePrev`, `MergeNext`).
  Every sum of the code is taken modulo the number of `size_t` values. `held` is
  the clients' side: what they were given and have not freed. Clients free only
  what they hold. Placement `new` changes nothing and is left out.
- **TaskManager.** A frame is known by its address; `Stack[c]` are the addresses
  on the stack of context `c`. `Tick` leaves a frame on the stack of the context
  that runs and calls `Schedule`. `AddTask` that returns false changes nothing
  and is not a step.
- **ContextSwitch.** Stacks are arrays of words. `Work`, `Call` and `Ret` are the
  code that is interrupted; `Interrupt` pushes what processor, stub and
  `int_bottom` push, `DoHandleInterrupt` chooses the frame and forgets what lies
  below it, `Resume` pops in the order of `int_bottom` and `iret`. `left` is a history variable:
  the processor's registers at the interruption.
- **InterruptManager.** `pc` follows an interrupt through `HandleInterrupt` and
  `DoHandleInterrupt`; `step` follows `Activate` and `Deactivate` statement by
  statement, with interrupts in between. `Raise`, `Accept`, `AcceptSpurious`,
  `Eoi` and the priorities are the 8259 controllers, external, in fully nested
  mode, the mode the constructor programs. `Spec` allows every use of the class;
  `KernelSpec` is what `kernelMain` does: one `Activate`, no `Deactivate`. Each
  handler returns the `esp` it got, as all handlers of the repository do.
- **InputDrivers.** One step per access to the controller that matters: the
  output buffer `obf` holds one byte and who sent it; the configuration byte is
  the set of its bits. The controller cannot answer into a full buffer: a byte
  that was left there is read in place of the answer (`Answer`). Handlers are one step, since they run with interrupts
  disabled and touch the port once. What a key prints is abstracted to its scan
  code and the shift state.
- **AtaDriver.** Registers and command are written in one step, because no drive
  acts before the command; then `Poll` is one step, taken when the polling loop
  ends, and every word of the transfer is one.
  `Ready` is a drive ending its busy phase, well or with an error, whenever it
  likes. `accepted` is a history variable: a drive that is still busy ignores a
  command, and the driver cannot know.
- **FatReader.** One step per `Read28` or loop turn. A sector's content is a
  record of what the code uses of it. A failed read leaves the buffer as it was;
  a sector of another kind shows as one of the contents of `Garbage`.
- **Console.** `Put` is one turn of `printf`'s loop, clearing included. A cell has
  its character in `text` and its two attribute nibbles in `attr`. Characters
  from 0x80 on are sign-extended and spoil the attributes, as in the code.
  Movements may come between any two characters, which is more than the kernel
  does: everything it prints is printed with interrupts disabled.
- **Desktop.** One step per event handler, since handlers are not interrupted, and
  three kinds for drawing: `DrawDesktop`, `DrawChild` for a window with its
  widgets, `DrawCursor`, with `todo` as the place in the loop. `isFocusable` gets no value in any constructor
  and has any value at first. `pressed` is a history variable.
- **Pci.** One step per device, function and base address register; the address
  goes through `Id` as it does through the port. A variable without a value
  holds one of `Leftovers`.
- **Vga.** `Mode` is the driver's table; a register goes by the place of its value
  there, as `registers` walks over it. One step per turn of a loop of
  `WriteRegisters`, and one each for lifting the protection and for the last
  index. The card ignores writes to the CRTC's registers 0 to 7 while bit 7 of its
  register 0x11 is set, and takes writes to the attribute port in turn as an index
  and as a value (`latch`), whatever the driver means them to be; bit 5 of the
  index turns the picture on.
- **Boot.** `stage` is the statement of `kernelMain`; a handler is entered into the
  table ("base") one step before it is complete. Sizes are in KiB, so that the
  wrap at 4 GiB is at 2^22.

## 3. Runs

Each run asks one question; all are in `PROJECT.json` with their properties.

| Run | What it shows | Bounds, and why they are enough |
|---|---|---|
| `heap` | the heap's invariant, disjoint blocks that stay put, full recovery when everything is freed, `malloc` returns, and all promises of `Allocator` | 80 bytes with 16-byte headers in a 4096-byte address space: up to four chunks, so merges with none, either and both neighbours occur; sizes 0, 9, 30 give exact fits, leftovers one byte too small to split, and refusals; 4090 plus a header wraps |
| `tasks` | own stacks, turns, `RoundRobin` | three tasks, three slots, two frames each: a task twice in the table, a full table, additions before and after the first tick, index wrapping at every length |
| `interrupts` | acknowledgement, no dangling handler, selective destructors, no starvation | one manager, as in the kernel; two handlers competing for one number; the timer, another line of the master, one of the slave; spurious requests; a breakpoint and a system call |
| `context_switch` | registers restored, system calls see their caller, same moves as `TaskManager` | two tasks and `kernelMain`; stacks deep enough for a frame and a nested function call (17 words); two register files in which every register has a value of its own; timer, keyboard, system call and an exception with an error code |
| `input` | both devices heard and the other bits of the configuration kept, packets framed, no byte stuck, `UserInput` for keys and movements | any initial configuration, a byte left in the output buffer or none; one letter key and a shift key with their releases, three packets (negative movement, press with and without movement); two bytes waiting in the keyboard and four in the mouse, so that a packet is under way while another device's byte blocks the buffer |
| `disk` | true reads, nothing left in a drive, sectors written whole, every call returns | sectors of two words; byte counts 1 and 3 (odd, within a word and across two); two sectors whose numbers differ in the order of two address bytes, the second on the master only, and a number of more than 28 bits; each drive present or not, slow or failing at any point. Two sectors are needed: a busy drive ignores a command, and the words of that call can then end up in the sector of the one before |
| `volume` | no sector of a file skipped, the boot goes on | sectors of two bytes; two sectors per cluster, two FATs of four sectors, a chain that runs back and forth over the FAT; a file of two and a half clusters and one of exactly one; a partition that is not FAT; up to two failing reads per volume |
| `screen` | the mouse's cell, blank cells ahead, dragging, keys, a picture that catches up; both builds | a text screen of 3 by 2 cells, where every place is near an edge, with an `int8_t` of 3 bits so that movements wrap; three kinds of characters; a desktop of 3 by 1 pixels with two windows that overlap and one widget in each, the widgets focusable or not |
| `boot` | interrupts are enabled on a complete kernel, with a graphics card that took every register of the mode; the heap lies in memory exactly on machines with 10 MiB + 10 KiB above the first; the scan finds each function once | two buses with two slots each; empty slots, a device with one function that answers for all, one with functions 0 and 2 of three, of which one is a bridge; memory of 32 MiB, 3 GiB, the least that leaves a heap and one KiB less; the card's registers all 0 or all 255, so that it is protected or not, its attribute port expecting an index or a value; variables without a value hold nothing or a port number |
| `faults` | finding: exceptions without an error code return to the wrong address | as `context_switch`, with exception 3 |
| `buttons` | finding: button events do not follow the buttons | as `input` |
| `extra_sector` | finding: one sector too many per full cluster | as `volume` |

The last three are expected to be violated: each states what a comment of the
repository says of the code, and TLC shows how the code does otherwise;
`PROJECT.json` quotes the lines under `findings`. `buttons` has a visible
consequence: bit 3 of the first byte is always set, so that *every* movement is
reported as the first button going down.

`CHECK_DEADLOCK FALSE` stands in `heap` (a destroyed manager with no block held
has nothing left to do) and in the two runs of `FatReader` (the partitions are
read once).

The 3-by-1 desktop of `screen` is one pixel high, so that the state space stays
small; what the run checks of windows and focus is proved for every size
(section 4), where both axes count.

### Fairness

- `MallocReturns`: weak fairness of the loop of `malloc`, a plain loop.
- `EveryTaskRuns`: weak fairness of `Tick`: the timer never stops. Additions
  end by themselves, since the table is full at some point.
- `RequestsServed`: weak fairness of the steps of the handler, which runs with
  interrupts disabled; strong fairness of the remaining boot steps, because the
  interrupted code goes on between interrupts, and of `Accept` per line, because
  the processor looks for a request before every instruction. The property is
  conditional: a line is served if there are again and again moments without a
  request of higher priority.
- `BytesTaken`: weak fairness of the boot, of the mouse handing over a byte, and
  of the two handlers (that requests are served is what `RequestsServed` shows).
- `CallsReturn`: weak fairness of the driver's loops and of each busy drive
  becoming ready or failing. Without the latter the polling loops do not end:
  they have no timeout.
- `VolumeEnds`: weak fairness of the reader; that each `Read28` returns is
  `CallsReturn`. It is stated for volumes whose clusters have sectors.
- `DrawingCatchesUp`: weak fairness of drawing: `kernelMain` ends in a loop that
  does nothing else. It is conditional: either events never cease, or the true
  picture is on the screen again and again.

## 4. Proofs

The eight proof modules hold for all values of the constants that the named
assumptions of the modules (`HeapAssumption`, `TaskAssumption`,
`InterruptAssumption`, `ContextAssumption`, `InputAssumption`, `AtaAssumption`,
`FatAssumption`, `ConsoleAssumption`, `DesktopAssumption`, `PciAssumption`,
`VgaAssumption`, `BootAssumption`) allow. TLC evaluates the assumptions for the instances of the
runs. Some say something of the outside: `ContextAssumption` that a stack
has room for a frame (4096 bytes have), `PciAssumption` that a device which is
there has a function 0 and a vendor that is neither 0 nor 0xFFFF (the values the
bus reserves for an empty slot, which `SelectDrivers` tests for), at most 6 base
address registers, and no more buses, devices and functions than the
configuration address has bits for. `FatAssumption` takes from `Read28` that
sectors which can be read have numbers of 28 bits (`ata.cpp:94`).

**Heap** (`MemoryManager_proofs`). The inductive invariant is `IInv`: the list is
typed, linked both ways, disjoint and covers the heap (`HeapTiled`), has no two
free neighbours (`Coalesced`), agrees with what clients hold
(`HeldAreAllocated`), and the walk of `malloc` has passed only chunks that do not
fit (`NothingMissed`). `BlocksDisjoint` alone is not inductive: it needs to know
that a block is a chunk and chunks are disjoint, which needs the links, which
`free` preserves only because `prev` and `next` are inverse. The argument goes by
what the two list operations do: `SplitKeepsListExact` and
`AbsorbKeepsListExact` show that cutting and merging keep the list exact, and
that no sum wraps. The strict `>` of the search is what makes the split's sum
safe for sizes near the end of the address space. From `IInv` follow
`BlocksNeverOverlap`, `HeapIsRestored` (a free first chunk with no free neighbour
is the only one), `BlocksNeverMove` and the refinement
`HeapImplementsAllocator`: `MallocTakes` is `Grant`, `MallocFails` is `Refuse`
(by `NothingMissed` and `Coalesced` there is no room), all other scan steps
stutter.

**Scheduler** (`TaskManager_proofs`). `TypeOK` and `OnOwnStack` are inductive
together. `TableIsRoundRobin` maps the slots after the current one, cyclically,
to the queue of tasks waiting; the work is the arithmetic of the index
(`NextIndexIs`, `TickTurns`, `AddTaskTurns`).

**Context switch** (`ContextSwitch_proofs`). `Transparent` is not inductive: it
compares registers after `iret` with registers before the interruption and says
nothing of the time between, in which other contexts run. The invariant `IInv`
therefore says where everything is: the context whose turn it is runs, is in its
handler, or is about to be resumed (`TurnInOrder`); every other task is
`Suspended`, that is, the frame its object keeps lies in its own stack, would put
back what the processor held when the task was interrupted (`Restored`), and has
nothing but return addresses above it. `PopsUndoPushes` is the layout: what
`int_bottom` pops is what stub and processor pushed, word by word. That a task
stays suspended while others push and pop rests on the stacks being disjoint;
that the frame chosen is a suspended task's rests on `TaskManager`'s own
invariant, which is taken over by instantiating `TaskManager_proofs`
(`Table!Inv`). All four theorems have the hypothesis that only exceptions with an
error code occur (`Exceptions \subseteq WithErrorCode`); the run `faults` shows
that they do not hold without it. With `PreemptionIsTaskManager` the scheduler's
theorems are theorems about the running kernel.

**Interrupts** (`InterruptManager_proofs`). `IInv`, under `KernelSpec`: the flag is
set only in interrupted code with an active manager, and what is in service is at
most what the interrupt being handled put there, step by step up to the last EOI.
`Acknowledged` alone says nothing of the states inside the handler and is not
inductive. A lemma on vectors (`TrapGate`) shows that no exception or `int`
instruction is taken for a hardware interrupt, for every legal offset.
`HandlersAreAlive` and `DestructorsAreSelective` hold under `Spec`, for every use
of the class.

**Text screen, windows and focus** (`EventHandlers_proofs`). Four invariants are
inductive together, the console's and the desktop's each on its own. For the
console: types, `MouseCellInverted` and `BlankAhead`; the work is in the
`int8_t` (`MovedForward`): columns 0 to 79 plus a movement of at most 48 do not
wrap (`NeverTurns`), and whatever wraps is clamped. For the desktop `DesktopInv`
adds to the types that only windows on the desktop are dragged, so that a window
which is added later does not begin in the middle of a drag; that a window with
the focus has a focussed widget, so that the path of a key ends in one; and
`FrontWindowFollows` and `KeysReachLastPressed` themselves. `FrontWindowFollows`
rests on the order of `OnMouseMove`: the front window is the first child that is
under the pointer, is told first, and moves by what the pointer moves
(`GripKeeps`), after the pointer has been limited to the screen.

**Input drivers** (`InputDrivers_proofs`). `IInv` says of each step of the boot
what is in the output buffer (`Answers`: drained before the first answer is read,
and nothing from a device before it is enabled), what of the configuration has
been set and that the rest of it is untouched (`Configured`), and that the mouse has sent nothing or only its
acknowledgement (`Acknowledged`). From it follows `BothAreHeard`.
`PacketsFramed` adds `Framed` and is proved for a mouse that acknowledges before
the driver reads (`MousePrompt`); it counts bytes taken, on the way and left
modulo three (`Thirds`). `AllIsReported`, under the same hypothesis, is the
refinement of `UserInput`. Its mapping puts the bytes of the mouse together from
four places (packet buffer, output buffer, mouse, and without the acknowledgement
while that is under way) and cuts them into packets from the far end, so that the
packet that is partly taken stays in front. The work is in how cutting and
joining commute: `CutBehind` for a packet that enters, `CutInFront` for one that
leaves, and `WholePackets`, which draws from `Framed` that what lies behind the
packet under way is a multiple of three bytes. `KeysStay` and `BytesStay` say that
all other steps only move bytes from one place to the next.

**Disk** (`AtaDriver_proofs`). `IInv` relates the loop the driver is in to the
state of each drive: `Offered` (a drive that offers a sector does so for the call
in progress, and has as many words left as the loop has turns), `Reading` (what
has arrived so far), `Writing` (what the drive has been sent so far is what the
call's buffer has, padded). `InStep` alone is not inductive, since it says nothing of a
transfer under way. `AddressExact`: the four registers tell the drive exactly
the 28-bit number the caller passed. `SectorsAreWhole` says of a write only what
the code ensures: it is the sector asked for *if the drive took the command*.

**FAT** (end of `Boot_proofs`). Types for every content of the disk: nothing read
from a disk can move the terminator out of the buffer or the directory loop out
of its sector. The invariant follows the phases of the loops; that a cluster is
left after exactly one sector too many is part of it. The cluster's size may
change between volumes, so the bound on `sectorOffset` is stated in the loop only.

`FilesAreComplete` is about what is printed. Its invariant has two parts.
`LayoutInv`: while no read failed since the volume was opened, the parameter block
and the directory in memory are those of the volume. `FileInv`: some number *n* of
the file's sectors is printed in order, `SIZE` is what is left after *n* sectors,
and, as long as something is left, `nextFileCluster` is the *q*-th cluster of the
file's chain and *n* is *q* whole clusters plus the place in the loop (`Reached`).
The sector too many is in there: it is read when *n* already counts the whole
cluster, and taken off neither *n* nor `SIZE`. What the code computes modulo 2^32
is compared with the layout in plain integers (`ModAdds`, `LayoutIs`, `OnDisk`).
The chain is defined by recursion, for which no induction theorem of the library
can be used here; `SetInduction` states induction for a set instead of a
predicate (from the well-foundedness of `<`), and with it `ChainUnfolds` is proved
from finite beginnings that exist and agree. The hypotheses are those of the
property itself (`Sound`): the volume's parameter block, its root directory, the
links the file needs and its sectors can be read, clusters have sectors, the file
is smaller than 2 GiB, and no read failed.

**Boot** (`Boot_proofs`). `BootInv` says of each statement of `kernelMain` what is done
by then; `KernelIsReady` follows at the last one. It rests on
`DescriptorsDescribe`, the arithmetic of the descriptor for every 32-bit base and
limit, and on `HeapFits`: the heap lies in memory if and only if the machine has
the 10 MiB + 10 KiB above the first MiB that `kernel.cpp:170` takes for granted.
For the picture, `VgaInv` says that the card's registers hold the table up to
`place`, and that the CRTC is not protected once the loop over it has begun;
register 0x11 is written in that loop, and it stays unprotected because the
table's own value has bit 7 clear. `PairWrites` shows that a pair of writes to the
attribute port, after the reset port was read, is an index and its value for every
state of the latch. `VgaSteps` puts them together, one loop after the other.
`IdsDesignate` is the arithmetic of the configuration address.

**PCI** (`Boot_proofs`). `ScanFindsAll` needs the invariant `ScanInv`: where the four
loops are (`LoopsOK`), that what was found is there, lies behind the loops and was
found once (`FoundOK`), and that everything that is there and lies behind the
loops was found (`NoneMissed`). `LoopReaches` shows that the loop over functions
covers every function a device has; it is where a device that answers for
functions it lacks, and one whose header does not say that it has several, are
told apart. `IdsDesignate` is what makes each read one of the place it is meant for.

Only model-checked: liveness under fairness (`MallocReturns`, `EveryTaskRuns`,
`RequestsServed`, `BytesTaken`, `CallsReturn`, `VolumeEnds`, `DrawingCatchesUp`),
which is out of the prover's reach. Every safety property, action property and
refinement of the passing runs is proved.

## 5. What is assumed or left out

- Heap: clients free each block once and only blocks they hold; calls do not
  overlap (no code allocates once interrupts are enabled); start plus size does
  not exceed the address space. `ReadyWhenEnabled` shows that `kernelMain` gives
  the heap memory that is there exactly on machines with at least 10 MiB + 10 KiB
  above the first MiB; with less the subtraction at `kernel.cpp:170` wraps and the
  heap seems to be almost 4 GiB.
- Tasks: `AddTask` is not interrupted: the calls in `kernelMain`, commented out at
  this commit (`kernel.cpp:187-192`), come before it enables interrupts. (`AddTask` counts the task before it stores it; a tick in between
  would schedule an uninitialised slot.)
- Interrupts: handlers are constructed and destroyed outside handlers; that a
  handler is fully constructed before interrupts are enabled is part of
  `ReadyWhenEnabled`. `Acknowledged` is stated for the calls of `kernelMain`:
  `Deactivate`, which it never calls, clears `pActiveInterruptManager` one
  statement before `cli`, and a request taken in between is never acknowledged.
- Context switch: the code of a context keeps to its stack.
- Input: the keyboard's bytes, its answer to 0xF4 included, reach the output
  buffer only after interrupts are enabled. If that answer came before the
  mouse's `Activate` reads the configuration, it would be written back as the
  configuration. `Framed` assumes that the mouse has acknowledged when the driver
  reads once (`mouse.cpp:58`): an acknowledgement that comes later is taken for
  the first byte of a packet, and all packets are shifted. Ports are written without polling the input buffer, as if the
  controller were always ready.
- Disk: callers' counts are at most 512, as all calls in the repository; DMA,
  interrupts of the drive and LBA48 are not used by the code.
- Screen: windows are children of the desktop and hold plain widgets, which is all
  that `kernelMain` and the classes' own code build; deeper trees of composite
  widgets are possible and left out. The kernel's own two windows have no
  widgets, so that keys go nowhere in its graphics build.
- Boot: the loader's stack and the linker script are not modelled; `Identify` and
  `ReadPartitions` are one step there and modules of their own.
- FAT: the reader prints file contents; names of entries, wording and layout are
  left out. `NothingSkipped` is stated for files below 2 GiB (the size is read
  into an `int32_t`) on sound volumes that are read without an error.

Some behaviour of the code that no property forbids, because no line of the
repository claims otherwise, but that a reader should know:

- A window *behind* another can be dragged by a press on both, be left by the
  pointer, and never hear that the button came up: `OnMouseUp` goes to the
  children under the pointer. `FrontWindowFollows` is therefore stated for the
  front window.
- `FillRectangle` compares unsigned numbers (`vga.cpp:148-149`): a window that is dragged
  over the left or upper edge disappears at once.
- `Write28` looks at no status. The words of a call whose command a busy drive
  ignored go to the sector of the call before it.
- A character from 0x80 on overwrites its cell's attributes (`kernel.cpp:46`), and
  the mouse's inversion with them.
- A volume with no sectors per cluster keeps the boot in the loop (`fat.cpp:92`).
- A function of a bridge, or one without an I/O register, may be given whatever
  an uninitialised variable held as its I/O address: the descriptor's `portBase`
  has no value of its own, and for a register a bridge does not have
  (`pci.cpp:157-158`) neither has the result. `ScanTrue` says nothing of the
  address of such a function.
- Two shift keys: releasing one ends the shift (`keyboard.cpp:142`).

Not modelled: port I/O and types (`port.cpp`, `port.h`, `types.h`), one
instruction per method and no state; `loader.s` and `linker.ld`, which run before
there is any state; `Write` of the PCI controller, `Reset` and `Deactivate` of the
drivers, which nobody calls; the wording of what is printed, which key has which
character, and what the values of the mode's registers mean to the monitor.

## 6. How the modules came about, and what is left

Order of work, the most important behaviour first; all of it is done.

1. `MemoryManager` and `Allocator`, with proofs of invariant and refinement.
2. `TaskManager` and `RoundRobin`, with proofs.
3. `InterruptManager`, with proofs of its safety properties.
4. `ContextSwitch`, composed with `TaskManager`, with proofs.
5. `InputDrivers` and `UserInput`, with proofs of invariants and refinement.
6. `AtaDriver`, with proofs.
7. `FatReader`, with proofs of its types and of `NothingSkipped`.
8. `Console`, `Desktop` and their composition `EventHandlers`, with proofs.
9. `Gdt`, `Pci`, `Vga` and their composition `Boot`, with proofs.

Left for later: a keyboard specification with two
shift keys and prefixed codes; windows within windows.
