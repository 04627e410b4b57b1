# Dancy: a TLA+ verification of the kernel and its user space

Dancy is a small operating system: boot loaders (`src/boot`), a preemptive
multiprocessor kernel (`src/kernel`), the FAT library (`src/common/fat.c`) and a
user space with a C library, a shell and programs ("Arctic", `src/arctic`). The
modules here are translated from the C and assembly source. TLC checks them on
small instances; TLAPS proves what matters most for every number of tasks,
processors, structures, signals, events and slots.

## 1. Inventory

| Part | State | Operations | What is hard | Correct when |
| --- | --- | --- | --- | --- |
| Task switching (`base/task.c`, `a64/task.asm`) | the words `active`, `stopped`, `uniproc`, the event function and the counter of each task structure | switching, polling events, creating, exiting, recycling | a processor is on the old stack while the next task is chosen; interrupt handlers switch inside these operations | no stack is shared, only complete contexts of live, permitted tasks are entered |
| Task list and waiting (`base/task.c`) | the circular list, the pool, identifiers, owners | create, exit, wait, caretaker | waits walk the list without the lock while structures move | list and pool stay whole, a value is claimed once, by the right task |
| Mutexes, events, sleeping (`base/mtx.c`, `base/event.c`, `base/sleep.c`) | lock and yield words in reused slots; signals and a 32-bit tick counter; two clocks | lock, unlock, signal, wait, sleep | lost hints, wrap-around, a signal between the scan and the block | exclusion, a signal wakes one, limits neither early nor missed |
| Scheduler (`sched/sched.c`) | state words, priorities, the starvation counter | `yield` | failing switches, pinned tasks | no task on two processors, none starved |
| Spawning and signals (`syscall/spawn.c`, `syscall/kill.c`, `base/ret_user.c`) | an argument on the parent's stack; pending bits, masks, groups, sessions | spawn and its error paths, kill, masks, return to user mode | parent and child share a structure that dies with either | nothing leaks, no stray child, only unblocked signals end a task |
| Run levels and panic (`base/runlevel.c`, `base/panic.c`) | requests, halted processors, the panic lock | request, halt tasks, signals to all, power off | panic on several processors during shutdown | the power goes last, one processor prints |
| File table, tree, pipes, terminals (`syscall/file.c`, `vfs/*.c`) | 4096 entries, descriptor tables, counted nodes, ring buffers | open, close, dup, clone, read, write, mount, remove, hang-up | entries are shared and dropped without the lock; ends close while others block | counts exact, no released node is used, bytes in order, closed ends unblock |
| System calls (`syscall/*.c`) | the resources a call holds | every call with every failure | checks after effects that cannot be undone | a call that fails leaves nothing behind |
| Memory (`base/heap.c`, `base/mm.c`, `base/pg.c`) | the map of blocks, the bitmap of frames, page tables | allocate, free, map, exec, user checks | maps that grow while they are used, sections interrupted by sections | memory has one owner |
| Interrupts, ACPI, PCI, serial, network, messages (`base/irq.c`, `acpios/*.c`, `misc/*.c`) | installed functions, queues, rings | install, dispatch, queue, read, write | handlers run while they are removed; rings wrap and fill | what arrives reaches the one it is for, once, in order |
| Storage (`pci/ahci.c`, `pci/ide_ctrl.c`, `misc/floppy.c`, `misc/hdd_*.c`) | requests, registers, partitions, letters | read, write, retry, detect, mount | time limits race late answers; one unit of several fails | what is reported was done, to the sectors it was meant for |
| FAT (`common/fat.c`, `vfs/fat_io.c`) | tables, chains, records, buffers, open files | open, read, write, truncate, seek, rename, remove, mount | crashes between two writes, failing writes, changed media | chains are disjoint, files keep their bytes, nodes of an old medium are dead |
| USB (`usb/*.c`) | xHCI rings, device nodes, drives | ports, transfers, commands, storage, keyboards | answers after a time limit, devices replaced while used | each answer reaches its request, nodes are freed once |
| Keyboards and mice (`ps2/*.c`, `misc/keyboard.c`, `usb/boot_kbd.c`) | scan codes, packets, answers to commands | take bytes, send commands, report keys | bytes of keys and answers mix, packets lose their place | keys are reported once and in order |
| Console and C streams (`base/console.c`, `arctic/libc/stdio`) | cells and the cursor, stream buffers | draw, parse control sequences, read, write, format | only changed cells are drawn; writes are short | the screen shows the cells, bytes in order, text as the C standard has it |
| Shell (`arctic/programs/dsh`) | words, variables, the line with its cursor, pipes, children | split, expand, assign, redirect, run, edit | quotes within expansions; values that belong to one command; ends of pipes held by mistake | what runs is what the line says, pipelines end |
| Programs and tools (`arctic/programs/*/main.c`, `tools/dy-*/main.c`) | the argument vector, in place | take options and operands | options that take the next word; words after `--` | operands arrive complete and in order |
| Linker (`tools/dy-link`) | object files, members of libraries, the symbol table of the output | choose members, place sections, delete, sort and merge symbols, write an index | indices of relocations change with every reduction of the table | a relocation names what its own file meant |

*How the parts interact.* `mtx_lock`, `event_wait`, `task_wait_descendant` and
`file_read` block in one way: they set an event function and call `task_yield`
until it returns 0; the scheduler evaluates the functions of other tasks with
`task_check_event`, which needs the task's `active` word. Interrupt handlers
signal events and call `event_yield`. `task_create` clones descriptors and
`task_exit` releases them, so the life of tasks drives the file table, and the
last reference to an entry releases a node, for instance the end of a pipe.
Nodes of volumes call the FAT library, which calls the block devices of the
storage and USB drivers. The console and the serial port are ends of terminals.

`PROJECT.json` lists every component with its status, and every hazard at its
line with the properties that would catch it.

## 2. Modules

Each host module is one specification that TLC runs. The components in it are
modules of their own (`INSTANCE`) or sections of the host.

| Host | Parts (component module) |
| --- | --- |
| `TaskSwitch` (run through `MCTaskSwitch`) | switching, polling and recycling |
| `Mtx` | mutexes; `MtxSpec` is the abstract mutex it implements |
| `Process` | list and waits (`TaskWait`), `Spawn`, `Signals`, `Sched`, run levels and panic (`Shutdown`), events, sleeping |
| `Files` | `FileTable`, `Pipe`, `Vfs`, `Pty`, nodes of pseudo terminals, system calls |
| `Kernel` | page tables (`Pg`), `Irq`, `Acpios`, `Serial`, `Kmsg`, `Pci`, ring of the network card, heap, frames |
| `Storage` | `Ahci`, `Ide`, `Floppy`, partition tables, mounting |
| `FatFs` | chains and buffers (`Fat`), nodes (`FatIo`), `FatDir`, `FatTable`, mounting, handles, names |
| `UsbHost` | `Xhci`, `Usb`, `UsbStorage`, bulk-only transport, descriptors, keyboards and mice (`Ps2`) |
| `User` | `Console`, control sequences, `Stdio`, `vsnprintf`; the shell: `DshParse`, words, variables, redirections, line editor, pipelines; arguments of programs and tools; the linker `dy-link` |
| `TaskSwitchProofs`, `ProcessProofs`, `KernelProofs`, `StorageProofs`, `NodesProofs`, `FilesProofs` | theorems (those about `Mtx` are at its end) |

*Composition.* The variable `part` of a host says which part moves; it never
changes, and `Parts` gives its initial values. The parts of one host share no
variable: where one component uses another, the component models what it uses
(a lock, a node, a device), so the steps of two parts commute and an instance in
which both move has no behaviour that matters to either one alone. A property of
a host is the conjunction of what holds of its parts, each under `part = "x"`.
Components that really share state are one part: entries, descriptors and the
nodes they release; the waiters, the caretaker and the creators of tasks; the
parent, the child and the structure between them.

What is one step follows the code: a section between `spin_enter` and
`spin_leave`, or under a mutex that every user of the data holds, is one step; a
single read or write of a shared word outside such a section is a step of its
own wherever another actor could be in between. Definitions have the names of
the source where possible. `PROJECT.json` maps the operations and the larger
helpers to their lines; a small helper belongs to the operation that uses it and
has no entry of its own.

**TaskSwitch.** `cur[c]` is the task whose stack processor `c` runs on; `active`,
`stopped`, `detached`, `uniproc`, `event` and `disable` are words of the
structures, `ctx` says whether a resumable context is saved. `task_switch` is
seven steps (entry, interrupts off, trylock, tests, save, load, clearing the old
active word); `Interrupt` starts a nested switch inside an operation.

**Mtx and MtxSpec.** Each access of `lock` and `yield` is a step. `MtxSpec` has
only the live mutexes and their holders; the mapping sends a mutex to the tasks
between a successful compare-and-exchange and the clearing of the word.

**Process.** `TaskWait`: `next`, `tail`, `pool` and `place` are the list; `Look`,
`Step` and `Restart` are the walk of a wait, one structure at a time; the
caretaker has the pointers of the code, which may be old when it uses them.
`Spawn`: parent and child with the lock, the event and every error path; the wait
for a failed child may find it, be interrupted, or not find it (`missed`).
`Signals`: pending bits, masks, groups and sessions; a new task may ask for any
number as its group, also one that no task has yet. `Sched`: a scan is one step.
`Shutdown`: the run level task, the tasks that halt processors, and panics at any
time. Events: a wait scans its array event by event, tests the time modulo
`TickWrap` (2^32), writes its event function and blocks; signals and ticks come
between. Sleeping: both clocks, in integers of `Width` values.

**Files.** `FileTable`: `mine` are the entries a task has in its hands; any
allocation can fail. `Pipe`: one locked section of `n_read` or `n_write` is one
step. `Pty`: the line discipline byte by byte. `Vfs`: walks with both counts.
Nodes of pseudo terminals: `pty_create`, the walk that finds them in the tree or
makes `n_open_pts` find them, and both release functions, that of the tree and
that of `pty.c`, with both counts; a section under `tree_mtx` is a step, or two
around `n_open_pts`. A task has one reference to a node at most (a bound).
System calls: a table of handlers, each a sequence of checks, resources and
effects, any of which may fail. `Left` names what a failing call may leave behind:
a file that `open` made or cut off before it found no descriptor, and pages that
`mmap` had mapped.

**Kernel.** `Pg`: spaces, frames, sections and interrupted sections. The heap:
every call is a step except the unlocked read of `heap_alloc_static_page`. Rings
(`Serial`, `Kmsg`, the network card) have their indices and the device's. ACPICA
(`Acpios`): each look at a queue has its own lock, so `acpios_task` scans the two
queues, reads the status and switches the power off in separate steps, and
functions may be queued between any two of them. The instance of `Serial` starts
after `serial_init`; the actions that empty the ring before it is ready
(`DrainLook`, `DrainTake`, `DrainEnd`) are there, but this instance has no state
in which they are enabled.

**Storage, UsbHost.** The devices are part of the model: they answer late, fail,
or move data while the driver has given up. A floppy is exchanged at any time
except inside a command; between two commands of a call only if the last one
took less than the motors run, since a line is not seen with the motor off. The drive
behind IDE may be late and may fail in a way only its status register tells. A
USB storage device may move only some of the blocks of a data phase, and say so
in the residue, or fail in any phase. Port tasks, driver tasks
and users take the locks of ports and devices in the order of the code, in
`UsbHost`'s part "settle" with failing allocations and transfers. The keyboards'
pipes have two writers, the PS/2 task and the task of the USB keyboard.

**FatFs.** A write to the volume is a step, may fail, and may be the last one
before a crash; a write of the table is one step whose outcomes are all its
sectors, a prefix of the first copy, and, in `FatTable`, the first copy with any
part of the second. Four things the code does are not promised against, and are
history variables that the properties name: a stop within a write of the table,
after which a free cluster may end a chain (`torn`); a second copy whose write
failed unnoticed (`missed`, `fat.c:654`); a 12-bit entry across a sector boundary
other than the first, whose second sector is not marked (`unmarked`,
`fat.c:827`); a record overwritten because no one is free (`kept`,
`fat.c:1497`). A directory that cannot be extended in the table goes on as if it
were (`StepExtendFails`, `fat.c:1465`).

**User.** Cells with their rendered bit, the parser with its limits, one stream
over a file with short writes, the recursive descent of the shell's parser. Words
of the shell are read character by character, with quotes, parameters and the
limit of a word; variables have a place in the array, a mark for export and a
mark for one command; the line editor has bytes of one- and two-byte characters
and a window as wide as the screen. Programs differ in their options only (a
record for each, `Programs`); the loop over the arguments is the same text in
all of them. `vsnprintf` is written piece by piece into a buffer that may end
anywhere; the C library's second pass is a second run of the same steps.
Descriptors of the shell have numbers, `dup` takes the lowest free one, and a
built-in command puts back what it saved; the operators redirect only 0 to 2 (a
bound). An array of variables is removed from with the lengths of `var.c`, which
grow from one removal to the next and may go behind the array (`Lost`). The
linker has one action for each pass over the symbol table, and a relocation
keeps the object and the symbol it came from, which the code does not have.

## 3. Runs

| Run | Shows | Bounds |
| --- | --- | --- |
| `task_switch` | stacks exclusive, contexts saved, pool idle, stopped and pinned tasks stay | 2 processors, 4 structures, nesting 2 |
| `mtx` | exclusion, no wanted mutex stays free, implements `MtxSpec` | 3 tasks, 3 mutexes, 2 slots |
| `process` | `TasksRight`, `StopsRight`, `StepsRight` | 3 structures and 4 identifiers; 2 spawns; 3 tasks, 2 signals; 4 tasks on 2 processors; 2 waiters, 2 events, ticks modulo 3; clock of 30 values |
| `process_live` | `WaitsEnd` | the same, fewer kills and events |
| `files` | `NodesRight`, `BytesRight`, `CallsRight`, `StepsRight`, `ClosedUnblocks` | 2 tasks, 3 entries, 2 descriptors; pipe of 3 bytes in chunks of 2, 3 users; tree of 2 levels; lines of 2 bytes ended by newline, VEOF or VEOL, reads of 1 and 3; 2 pseudo terminals for 1 place |
| `kernel` | `MemoryRight`, `DevicesRight`, `StepsRight` | heap of 12 units with 2 a page; 20 frames; 4 frames of 3 pages; rings of 3; 2 readers |
| `kernel_live` | `Answered` | the parts with a liveness property |
| `storage` | `SectorsRight`, `VolumesRight`, `ReportsRight`, `RequestsEnd` | requests of 2 or 3 sectors, disk of 6, up to 5 volumes |
| `fat_fs` | `DiskRight`, `CallsRight`, `StepsRight` | 3 clusters, 2 files, one failing write, one crash; 1 table entry in a sector; tables of up to 3 sectors; paths of 8 characters |
| `usb` | `UsbRight`, `RunInOrder` | rings of 3, 2 port tasks, 2 devices plugged in, 3 drives; blocks of 2 units; keyboards with 2 places; 2 inputs from two keyboards and a mouse |
| `usb_live` | `Settles` | 2 port tasks, a driver, 2 devices plugged in, failing memory and transfers |
| `user` | `TerminalRight`, `ProgramsRight`, `StepsRight` | screens of 4 by 3, 7 characters, lines of 5 tokens, texts of 4 characters, 3 names, 3 redirections, lines of 4 bytes, pipelines of 4; 3 arguments; buffers of 0, 1, 4 and 20; 2 objects and a library |

*Why the bounds are enough.* Two processors and one nested interrupt give every
pair of operations on one structure, and a structure is recycled and used again.
Three structures and four identifiers let a structure be reused once while its
predecessor's child is alive. Three mutexes on two slots make slots run out.
Ticks modulo 3 wrap within every limited wait. A pipe of 3 with chunks of 2 makes
writes of 2 fit, not fit and be rolled back, and writes of 3 be cut. Two
descriptors and three entries run out half-way through a pipe. Rings of three
wrap and fill. The heap's map has 4 entries a page and grows twice. Three
clusters make a chain that grows in the middle of the table, is cut and reused.
A buffer of 4 ends within a field of `vsnprintf`, at its sign, its zeros and its
digits. Two objects and a library give every pair of definition, common symbol,
export and reference.
Two inputs, from one or from two of the two keyboards and the mouse, give a pipe
an order that can be wrong and one key that can take another's place. Two pseudo terminals and one place in `/dev/pts` make creation fail, and
a place be used again while the node that had it is still released.
The passing runs fire every disjunct of the next-state relations of the hosts; of
the components, the actions of `Serial` named above do not fire.

*Deadlock* is checked in `task_switch` and `mtx`, where the system cannot stop.
The hosts have bounds that are used up (identifiers, bytes, calls), and parts in
which the power goes or every task exits, so that a final state is legitimate.

*Fairness.* A task inside a call is scheduled again and again (weak fairness of
its steps): `sched.c` gives every runnable task a turn, with a counter against
starvation, which `WaitsEnd` checks of `Sched` itself. Interrupts that are
pending arrive, and the caretaker, the interrupt tasks and the timer never end.
Strong fairness is assumed only where a step is disabled again and again by
another task's short section (a mutex, a semaphore or a spin lock that is polled:
the mutexes' `WantedIsHeld` says that a wanted mutex is always taken by somebody,
and each user leaves its section). In `Usb` that is the port task, which tries
`spin_lock_yield` again at each of its turns. No fairness is assumed for requests: nobody
has to signal, write, close, create or exit.

## 4. Proofs

**`TaskSwitchProofs`** proves, for all sets of tasks and processors, type
correctness and the seven properties of the run. None of them is inductive. The
inductive invariant `Ownership` says who owns an `active` word that is set: a
processor that runs on the structure or has not yet left it (`CpuOwns`,
`CpuExclusive`), an operation that took it with `spin_trylock` (`ThreadOwns`,
`ThreadExclusive`), or the pool (`PoolOwned`), and never two of them. `FreeIsFit`
adds that a structure nobody owns can be entered, `SwitchTests` that a switch
which has passed its tests still owns a structure that satisfies them. The action
properties follow from `SwitchTarget`: what the load of a stack pointer reaches.

**`Mtx`** has proofs of types, `MutualExclusion`, `SlotsDistinct` and
`LockHasHolder` from the invariant `Safe` (a live mutex has an initialised slot,
calls are about live mutexes, a holder's word is set), and that `Mtx` implements
the safety part of `MtxSpec`: `SpinTrylock` and the successful `MtxTrylock` are
`Acquire`, `SpinUnlock` is `Release`, everything else leaves the holders alone.

**`ProcessProofs`** proves `TasksRight`, `StopsRight` and `StepsRight` of `Process`,
all that its run checks, from the invariant `ProcessInv`, a conjunction of one
invariant for each part:

- `WaitInv`: the structures of the list are one ring under the pointers, with the
  first task and the tail in it, and those of the pool are one chain. That
  nothing else is reached is what following pointers cannot leave; that all are
  reached is what no smaller closed set has (`Ring`, `Chain`). Appending,
  unlinking, pushing and popping are lemmas about pointers alone. The caretaker's
  old pointers are tied to the list by where it stands.
- `SpawnInv`: who holds the lock, the child and the node at each pair of places of
  parent and child; a stray child is one that its wait missed, or the caller has
  a signal.
- `SignalInv`: members of a group share a session, but for groups that are older
  than the session of their number (`early`), and an ended task was ended by a
  signal it did not block.
- `SchedInv`: the tasks that run are distinct.
- `LevelInv`: a processor that has answered is halted, the count is the number of
  halted ones, the one that prints owns the panic lock.
- `EventInv`: the difference of ticks modulo `TickWrap` is the true time since the
  wait began, as long as that is below a period.
- `SleepInv`: the deadline and what remains of a sleep, within the clock's width.

**`KernelProofs`** proves `StepsRight` of `Kernel` and, of `MemoryRight` and
`DevicesRight`, what they say of physical pages, ACPICA and the network card
(`FramesAreRight`, `QueuesAreRight`), from `KernelInv`:

- `FramesInv`: blocks that are owned, free frames and kept frames do not meet;
  what is free lies below the bytes that are known to be full (`FreeBelow`),
  without which a search could miss a block. That the search is limited and
  aligned needs the arithmetic of multiples (`MultiplesApart`, `Quotient`): a
  block that starts below an aligned limit ends below it.
- `AcpiInv`: the numbers in the queues are those after the last one that ran, in
  order, and the count of events is the lengths and the function that runs. What
  is promised of notify handlers and of the power is about the functions that were
  queued when the round began.
- `NetInv`: from the driver's head, `h` descriptors hold the frames after the
  last one taken and the others up to the tail are clear (`RingAt`, `Holds`);
  the lemmas `RingComes`, `RingTakes` and `RingClears` move the two heads and the
  tail round the ring. `Order` ties the frames that were read to those that came.

The ring, the queues, the bitmap and the memory map have any size; the
assumptions are that a limit of memory is aligned to its blocks, below the first
block or beyond the bitmap (`LimitAssumption`: those of the code are powers of
two, 0x100 to 0x1000000 frames), and that the areas of a memory map lie in the bitmap and apart from the
chunks of the heap (`AreaAssumption`). `TypeOK` is a conjunct of `MemoryRight`,
which as a whole needs the other parts too.

**`StorageProofs`** proves `SectorsRight`, `VolumesRight` and `ReportsRight`, every
safety property of the run `storage`, from `StorageInv`:

- `AhciInv`: the slots that are issued are the unit the request is in, in order
  (`IssuedFit`, `UnitIsLeft`, `InOrder`). What buffers hold can only be tied to the
  request until a time limit has passed (`clean`): after that a late command may
  still move data.
- `IdeInv`, `IdeShape`: who holds the channel, which phase of the drive goes with
  which step of the driver (`Answers`), and that a finished unit was moved
  (`DonePart`), unless the drive alone failed it or an old interrupt bit covers it
  (`excuse`, `odd`); only one task is between lock and unlock (`Alone`).
- `FloppyInv`: what the driver stores of a drive is what the drive has, as long as
  the disk-change line is low (`Known`); sectors counted so far are those of the
  disk (`Counted`). The lemmas about the plan of a command (`PlanIs`, `CommandIs`)
  and about cylinder, head and sector (`PlaceIs`, `Divided`) carry the arithmetic.
- `FindInv`: partitions found lie on the disk and apart (`OnDisk`, `Apart`), and
  nothing is mounted before the search ends.
- `MountInv`: the list is sorted and without repetition, and what is mounted is
  what has been passed (`Placed`, `Reached`, `NonePassed`, `LettersFollow`).

Sizes, units, retries, geometries and tables are arbitrary. The assumptions
(`CommandAssumption`, `FloppyAssumption`, `TableAssumption`, `VolumeAssumption`) are
types, a unit of IDE that fits the slack after its buffer, a floppy that either
says its geometry or has that of its rate, and nodes of `/dev` named by disk and
number.

**`FilesProofs`** proves `CallsRight` and `NodesRight` of `Files`
(`CallsAreRight`, `NodesAreRight`, and its parts `EntriesAreRight`, `TreeIsRight`,
`PtyNodesAreRight`). `NodesProofs` has what concerns one step of `FileTable` or
`Vfs` alone. There is an invariant for each of the four parts:

- `CallInv`: a system call stands at a step of its handler, holds what the steps
  before it took and did not give back, and has changed nothing before its first
  effect. The argument is about scripts of any length; that a handler of the code
  is such a script (`Whole`) is a lemma for each.
- `PtyInv`: a node's count is the references of all tasks to it, the one that
  `pty_create` has beside its own, and the one of the tree; `tree_state` of a node
  in the tree is the number of its uses or one less, because of `pty.c:1024`
  (`NodeInv`). A task that has read the release function of `pty.c` is the only
  one, and if the node has come back into the tree somebody else uses it, so that
  its release is not the last. Who creates a pty is alone with it (`Alone`), two
  tasks never free the same node (`Apart`); what both nodes share is counted by
  the nodes that live (`Shares`); the array has what is wanted, and nothing else
  (`Entered`, `Listed`). A task panics only if another one took its node out of the
  tree between its two reads of the release function (`overtaken`).
- `TableInv`: the count of an entry is the number of table places and of calls
  that refer to it (`TableCounts`, where the references are finite sets). An entry
  whose `lock[0]` is set has a reference or a task that frees it, and that task is
  alone (`EntryKept`, `EntryGoing`); `lock[1]` is held by the task that opens or
  uses it (`LockHeld`); an entry that is being opened is in nobody's table
  (`OpensAlone`). `Shape`, `DupShape` and `ChildShape` say what a task has in its
  hands at each place where another task may run, and `Dead` that the table of a
  task which does not exist yet holds no more than its parent has copied. Without
  `EntryGoing` an entry could be given out between its last drop and its unlock.
- `TreeInv`: the tree has no gaps and each node is at one path (`NoGap`,
  `AtOnce`); a node in it counts its users and one for the tree (`NodeCounted`);
  a node below the root has a child, a mount or a user (`Needed`); what is open,
  and not below a mount, is on the volume (`OnDisk`); an exclusive file has one
  user who does more than look at it (`OneUser`). `Waits` is what makes mounting
  work: the node to be mounted is its driver's alone, is not in the tree and has
  not been counted. The loops over a path (`OpenTree`, `Prune`) are described by
  the deepest prefix that is in the tree and the longest that is needed
  (`FoundIs`, `OpenTreeIs` and their like), so paths have any length.

There is a pty, and the array has a number of places (`PtyAssumption`); the first
task exists and `NIL` is no entry, task or descriptor (`TableAssumption`); there
are finitely many users, paths are closed under prefixes and `NONE` is no node
(`VfsAssumption`). The numbers of tasks, entries, descriptors, nodes and names are
arbitrary.

The other assumptions are those named in the modules: there is a `NONE` that is no task
or structure; the first task is a structure; there are as many tasks as
processors; a wait has one to 256 events; the clock is within its width.

**Only model-checked.** Liveness (`WantedIsHeld`, `WaitsEnd`, `ClosedUnblocks`,
`Answered`, `RequestsEnd`, `Settles`), since the prover does neither fairness nor
`ENABLED`; what recursive functions compute (the FAT chains, the parsers), since
it does no induction over data; everything of `User`, whose shell parser is a
`RECURSIVE` operator; and what no theorem above states: `BytesRight` and
`StepsRight` of `Files`, of `MemoryRight` and `DevicesRight` of `Kernel` what is not
named above, `FatFs` and `UsbHost`. Section 7 gives the order in which they are
worth proving.

## 5. Observations

The models do what the code does, and the properties are stated so that they hold
of it; where that needs an exception, the property names it and says why. One of
these observations contradicts a comment, `osdancy.c:516` ("All OSL_NOTIFY_HANDLER
functions are executed first."); the others concern no document or test. No run
expects a violation.

- *Tasks.* A wait that walks the list can be carried to its end with a structure
  that is recycled under it, and report no children although there is one
  (`task.c:1021`). Owners are compared by address, so a task created in a dead
  owner's structure may claim its child (`task.c:993`). With two processors a
  pinned task may starve. The yield flag of a mutex can be lost, and a waiter
  still gets its turn because it polls; an exit can fail to notify its owner, and
  the wait still returns because it looks again after 2000 ticks. `func_setsid`
  (`spawn.c:38`) does not look whether others are in the group of its number, and
  `func_setpgroup` (`spawn.c:55`) lets a task take a number nobody has yet: such a
  group can lie in two sessions (`early`). An interrupt handler reads an entry's
  function and argument without a lock (`irq.c:48`) while `irq_install` reuses it.
- *Memory.* The map of the heap can grow into the block that is about to be
  handed out (`heap.c:159`, set apart in `narrow`). `mm_init` reads `mm_array`
  after it was freed. `munmap` loses frames of pages that are not executable
  (`pg.c:1229`). `pg_enter_kernel` sets `cr3` before it counts (`pg.c:998`).
- *Terminals and files.* A character VEOL ends a line, but `n_read_secondary` knows
  only newlines: after such a line an end of file can be taken together with it
  and is lost (`pty.c:550`, 631 to 643). `pty_create` takes back its reference by
  `vfs_decrement_count` (`pty.c:1024`), which lowers `tree_state` too: with two users
  the first that leaves removes the node from the tree, and a second one that has
  already read the old `n_release` panics in `remove_leaf_node`. `open` creates or
  cuts off a file and only then reports that no descriptor is left (`file.c:235`);
  `mmap` leaves the pages mapped before memory ran out (`pg.c:1172`).
- *ACPI.* The two queues are scanned under two locks, so a notify handler that is
  queued between the scans runs after an older function of the other queue
  (`osdancy.c` 518 to 543), other than the comment says; it is true of handlers
  that wait when the round begins, which is what the property says. What is
  queued during the last round before the power goes never runs. With one
  processor a function that waits for a semaphore held by another task never
  returns; the model's instance has two.
- *Storage.* A command that timed out may still move data through the shared
  buffer (`ahci.c:389`). IDE drops the status register of the drive
  (`ide_ctrl.c:229`) and does not clear the interrupt bit again before a command is
  issued (`ide_ctrl.c:235`), so an error, or an earlier command that ends late, may
  pass for success; `DoneAsReported` sets these units apart (`odd`). The partition
  search tests the result of `read_sector` the wrong way round and follows a chain
  of extended records without end. The loop of `hdd_mnt` stops at the last letter.
- *FAT.* The count in the information sector is old after a crash. `mkdir` in a
  full fixed root leaks a cluster. The result of the second copy of the table is
  ignored (`fat.c:654`), that of a directory's extension too (`fat.c:1465`), and
  the sector after a 12-bit entry is marked only behind the first one
  (`fat.c:827`). `fat_seek` tests `eof == 2`, which is never
  set. `fat_dir_full` may overwrite a record (`fat.c:1497`).
- *USB.* The port task takes a port's lock and then the device's (`xhci.c` 891,
  897, 1296), whoever transfers takes the device's and then the port's (613, 661,
  717): a deadlock (`LockCycle`). The highest slot is accepted (`xhci.c:986`) but
  its events are dropped (1323). A change of a port between the read and the write
  of its register is cleared unseen. A request that ran into its time limit leaves
  its answer for the next request, and that one's for the one after it. The rings
  have no check for full. The length of a data phase and the residue are not
  looked at (`usb_msc.c` 124 to 155), so blocks that were not moved count as done.
  `dancy_kbd_clear` may throw away a key that the USB keyboard wrote after the
  node was opened (`keyboard.c` 157 to 162). The boot keyboard leaks its state when
  `set_idle` fails.
- *Drivers.* The serial port drains without the lock; the mouse can hang the PS/2
  port; the network card relies on the head register; the array of PCI drivers
  is searched one too far; the floppy reads a line with the motor off.
- *Shell.* `A=1 B=2 cmd; B=5` loses the last assignment, and a value given to one
  command can outlast it (`var.c:144`). While a program is started descriptor 2
  of the shell is redirected already, so `1>&2 2>f` sends both to `f`; for
  built-in commands `2>&1 >f` does. A built-in command with `>&- 2>file` leaves the
  shell without its output: `dup` saves descriptor 2 in the closed 1 (`parser.c:131`)
  and `>&-` is put back over it (153). Values of one command that are removed make
  `dsh_var_write` move more and more of the array (`var.c:149`), up to behind its
  end when it is more than half full. A four-byte lead makes `count_columns` expect
  eight bytes; a line wider than 1024 bytes cannot be drawn. A `PATH` whose last
  component is relative gives 127 without a message.
- *Linker.* A common symbol beside a definition of its name stays a second
  external one; a failing `set_max_size` makes `link_main` return success; a
  reference to a mangled name never meets its definition in another object; the
  index of a library compares offsets without their mark (`lib.c:540`).
- *Formatting.* `%#x` of zero gets a prefix, and zeros come before it; `%hhd` is not
  narrowed; the kernel's `vsnprintf` returns what was written, the C library's
  second pass uses arguments that are used up where `va_list` is an array.
- *User space.* `getdelim` drops an unterminated last line; a failed `freopen`
  leaves a stream without mode; `setvbuf` discards bytes; a builtin in the middle
  of a pipeline blocks; `>f cmd >g x` reports "out of memory". The parser of
  control sequences skips the attribute after a colour triple and reads behind its
  parameters when one ends the sequence (`console.c:659`); `CSI ?1049;25h` ignores
  the 25.

## 6. What is not modelled

- Register and FPU contents, the 32-bit assembly (it follows the same steps).
- `event_create`, `event_delete`, `kernel->rebooting`, the limit on structures.
- The working directory, `file_getdents`, poll functions that only read.
- Set-up of controllers, colours, fonts, `scanf`, time formats.
- Boot loaders (`boot/loader.c` is an image written as an array of bytes), loading
  of executables, decompression, fonts and images of the tools, and what programs
  other than the shell do with their operands: sequential code that runs alone.
  `PROJECT.json` gives the reason for each.

## 7. Plan

1. More theorems: the heap and the page tables of `Kernel`, the rings of
   `Xhci` (`RunInOrder`), first in first out of `Pipe` (`BytesRight`).
2. The loader of executables and the set-up code of the boot loader, as functions
   checked against reference definitions.
