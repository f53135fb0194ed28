# Verification of the Luciano kernel

Luciano is a small x86-64 kernel: one CPU, a round-robin scheduler driven by
the PIT, a SYSCALL interface, paging with one address space per user process,
a bump-allocated heap, a VFS with one RAM file system, and an IDE driver with a
disk manager that reads MBR partition tables.  This directory holds TLA+ models
of it, the TLC configurations that check them, and TLAPS proofs.  Source paths
below are relative to the repository root (`src/` here).

## Inventory

| Component | State it keeps | Operations | Where it is hard |
|---|---|---|---|
| Scheduler (`kernel/process/scheduler.c`, `isr_timer.asm`, `isr_yield.asm`) | `queue[]`, `queue_length`, `current_idx`, the two flags, `task->state`, saved contexts, `tss.rsp0`, cr3 | `scheduler_init/add/enable/remove`, `scheduler_tick`, yield by `int 0x30` | preemption at any point with IF set; a context saved in one place and loaded much later |
| System calls (`syscall_handler.asm`, `syscalls/*.c`) | `user_rsp_scratch`, the registers on the kernel stack | yield, exit, exit_group, getpid, gettid, open (a stub) | a switch in the middle of a call |
| Clean-up daemon (`scheduler_task_cleanupd`) | the slot it works on, `proc` | task_destroy, process_destroy, clearing the slot | runs with interrupts on, between any two tasks |
| Processes and tasks (`process/process.c`, `arch/x86_64/process.c`, `task.c`) | `next_pid`, `next_tid`, `process_table`, `tasks[]`, stacks | create_process, task_create, process_add_task, destroy | bounds, tid narrowed to 8 bits |
| Physical and virtual memory (`pmm.c`, `vmm.c`, `kmalloc.c`) | the frame bitmap, page tables, the heap's end | pmm_alloc/free, vmm_map/unmap/destroy, kmalloc | table frames that are not zeroed, double frees, who frees a shared frame |
| VFS and ramfs (`kernel/vfs/*.c`, `drivers/ramfs/ramfs.c`, `lib/kbuf.c`) | dentry tree, file table, buffers, offsets | mount, mkdir, open, read, write, readdir, stat, close | long call sequences, partial failure, flags in odd combinations |
| Path parser (`vfs_dentry.c`) | component buffer, depth | parse one path | bounds, dots |
| Block devices (`diskmanager/block_device.c`) | the drives that answered | probe, size, registration | drives that fail half way |
| Disk manager (`diskmanager/diskmanager.c`, `mbr.c`) | volumes | set-up of drives, MBR parsing, volume read/write | overlap of partitions, 32-bit wrap-around, bounds at the end of a volume |
| IDE driver (`drivers/ide/ide.c`) | the drive table, sizes read, the controller's registers | probe, IDENTIFY, read, reset | polling without timeout, two drives on one channel, errors half way |
| Boot, GDT/IDT/PIC/PIT, frame buffer, logging | hardware registers | initialisation | none that a model would show |

How they interact: the timer and `int 0x30` enter the scheduler from any
thread; system calls enter it through `sys_yield`, `sys_exit`,
`sys_exit_group`; the daemon calls task, process and virtual-memory code to tear
processes down; virtual memory allocates frames from physical memory; the VFS
calls ramfs through a table of operations; the disk manager calls the IDE driver
through the block-device table.  Nothing in the kernel waits on anything but a
hardware register.

## Modules

| Module | Models | Extends / uses |
|---|---|---|
| `Scheduler` | queue, switch, system calls, clean-up daemon | refines `TaskLife` |
| `TaskLife` | the abstract life of a task | |
| `SchedulerProofs` | TLAPS proofs about `Scheduler` | `Scheduler` |
| `Registers` | the three assembly entries, register by register | |
| `RegistersProofs` | TLAPS proofs about `Registers` | `Registers` |
| `Memory` | frames, page tables, address spaces, kernel heap | |
| `MemoryProofs` | TLAPS proofs about `Memory` | `Memory` |
| `Ramfs` | handlers of the RAM file system, as operators | |
| `Vfs` | the VFS calls as actions over `Ramfs` | `Ramfs` |
| `VfsStore` | the file tree seen by path | `Vfs`, refines `FileStore` |
| `VfsProofs` | TLAPS proofs about `Vfs` and `Ramfs`: the tree, for any flags | `Vfs` |
| `VfsTreeProofs` | the same for creators that use `O_EXCL`; listings | `VfsProofs` |
| `VfsStoreProofs` | TLAPS proofs about sizes, buffers and the refinement of `FileStore` | `VfsTreeProofs`, `VfsStore` |
| `FileStore` | the abstract store: directories and byte sequences | |
| `PathParse` | `vfs_aux_parse_path()`, character by character | |
| `PathParseProofs` | TLAPS proofs about `PathParse` | `PathParse` |
| `Partitions` | `diskmanager_mbr_check()`, as operators on a table | |
| `Ide` | the IDE driver and the controller it polls | refines `BlockDrive` |
| `BlockDrive` | the promise of a block driver | |
| `Disk` | registration of drives, set-up of volumes, volume reads | `Ide`, `Partitions` |
| `DiskProofs` | TLAPS proofs about `Disk`, `Ide` and `Partitions` | `Disk` |
| `MC*` | values of the constants for TLC | the module they are named for |

A module that is named for a component keeps the names of the C variables and
functions. Operators that no action uses and that stand just before a definition
they resemble (`ReadyEvenDead` before `UpdateState`, `PopAllSwapped` before
`PopAll`) are the *mutants*: a plausible slip in the code each, paired in
`PROJECT.json` with the property that notices it.

## Scheduler and TaskLife

`Scheduler` has one action for each stretch of code that no interrupt can split.
All gates of the IDT are interrupt gates and SYSCALL masks IF, so `TimerTick`
(`isr_timer.asm` with `scheduler_tick()` inside), `YieldInterrupt`
(`isr_yield.asm`) and each part of a system call are atomic.
`scheduler_task_cleanupd()` runs with interrupts on: it is split at every access
to shared memory into `DaemonScan`, `DaemonIsMain`, `DaemonTaskDestroy`,
`DaemonVmmDestroy`, `DaemonProcFree` and `DaemonClear`, so that a tick can come
between any two of them. `BootInit`, `BootAdd` and `BootEnable` are the part of
`kmain()` that fills the queue; a tick there finds the scheduler disabled.

State: `queue`, `queue_length`, `current_idx`, `scheduler_running`,
`scheduler_enabled` and `user_rsp_scratch` are the C variables. `ctx` is the thread
the CPU executes, `rsp` whose stack its stack pointer is in, `kstack[t]` the frame
on top of t's kernel stack, `rsp0` the TSS field. That the code's idea of the
current task (`queue[current_idx]`) and the machine's (`ctx`, `rsp0`, `cr3`) agree is
a property here (`CpuBelongsToTask`), not an assumption. The
state of the sentinel is never initialised in the code, so `Init` takes any.

`TaskLife` says what all this is for: a task is admitted, takes turns on one CPU,
dies with its group if it is the main task, is reaped only when its process has
been torn down, and a process only when nobody can run in it.

Runs:

* `scheduler`: the daemon, a kernel worker, a user process of two tasks and one of
  one, with every interleaving of ticks and system calls. All safety properties,
  `ImplementsTaskLife`, and liveness: no queued task starves (`EveryTaskRuns`), dead
  tasks are reaped (`DeadIsReaped`), system calls return (`SyscallReturns`).
* `user_stack`: finds the disagreement under *Findings*.

Five tasks give every relation two tasks can have (same process, main and sibling,
different processes, user and kernel), and one more to switch to while two
contexts are saved. Nothing else in the model is unbounded.

Fairness, used by the three liveness properties only:

* weak for the boot thread and inside a system call. Nothing can interrupt a
  system call, so the CPU executes its next instruction;
* strong for `TimerTick`. An IRQ that arrives with IF clear stays pending in the PIC
  until it is set, so a thread that leaves and re-enters the kernel all the time
  cannot avoid the timer for ever;
* strong for `DaemonStep`. A timer slice (4 ms) is longer than a step of the daemon,
  so the daemon gets on whenever it is scheduled again and again;
* none for user tasks: they may spin for ever.

## Registers

`Scheduler` takes for granted that a saved frame *is* its thread. `Registers` checks
it: the register file holds symbols (`<<task, register, round>>`), the stubs push and
pop in the order of the assembly text, C code loses the scratch registers
(`AfterCall`) and keeps the callee-saved ones, SYSCALL puts rip and rflags into rcx and
r11, and `Shuffled` is the block of moves in `syscall_handler.asm`. `user[t]` is what
the program of t would find if nothing ever interrupted it.

The run `registers` has two tasks that compute, yield, call and are interrupted in
any order: user registers are intact, the kernel stack is empty in user mode and
holds exactly the saved registers inside a call, and number and first two arguments
reach `syscall_dispatch()`. Three rounds of values tell a fresh value from a stale
one and from the one before. `syscall_args` finds that the third argument does not
arrive.

`RegistersProofs` proves the same three properties for any number of tasks and any
order of steps.

Left out: rsp (it is in `Scheduler`), segment registers (constants) and what C code
does with callee-saved registers between entry and switch (the calling convention).

## Memory

Each frame holds a table of entries (`mem`) and may be read as one, as all of
physical memory is mapped at the HHDM offset. `Descend` is one level of `vmm_map()`,
`Mapped` the whole, `Owned` what the nested loops of `vmm_destroy()` free. The actions
follow `kmain()`: `VmmInit`, `Kmalloc` by drivers and scheduler, then `VmmCreate`,
`MapUser` (code and stacks of the program being loaded) and `Kmalloc` in any order,
`Enable`, and from then on `Switch` and `VmmDestroy` only: nothing allocates after boot.

`PmmInit` is `pmm_init()`: it takes the memory map that `get_boot_entry()` of `limine.c`
hands over (`BootEntry`, with the types translated by `GetType`), marks every frame,
clears those of usable regions, and puts the bitmap itself into the first region that
is large enough. `BITS` is the number of frames that one frame of bitmap covers, 2^15 in the
code. The code sizes the bitmap by the end of the last usable or kernel region and compares a
size in bytes with one in bits; `FitsBitmap` and `BitmapIn` do the same.

The run `memory` starts from two maps: one with a frame buffer above the end of memory,
one whose first usable region is too small for the bitmap and which has holes and reclaimable
memory. It creates two further spaces, maps up to three pages in each (two share a page
table, one does not), three heap pages across two page tables, and destroys the
spaces in any order. `UserPagesMapped`: a page leads to the frame its contents were
copied to. `KernelSeenEverywhere`: the heap grows after a space was created and is
still seen from there, because the first `kmalloc()` precedes the first
`vmm_create()`. `OneUsePerFrame` and `UsedIsReachable`: no frame is shared by accident,
leaked, or freed in use, and neither the bitmap nor what is not usable memory (`Reserved`) is
ever handed out. A table has three entries instead of 512: enough for a
table that is shared, one that is split, and an entry that is not present.

Assumption: memory is clear at start. `vmm_map()` does not clear the frames of the
tables it adds below the PML4 (`vmm.c:123`, `131`, `139`), so on a machine with dirty
memory, or with a loader that ran after a process was destroyed, entries would look
present that are not. This is listed as a hazard without a property.

## Vfs, Ramfs and FileStore

`Ramfs` states what each driver handler answers and leaves behind; `Vfs` makes
actions of the VFS functions: `Mount`, `Mkdir`, `Open`, `Read`, `Write`, `Readdir`, `Close`,
each with all its early returns. Calls are atomic because only one thread can be in
the VFS (the system call for it is a stub). A path is a sequence of names;
`PathParse` deals with its characters. A null dereference is the answer `FAULT`, after
which nothing happens any more. `kmalloc()` clears nothing: bytes never written are
`Junk`. `offset + limit` wraps at `SIZE_MOD`, 2^64 scaled down to 8.

`FileStore` is the promise: a set of directories that grows, and one byte sequence for
each file; a write may put anything into a gap it leaves, and nothing else. A directory is
created in a directory; a file may also be created below a file, which `ramfs_open()` allows.
`VfsStore` maps the state to it: an inode's path is the chain of names up to the root (`PathOf`), a
file's bytes the first `size` of its buffer (`BytesOf`).

Runs:

* `vfs_tree`: callers that create with `O_EXCL` only, nested paths up to three
  names, a directory limit of two that three names exceed, and a reader that lists a directory in chunks
  while others create. `NamesIdentify`, `ParentsAgree`, `OpenedIsReachable`,
  `NoFaultOnceMounted`, `OneBufferPerFile`, `FailedCallsChangeNothing`, `ListingIsComplete`.
  `FailedCallsChangeNothing` is about the tree, the contents and the descriptors; the counter
  `ramfs_file_count` does move in a create that is refused (see the hazards).
* `vfs_content`: two entries, side by side or one below the other, writes of one and two bytes at
  0, 1 and 7, so that buffers double up to three times and offsets wrap: `SizeFitsBuffer` and
  `ImplementsFileStore`. A call
  that fails changes nothing in the store, so an open that fails does not truncate. Two files are what it takes
  for a write to reach the wrong one.
* `vfs_reopen`: finds the disagreement under *Findings*, with every combination of flags.

Why two disciplines: `open(O_CREAT)` of a file that exists destroys its private
node, so everything about contents holds for callers with `O_EXCL` only. What holds for any flags
(names, parents, buffers, sizes, listings) is proved for any, see *Proofs*. The
bounds `Inos` and `Files` cap the inodes and buffers handed out; the code checks
neither, and what happens past `RAMDISK_MAX_FILES` is listed as a hazard.
`OpenedIsReachable` excepts files created under a regular file, which
`ramfs_open()` allows and no lookup finds. A readdir buffer smaller than one record is left
out: the answer 0 then looks like the end of the directory.

## PathParse

The loop of `vfs_aux_parse_path()` as one action per branch, with `vfs_path_t` as the
flat memory it is, so that a name that outgrows its row runs into the next one and the field
`depth` overwrites what lies after the last row. `Meaning` is the reference, `Reading` its
value after each character: the names so far and the one the path stops in. A separator
ends a name, and `Resolve` then drops it (empty or "."), takes one off ("..") or appends it.

The run `path_parse` takes every path of up to six characters, and of eight, over '/',
'.' and a letter, for a table of three rows of six (the code has 128 rows of 256):
`NamesAreTheMeaning`, `ShortPathsFit` (a path no longer than a row is accepted and
touches no memory past the table; both also proved, for rows of every even size) and
`Returns`, under weak fairness, which sequential code deserves. The scaled table keeps the ratio of two characters for each row, which
decides which guard acts first. Length seven, one more than a row, is the run
`path_depth`. Names such as `a..b`, which the code takes for a step up, are left out of
`NamesAreTheMeaning`.

## Disk

`Disk` composes four parts that run one inside the other. `ProbeDrive`, `Counted`,
`ReadFirst`, `SetupDrive`, `SetupPartitions` are the loops of `block_devices_init()` and
`diskmanager_init()`; each stands for the code between two calls of the driver that wait.
`ClientRead` is `diskmanager_read_volume()` called after the boot, with any address of 64 bits and any
count of 32, none included. One caller reads at a time: there is no lock in the driver or the disk
manager, but in the kernel as it is only the boot reads volumes, before there are threads
(`kmain.c:164`, `165`); two calls that overlap on a channel are not modelled. A call of the
driver is `StartCount` or `StartRead` (the registers written first), then what it does each time
the status register lets it go on: `TakeIdentity`, `PollData`, `TakeSector`, and for errors
`PollError` with `ResetWait`, or `TransferError`. In between the controller moves.

The controller is not code of the repository. It is modelled as the driver uses it and marked
external: BSY clears with DRQ for the next sector or with ERR at any moment (`Answer`); an error
ends the command; a reset reaches every drive of the channel and ends some time later
(`ResetDone`); a drive that is busy or has data to deliver takes no notice of a new command
(`Commanded`); the registers read are those of the drive selected on the channel (`Polled`), not
of the drive the caller meant; a count register of 0 means 256. A sector is the pair of its drive
and number, so a sector of the wrong drive is told from the right one.

A read of no sectors is the odd one. `ide_read()` lets a read begin at the very end of a drive, and
`diskmanager_read_volume()` at the very end of a volume or for a count of 0; the count register then
gets 0, the drive makes 256 of it, the driver waits for the first sector and takes none (`PollData`). The
drive is left with its data and takes no notice of the commands that follow, while the loops of later
reads take what it has: other sectors than those asked for, and perhaps too few to end. The history
variable `unread` holds the drives left so, until one reports an error, is reset or listens to a command
again. No action is guarded by it. It only tells the properties which calls they speak of:
`NothingPending`, `VolumeReadsStayInside` and `EveryCallReturns` are about drives that are not in it, and each
of them is violated without that.

`BlockDrive` is what the disk manager relies on: one call at a time, which fails or answers the
size, or delivers just the sectors asked for, cut at the end of the drive and at 255. A successful read of no
sectors, and nothing else, may leave its drive `stale`; a read of a stale drive still answers as many
sectors as asked for, consecutive ones from anywhere on that drive (`AnswerStale`), until one fails or the drive is
found ready. `ImplementsBlockDrive` shows that polling, resets, errors half way and the other drive of the
channel do not show, whatever became of earlier calls, and that what is stale stays on its own drive.

The run `disk` has two drives on one channel and a third alone on the other, each absent, a packet
device, empty, blank, or with a boot sector, at most two of them disks at once; one machine for every pair of
table entries, which may be disjoint, touch, nest, cross, be empty, begin at the end of the drive, go past it, or
wrap. Reads start at 0, 3 and 31, which stands for 2^64 - 1 and wraps, for 0, 2 and 5 sectors, inside, across
and beyond the end of volumes of up to 6 sectors. `disk_bounds` finds the disagreement under *Findings*.

`VolumesApart` holds for all these tables: an entry whose end wraps becomes a volume that ends before it
begins, which is neither empty nor in the way of another, and of which every read from its start on is refused.
`VolumeReadsStayInside` says that an address delivers sectors before the volume only if its sum with
`lba_start` wraps 64 bits, which `diskmanager.c:136` lets by.

| Bound | Value | Code | Why it is enough |
|---|---|---|---|
| `WORD` | 8 | 2^32 | more than the sectors of a drive, and small enough for entries that wrap |
| `LBA_MOD` | 32 | 2^64 | more than two words, as in the code, so that the sum with a count never wraps but the sum with an address may |
| `ENTRIES` | 2 | 4 | overlap is a relation of two entries |
| `MAX_COUNT` | 4 | 256 | smaller than a drive, so that the cap acts, and than a request |
| drives | 3, of up to 6 sectors | 4 | a channel shared, and one that is not |
| `DSK_MAX_VOLUMES` | 6 | 16 | as in the code, drives times entries |

Drives have fewer than 2^28 sectors, as LBA28 tells them; the four bits of the address above 24 in the
drive register are not modelled apart.

Fairness (`FairSpec`), for `EveryCallReturns` and `HealthyDrivesServed`: weak for the boot, which
nothing preempts before the scheduler is enabled, and weak for the driver and controller
together: the driver polls for ever, so a call returns only if the controller answers. A controller
that hangs hangs the kernel. `HealthyDrivesServed` says that a drive that
failed no command gets its volume, whatever the others did.

Left out: `diskmanager_write_volume()`, which nothing calls and which would call through a null pointer.

## Proofs

`DiskProofs` proves, for every set of drives and channels, every machine with any words in its tables,
every address and count a caller may pass, and every size of word, table and count register:

| Theorem | Statement |
|---|---|
| `AcceptedTablesAreDisjoint` | what `diskmanager_mbr_check()` accepts are disjoint, nonempty volumes; one whose end does not wrap begins before it ends |
| `InductiveInvariant` | `IInv`, below |
| `NothingLeftPending` | between calls no drive has a command or data, but those of which no sectors were read |
| `VolumesStayApart` | no volume is empty, no sector belongs to two |
| `ReadsStayInside` | on a drive without unread data, a volume read delivers the sectors at its address modulo `LBA_MOD`, none past the end of the volume, none before its start unless the address wraps |
| `TypeCorrect` | types; distinct drives of known size; the table of volumes does not overflow |
| `BlockDriveImplemented` | driver and controller implement `BlockDrive`, stale drives included |

Assumptions: `IdeAssumption`, `PartitionsAssumption` and `DiskAssumption`, which TLC evaluates:
NULL is not a call, error codes are negative, drives are looked at once, sizes and entries of tables
are words, the sum of two words is an address, and there are slots for `ENTRIES` volumes on each drive.

The invariant has two halves. `IdeInv` ties the controller to the call: with no call every drive is
quiet, or still on what a read of no sectors left (`Free`, `Backlog`); during a call only its drive works (`Serving`), on the sector that comes next after those
the call has, with as many left as the call still wants; in a reset the whole channel is in it or
through with it (`Recovering`). Without `Serving` nothing relates what the data register delivers to
what the caller asked; for a drive with unread data `UnreadInv` says that a call has consecutive sectors from
somewhere, up to where the drive is. `BootInv` adds what the boot knows while it waits (`WaitInv`), that drives and volumes
come from the loop indices passed so far, which is why none is registered twice and the table of volumes
has room (`DrivesInv`, `VolumesInv`), and that the call in progress is the read of a volume last
asked for and ends inside it (`AskedInv`); an address beyond the drive is refused by the driver, as nothing compares volumes with
drives. There is one lemma for each action of the driver, which also says
what the action does to the call (`Effect`): it goes on, fails, tells a size, or delivers what was asked, nothing, or other sectors. The boot is
proved from those cases alone, and so is the refinement. `NthIsUsed` needs
induction on the entries of a table; it is by a least element (`LeastNumber`), since finite subsets are
well-founded under inclusion.

`SchedulerProofs` proves, for every set of tasks, processes and spaces, every boot order
and every queue size:

| Theorem | Statement |
|---|---|
| `InductiveInvariant` | `IInv`, below |
| `TypeCorrect` | types, and indices inside the queue |
| `CurrentTaskIsExecuting` | `scheduler_get_current()` names the executing task; rsp0, cr3 and rsp are its own |
| `ContextsSurvive` | a task switched out can be resumed from its own stack |
| `GroupsDieTogether` | a dead main task leaves no sibling that can run |
| `DestroyedSpacesUnused` | no space is destroyed in use |
| `NextTaskAlwaysExists` | the search for a next task never fails |
| `DeathIsFinal` | a dead task stays dead and out of user mode |
| `BootThreadIsGone` | after the first dispatch the boot thread never runs |
| `FreedOnce` | tasks and processes are freed once, and only when dead |
| `SchedulerImplementsTaskLife` | every behaviour is one of `TaskLife` |

Assumptions, all named in `Scheduler` and evaluated by TLC: tasks, processes and NULL are
different things; a user process has a space of its own; `kmain()` adds each task once
and fewer than `MAX_PROCESSES` (`scheduler_add()` tests nothing).

None of the properties is inductive alone. The invariant `IInv` adds how far the boot
has come and that nothing runs before (`BootInv`); that a slot holds the task it was
given or nothing, and slot 0 the daemon (`QueueInv`), which is why a next task always
exists; that every thread stays in its own program and a dead task that still
executes is about to yield (`ProgramInv`); who owns the CPU and what lies on the
other stacks (`ContextInv`); what the daemon knows at each of its steps (`ReaperInv`),
which makes its reads of `queue[i]` stable under preemption, as only the daemon
writes a slot after boot; and that only dead things are freed and only spaces of dead
groups destroyed (`ReleasedInv`, `SpaceInv`). The proof has one lemma for the boot, the
tick, the system calls and the daemon, with a step for each action below it. A tick
is used through `TickEffect`, which says what it changes in terms of the interrupted
task, and `OwnStackInterrupted`, which says that it saves on that task's own stack.

`RegistersProofs` proves, for every set of tasks and every order of computing, calling, yielding and
interrupts:

| Theorem | Statement |
|---|---|
| `InductiveInvariant` | `IInv`, below |
| `RegistersIntact` | a program finds its registers as it left them |
| `StacksUnwind` | every return takes off the stack what its entry put there |
| `ArgumentsReachDispatcher` | the dispatcher gets number, arg1 and arg2 of the caller |

Assumption: `RegistersAssumption`, a first task and at least one round of values.

A property about the running task is not inductive: a switch brings back a task of which it says nothing.
`IInv` therefore says of every task that waits (`Waiting`) that its stack is one
`Context`: the frame, scratch and callee-saved registers of an interrupt, whose registers are the
program's own or, above the `CallFrame` of a SYSCALL, those of `sys_yield()` (`Resumable`); the
saved rip tells the two apart, as no program is at that instruction (`ProgramsOutside`). The pieces are `PopPush`
(pops in the order of the pushes are their inverse, on any stack), `PopAllOfContext` (the stub's whole
tail takes a context off), `CreatedIsContext` (what `task_create()` makes up is such a context) and
`InterruptStep`, which both interrupts use, with a switch and without.

`PathParseProofs` proves, for every path and every even size of a row from four on:

| Theorem | Statement |
|---|---|
| `InductiveInvariant` | `IInv`, below |
| `TypeCorrect` | every counter stays in its range |
| `ShortPathsAccepted` | a path that fits is accepted, and writes nothing past the last row |
| `NamesAreTheirMeaning` | what is told of an accepted path is its meaning, unless it has one character more than a row |

Assumption: `PathAssumption`. The invariant of the first three is `Behind`: twice the depth and the column never exceed
the characters read, since each name took a character and a separator, and a ".." only
lowers them. `WriteInTable` draws from it that the cell of each write is
before the field `depth`: the NUL of a single name of full length lands in the first cell of the second row,
which is why the table needs two. For longer paths the bound is lost by one, which is the
finding `path_depth`.

`NamesAreTheirMeaning` is about any mixture of letters, dots and separators with `PlainDots`. That the recursive
function `Reading` exists is by the least number of characters for which it would not. `Told` says that
while the parser runs, the table and the row begun in it follow the reading of the characters read
(`Follows`). The two are not the same: the parser pops at the second dot of "..", the reading at the separator after it
(`Kept`), and it passes over a lone dot, which the reading still holds (`Started`). `RowsApart` keeps a write to one row
away from the names in the rows before it, as no name outgrows its row. A path
two or more characters longer than a row is refused; the one length between is `path_depth` again.

The three `Vfs*Proofs` modules prove, for every set of names, paths, payloads and buffer indices, every
limit on the children of a directory, and every sequence of calls:

| Theorem | Callers | Statement |
|---|---|---|
| `InductiveInvariant` | any flags | `IInv`, below |
| `NamesStayUnique` | any flags | no name twice in a directory, no inode under two parents |
| `ParentsStayTrue` | any flags | a child is younger than the parent that lists it, and names it |
| `BuffersStayApart` | any flags | no buffer shared by two files |
| `SizesFitBuffers` | any flags | no file claims bytes outside its buffer |
| `TypeCorrect` | any flags | types, and answers that are codes of the system |
| `NoFaultAfterMount` | `O_EXCL` | no null dereference after the mount |
| `FailuresLeaveNoTrace` | `O_EXCL` | a call that fails changes nothing |
| `OpenedStaysReachable` | `O_EXCL` | what was opened is found again |
| `ListingsAreComplete` | any flags | a directory that grows while it is listed is told whole, once and in order |
| `StoreImplemented` | `O_EXCL` | every call is a step of `FileStore` |

Assumptions: `RamfsAssumption`, `VfsAssumption` and `PayloadAssumption` (the length of a write is a `size_t`); for `ListingsAreComplete` also `EveryEntryFits`, that a buffer for
`vfs_readdir()` holds the longest entry; for the four with `O_EXCL` also `CreatorsInsist`, that every
set of flags with `O_CREAT` has `O_EXCL`. `IInv` adds to the properties that inode numbers and
buffer indices are handed out upwards (`Fresh`, `BuffersHandedOut`), which is why what is attached is new, and
that children and descriptors exist. Each call is one of two steps: `KeepingStep`, in which nodes keep name and
mode and at most lose their private node, and `AttachingStep`, in which one fresh inode becomes the last child of
a directory without its name. A walk is a recursive function of the path; that it exists (`WalkExists`) and ends at an
inode (`WalkParentExists`) is by the least number of names for which it would not. With `O_EXCL` no private node is ever
lost (`AllLinked`, `MountInv`), so no lookup meets NULL (`WalkNeverFaults`). For the buffers, `NodesFit`
relates size and buffer of each node, and `GrownSizeFits` shows that doubling, from 0 too, reaches any end.

For the listing, `TreeStep` sums up what any call does to the tree, and from it `EntriesStay`: no directory
that keeps its private node loses or moves an entry, a new one comes last. `ReaderInv` then says that a
caller has seen the first entries (`SeenSoFar`), as many as its offset; an `open` without `O_EXCL` may take
the private node of the directory away, and the next call answers an error. By `ChunkFacts` a call tells no entries
only at the end of the directory, since one entry always fits.

For the store, `StoreInv` puts together the tree with `O_EXCL`, names and buffers. The recursive function
`PathOf` exists since a parent is older than its child (`TreeIsRooted`, `PathsFollowParents`). Induction over the age of inodes,
again by the oldest counterexample, shows that two inodes never have one path (`PathsDiffer`, from names that
differ in a directory) and that no step moves one (`PathsStay`). So a step either makes no entry
(`NoNewEntry`), changes the bytes of one file (`OneFileChanges`) or adds one path (`NewEntry`), and each
call is one of these: `ReadStores` gives the slice the store would, although the driver cuts it from the buffer;
`WriteStores` rests on `OneBufferPerFile` for the other files, on `WrittenBytes` for this one (growth
keeps what was there, and the copy changes only the range it names), and on `NoWrap`: an offset plus a length
that does not come out below the offset has not wrapped, so that the size is the end of what was written. The sum that
wraps is the call that fails.

`MemoryProofs` proves, for every machine, memory map, size of a table and of the bitmap, every set of
pages and every order of allocations, switches and destructions:

| Theorem | Statement |
|---|---|
| `InductiveInvariant` | `IInv`, below |
| `TypeCorrect` | types, and no PML4 is given out twice |
| `UserPagesStayMapped` | a page leads to the frame its loader copied to |
| `KernelStaysSeen` | image and heap are the same in every space |
| `FramesHaveOneUse` | no frame has two uses, reserved ones none |
| `NothingLeaks` | a frame that is taken is reached or reserved |

Assumptions: `MemoryAssumption` (finitely many frames; maps of whole frames whose usable regions exclude the
image; heap pages that are distinct and under one entry of the PML4; user pages in the user half), clear
memory at the start, and `Room`: an allocation begins only while there are frames for it, since
`pmm_alloc()` has no answer for a machine without any. `IInv` gives every frame in use a level and an owning
space (`Shape`). Its core is `Tree`: an entry leads one level down inside its space
(`EntriesDescend`), a frame below the first level is in some entry (`Reached`) and in no two (`OneEntry`),
but for the kernel half that all PML4s have in common (`KernelShared`). Frames that are not tables are
empty while the kernel boots (`Clear`), which is what makes up for the missing clearing; after boot nothing
allocates. `TreeWithEntry` shows that one more entry to a new frame keeps the tree, `DescendKeepsWalk` and
`MappedKeepsTree` take it through the three levels of `vmm_map()`, `OneMoreRoot` and `OneRootLess` through
`vmm_create()` and `vmm_destroy()`. By `PathUnique` two pages that lead to one frame are the same page, and by
`OwnedIsOwned` the loops of `vmm_destroy()` free exactly what the space owns. `BitmapFits` shows that the
bitmap of `pmm_init()` lies in frames the machine has.

Only model-checked: liveness (`EveryTaskRuns`, `DeadIsReaped`, `SyscallReturns`), which
needs fairness and is out of the prover's reach, as are `EveryCallReturns` and
`HealthyDrivesServed` and `Returns`. Every other property of a passing run is stated by a theorem.

## Findings

* `user_stack`: one global `user_rsp_scratch` for all tasks. A task switched out in
  the middle of a system call comes back to user mode on the stack of whoever made
  the latest call (`syscall_handler.asm:17`, `:50`). What a user program does on a
  wrong stack is not followed further.
* `vfs_reopen`: `O_CREAT` without `O_EXCL` on an existing entry replaces its private
  node and then loses it (`ramfs.c:106`); the comment at `ramfs.c:130` calls it a no-op.
* `path_depth`: `>` for `>=` in the guards of the path parser accepts a path of 257
  characters with 129 names (`vfs_dentry.c:12`).
* `syscall_args`: the third argument of a system call is moved to r10, but C takes it
  from rcx (`syscall_handler.asm:34`).
* `disk_bounds`: `>` for `>=` in `diskmanager_read_volume()` (`diskmanager.c:136`) hands a read that begins at
  the end of a volume to the driver, for no sectors, although volumes are announced as `lba[start-end)` and the
  refusal as "Requested out of bounds!". With the same test at `ide.c:252` a command for 256 sectors stays on the drive, see *Disk*.

One more disagreement is in the model, but needs no run of its own: `mbr.c:89` says "found an entry with size less
than 0, disk invalid", but the subtraction at line 87 is unsigned and refuses a size of 0 only. An entry whose end
wraps at line 55 is accepted (run `disk`, entry `<<1, 7>>`); what still holds of it is `VolumesApart`.

## Not modelled

* `diskmanager_write_volume()`: no caller, and the only driver has no write.
* `TASK_BLOCKED`, which no code sets; `vmm_unmap()` and `vfs_stat()`, which nothing calls or which
  change nothing; failures of `kmalloc()`, which panics instead.
* The counters of pids and tids: everything is created at boot, far below the bounds.
* What the loader hands over besides the memory map (frame buffer, HHDM offset, modules).
* Initialisation of descriptor tables, PIC and PIT, frame buffer, logging, strings.

## Plan

1. **Processes.** Pids, tids and user stack addresses as words, `create_process()` and
   `task_create()` as actions; a loader that runs while processes die, on table frames with
   contents left over.
2. **Composition.** `Scheduler` with `Memory`: the daemon's `DaemonVmmDestroy` as
   `VmmDestroy`, so that `NoUseOfDestroyedSpace` becomes a fact about frames.
3. **Proofs.** Of the parts the first two add; of the parts there are, only liveness is left to TLC.
