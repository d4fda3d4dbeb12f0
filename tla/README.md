# A TLA+ model of Ron

Ron is a single-threaded kernel (`kernel/`) that runs RISC-V programs in an
emulator.  There are no interrupts: the built-in shell starts a program, then
calls `scheduler::tick()` until it returns false; a tick gives every runnable
process one emulated instruction.  All concurrency is therefore the interleaving
of processes at instruction granularity, and all shared state is what the system
calls and the scheduler touch.

## The parts of the system

| part | state | operations | interacts with | what makes it correct |
|---|---|---|---|---|
| Scheduler (`scheduler.rs`) | `TASK_LIST`, `NEW_TASK_LIST`, `NUMBER_OF_TASKS`, `SIGNAL_QUEUES` | `new_task`, `kill_task`, `tick` | called by the shell; calls `Process::tick`, which reaches the system calls; `fork` calls back into `new_task` | slots and queues match, the loop stays in bounds, every process gets its turn while the user answers |
| Process life cycle (`process.rs`, `exit`, `fork`, `waitpid`) | `ProcessState`, `pid`, `parent_pid` | exit, signals, fork, wait, deallocation | states are written by system calls and by `tick` | pids are slots, a status is reported once, to the parent |
| Descriptors and pipes (`syscall.rs`, `process.rs`, `PIPES`) | `fd_mappings`, `open_nodes`, `PIPES` | open, close, dup, dup2, pipe, fork, read, write, drop | `PIPES` is shared by all processes; `tick` wakes readers; dropping a process closes its pipe ends | reference counts are exact, no dangling index, readers see data and end of file |
| Allocator (`allocator.rs`) | `next`, `alloc_count`, `stashed_deallocations` | alloc, dealloc, realloc | backs the kernel heap, program memory and every process's virtual heap | no byte is given out twice, an empty heap is free |
| Emulator (`emulator.rs`) | registers, program counter, memory | fetch, decode, execute | ticked by the scheduler, calls the system calls | it is the machine of the RISC-V manual |
| Program memory (`virtmem.rs`, malloc, free, realloc) | regions, virtual allocator | add, remove, map, malloc, free, realloc; fork clones it | allocator, exec, loader | pointers are mapped, regions and blocks match |
| exec (`syscall.rs`, the loader in `process.rs`) | the whole process | exec, interpreter scripts | ELF parser, program memory, VFS | a running process has a whole program and its arguments |
| Files (`read`, `write`, `lseek` on nodes) | cursor and flags of an open node | open, read, write, append, seek, truncate | VFS, Ext2 | what is written is what is read, by all processes |
| VFS (`vfs.rs`), devfs | mount tree, paths | canonicalize, del_last, get_node | Ext2, devfs, shell | a path means one node |
| Shell (`main.rs`) | current folder | mkrootfsdir, rmrootfsdir, mount, umount, cd, touch, puts, rm, running a program | VFS, Ext2, scheduler | nothing is cut off, directories stay whole |
| Ext2 (`ext2.rs`) | bitmaps, counts, inodes, block pointers, directories | read, write, resize, create, unlink | ATA, VFS | every block has one owner, data survives growing |
| ATA, partitions (`ata.rs`, `partitions.rs`) | sectors | read, write | Ext2, devfs | a device of bytes |
| Keyboard (`ps2_8042.rs`) | | `read_packet` | a read of stdin waits in it, inside the kernel | in `Scheduler` and `Pipes` as the key that is pressed or not |
| Terminal, ELF parser, UART, VGA, framebuffer, boot code, rlibc, ports | | | | not modelled (see the end) |

The behaviours that are hard to test are those several processes produce
together: a child that dies before, while or after its parent waits; a slot or a
pipe entry that is freed and used again while someone remembers its index; a loop
whose vector shrinks under it; reference counts kept by hand in five system calls
and a destructor; a reader that waits for a writer that is being dropped; a heap
freed in an order nobody tried; a resize that runs out of blocks half way; an exec
that fails after the old program is gone.  Others are arithmetic at the edges:
immediates scattered over an instruction, offsets that begin inside a block or a
sector, the ends of the address space.  `PROJECT.json` lists them line by line under
`hazards`.

## The modules

`Slots` has the operations on vectors of `Option` used as tables: `Drain` (the
loops that pop trailing `None`s), `FirstFree` and `Put`.  `Scheduler` and `Pipes`
extend it.

**`Scheduler`** models `scheduler.rs`, the states of `process.rs` and the system
calls exit, fork and waitpid.  The variables are the statics of `scheduler.rs`
plus where the kernel thread is (`phase`, `cursor`, `rangeEnd`): between two
commands of the shell, before a tick, in the loop of a tick, or stopped by a
panic.  One iteration of the loop is one action: the action takes the state of
the process in the slot after its queued signals have been delivered (`Here`) and
does what the matching arm of `tick` does.  Slots count from 1, so a pid is the
number of the slot the code means by `pid - 1`.  A terminated process's exit code
or signal is its `outcome`; `ZOMBIE` and `TO_BE_DEALLOCATED` each stand for the two
states the code has for the two kinds of termination, which its arms treat alike.
Commands that fail before the shell reaches its tick loop change nothing here.
A read of stdin keeps the kernel in its iteration of the loop (`phase = "keyboard"`)
until a key is pressed, which nothing forces.  `exactLaunch` is a history variable: a
program may be launched right after another one or after an empty line, whose tick
brings `NUMBER_OF_TASKS` up to date, and it remembers whether the counter was right for
the program that runs.  Whether a pipe a process waits for has data is left open.

**`Pipes`** models descriptors, open nodes and `PIPES`.  `pipes[i].ends["READ"]` is
`readers_count`, `ends["WRITE"]` is `writers_count`; a node is its reference count;
the contents of a pipe are a number of bytes.  Parts of the system calls are
operators on the tables (`ClosedPipes`, `ReferencedPipes`, `ForkedPipes`...), so
that close, dup2 and drop share them as the code does.  A read that has to wait is
remembered in `pending` and repeated, as the emulator repeats the instruction.
A read of stdin stops everything else until a key is pressed (`READING_STDIN`).
`ProcessData::drop` is a loop of its own, one descriptor per step, during which
nothing else runs.  `dup2` panics where the code does (`Dup2Panics`): `unwrap` of an
entry it has just closed, or an index one above the end of the table.  `StdFds` is
the number of standard descriptors a program still has when it starts to work;
fewer than three are those a program has closed.

**`Allocator`** models `BasicAlloc` as one record: `next`, `count`, and the sets of
live, stashed and leaked blocks (the code keeps no record of the live and the
leaked ones).  `Popped` states the result of the loop over the sorted stash: the
lowest height above which the stash covers everything.  `StashLoop` is the loop itself,
one `Iteration` for every stashed block, and `StashTriedIsTheLoop` compares the two.
The heap begins at `Base`.  The code aligns offsets in the heap, not addresses, and `Aligned`
says just that: an address has the remainder of the base.

**`RiscvDecode`** models how one tick decodes what it fetched.  A word is the set of the
positions of its ones, so the shifts and masks of the code are operations on sets.
Compressed instructions are rewritten as the code does it (`expandCI`, `expandCS`...),
packed, and unpacked by the format of their opcode.  The reference is written from the
manual's tables, not from the code: `ManualExpansion` (which instruction a parcel
abbreviates) and `ManualLayout` (where the bits of an immediate are).  It says nothing of
the parcels the manual reserves (`Reserved`), which the emulator executes.

**`RiscvCpu`** models the execute functions, with the width of a register as a parameter
(8 bits in the run, 64 in the code); casts, wrapping operations and the two moves of the
program counter are those of the code.  **`RiscvIsa`** is the manual's semantics on plain
integers, reduced to the width once at the end; it leaves open what the manual leaves open
(`Unspecified`).  `ImplementsIsa` is the refinement, with `x0` read as zero: a tick is a step
of `RiscvIsa`, or stops the machine in one of the ways `Stops` lists.

**`ProgramMemory`** models a process's regions, the virtual allocator (the operators of
`Allocator`), the loader, and malloc, free, realloc and exec.  Of the data it keeps the
header malloc writes.  `resolved` is the recursion of exec over interpreters.
`SegmentsFit`, `SizesKept` and `PlainArguments` say of the files and calls what its
theorems suppose; `MCProgramMemory` assumes that the instance TLC runs meets them.

**`OpenFiles`** models open, close, fork, read, write and lseek over `ProcessNode`s (cursor,
flags) and `Ext2File`s (a copy of the inode, made by every open, shared by fork), for
files of one block that any number of processes may open.  The history variable `parted`
becomes true when a file with two copies of its inode is truncated or grown through one of
them; from then on the other copy is stale, and nothing is claimed.  **`FileSpec`** is what
programs get until then: files are sequences of bytes, a process has a position.  A write
begins at its position if that is below the size of an inode (`InodeSize`), at or before it if
not (`ext2.rs:563`).  `ImplementsFileSpec` is the refinement.

**`Ext2`** models blocks, inodes and the tree of pointers: a block holds `BlockSize` units of
data, or `Ppb` pointers.  An
operation on an inode is a record (`Start`) that its phases pass on, with `ok` for the
`?` of the code: a phase that fails returns what has been done so far.  `Resize` writes the inode only if all of
it succeeded; the open copy has changed anyway.  Three history variables say what has gone
wrong so far, so that the properties can be asked of all the rest: `leaky` (a resize failed,
or gave the doubly indirect block a new child in the place of one it had), `stale` (a second
growth failed in a row, and freed blocks the inode on disk may still point to) and `holes`
(the data blocks a growth left without a block).

**`Disk`** models drives, partitions and devfs: one step is one sector, and a drive may
answer each with an error.  `after_write` is the read-back check of `Ext2FS`.
**`ByteDevice`** is the abstract device: bytes, a write that puts its bytes in order and may
stop, reads that answer all or nothing.

**`Vfs`** has paths (sequences of parts) and the tree, **`Ext2Dir`** the entries of a directory,
and **`Shell`** composes them: the built-in commands and a program's open on a tree with a
device file system and one ext2 image.

How they fit together: `ProgramMemory` uses `Allocator` (through INSTANCE); `Shell` extends
`Vfs` and `Ext2Dir`; `OpenFiles` abstracts the pointer trees that `Ext2` has in full, `Ext2`
the sectors that `Disk` has, `Shell` the data of files.

The `MC...` modules are the ones TLC runs (`Allocator` needs none); each `.cfg` gives their
constants.  Operators
introduced by "Mutant of" are plausible mistakes in the definition that follows them.
No specification uses them: each is substituted for its original to see that a property
notices.

## The runs

| run | asks | bounds |
|---|---|---|
| `sched` | slots, queues, parents, waits; every process gets its turn, waits end | 3 slots, two programs one after the other, two exit codes, waits for any of 4 pids: parent, child, grandchild, holes in the list and reuse of slots all occur |
| `pipes_shared` | reference counts, dangling indices, drop | 2 processes, 3 descriptors, 2 pipes, 1 open file; no bytes |
| `pipes_liveness` | readers get data or end of file | 2 processes, stdin, 1 pipe of 1 byte |
| `alloc_safety` | overlap, alignment, leaks, reset | 9 bytes from address 6, 2 stash entries, sizes 1 to 3, alignments 1, 2, 4 |
| `riscv` | operations and immediates as in the manual, nothing it defines refused; the emulator implements `RiscvIsa` | all compressed parcels; all words with at most two ones or two zeroes above each opcode; one tick from every combination of 9 values in two registers, 4 program counters and 288 instructions; 8-bit registers |
| `ext2` | one owner per block, bitmaps and counts, leaks, contents, reads and writes | 2 files, 9 usable blocks of 4 units in 3 groups, inodes of 2 units, 1 direct pointer, 2 pointers per block; 5 resizes to sizes from 0 to 17, 1 write: growth by up to five blocks, growth behind the doubly indirect block, and a disk that fills up |
| `disk` | drives implement `ByteDevice`, checked writes, partitions | 2 drives of 3 sectors of 4 bytes, requests of up to 9 bytes at any offset, 1 write |
| `shell` | directories, link counts, mounts, paths | 3 folders, an image with 2 folders, a file with two links, 2 free inodes |
| `memory` | pointers, regions, whole programs, arguments | 52 addresses, 2 blocks of 1 or 2 bytes, 11 files: programs, broken ones, scripts of scripts |
| `files` | files implement `FileSpec`; stale inodes, ownership of blocks | 2 processes, 2 files, 1 block of 3 bytes for both, inodes of 2 bytes; files opened once, twice and shared by fork |
| `sched_stale_pid` | (violated) a pid has a signal queue | two programs one after the other |
| `sched_zombie_kept` | (violated) the tick loop of the shell ends | a parent and a child |

A checked property may be a conjunction of named parts, each with its own comment in the
module: `ReferencesExact` (ends of pipes, nodes), `NoDanglingIndex` (descriptors, waiting
readers), `TablesInBounds` (types, trailing `None`s, the loop of drop), `ReadersWake` (data,
end of file), `HeapWellFormed` (`BelowNext`, `InHeap`, `Aligned`, `NothingLost`,
`StashBounded`, `EmptyIsReset`), `BitmapExact` (`NoDoubleUse`, `UsedIsMarked`, `NoLeak`),
`TransfersExact` (`ReadsAreTrue`, `WriteIsExact`), `WritesAreHonest` (`CheckedWriteIsThere`,
`CountIsHonest`), `HeapMirrorsRegions` (`PointersMapped`, blocks and regions), `NothingCutOff`
(`OneNodePerName`).  Type correctness is a conjunct of one property per module; of
`Scheduler` it is proved, as are `PidIsSlot` and `ParentBelowChild` (for exact launches), and
no run asks for them again, and `ImplementsIsa` contains it for `RiscvCpu`.

`riscv` bounds a behaviour to one instruction because every state of registers and
memory it could lead to is also an initial one; decoder and execution share no variable and
run side by side.  `ext2` fills its disk: a file of five data blocks takes eight or nine blocks
with those of its pointers, so the other makes resizes fail in every phase, and the
properties are asked of what is left, with the file still open and after it was closed.
Its invariants ask for reads and writes at every offset in every state; the `Write` action is
there for the contents.  `files` does not go on from a state where copies have parted
(`MCNotParted`), where its properties are true for good, and takes states that differ by an
exchange of processes or files as one (`MCSymmetry`: nothing in the module tells them apart,
and no property of the run is a liveness property).

Deadlock is checked in `alloc_safety`.  The other passing runs switch it off: a panic
stops the machine, a process may wait for a pipe only it could write to, and the runs
with bounded requests end.

Why the bounds are enough: every rule of the scheduler is about one slot, its
parent's slot, the slot after that one, and the end of the list.  Pipe operations are
about one descriptor and one pipe; two processes and two pipes make sharing, holes in
`PIPES` and reuse of an index happen.  Pointer trees differ by level, and the run has
direct, singly and doubly indirect blocks with more than one entry each; the triply
indirect level is modelled but not reached.  Sectors and blocks of a few bytes have the
offsets that matter (begin, inside, end, beyond).  What matters most of the scheduler,
the allocator, the pipes, the files, the disks, program memory, the directories and the
mounts is also proved for every bound (below).

### What the code does not keep

Two findings are runs.  `sched_zombie_kept`: the orphan check looks at the slot after the
parent's (`scheduler.rs:162`), so a program that does not wait for its first child hangs the
shell.  `sched_stale_pid`: a program launched right after another one ended takes its pid from a
counter that is out of date (`scheduler.rs:29`), so it has no signal queue (line 48: "If the pid
exists then it must have a signal queue") and an illegal instruction does not stop it.  The
models have the following behaviours too.  In most of them the runs go through the case, and the
property names what is excepted; where the last column gives a constant, the passing run keeps
clear of it.

| where | what happens | where it shows |
|---|---|---|
| `syscall.rs:335` | a read of stdin spins inside the kernel (`read_packet`, `ps2_8042.rs:179`) until somebody types; no other process runs | `ReadStdin` in `sched` and `pipes_liveness`; `UserAnswers` |
| `scheduler.rs:94` | waiting for a process without a parent unwraps `None` | `WaitPanics`, in every run |
| `syscall.rs:696` | `dup2(fd, fd)` closes what it is about to use | `Dup2Panics`, in every run |
| `allocator.rs:93` | the last block of a heap, when on top, is popped without the reset that takes the leaks back | `StashSize = 1` |
| `allocator.rs:114` | the offset is aligned, not the address; the virtual heap of a process begins wherever its program ends (`process.rs:287`, `syscall.rs:889`), so its blocks need not be aligned | `Aligned`, with `Base = 6` |
| `emulator.rs:1603` | a division by zero stops the kernel, although lines 1621 to 1625 speak of a result "including on a divide by zero" | `Stops` in `riscv` |
| `emulator.rs:1776` | a jump to itself stops the program, and a jump into the first bytes of memory or an instruction at the end of the address space the kernel | `Stops` in `riscv` |
| `emulator.rs:782`, `856` | reserved encodings are executed ("This implementation ignores wether a C extension instruction is reserved or not") | `Reserved`, `Unspecified` in `riscv` |
| `emulator.rs:1841` | every SYSTEM instruction with an immediate of 0 is an ECALL, whatever its funct3, and EBREAK does nothing | `Environment` of `RiscvIsa` leaves both open |
| `syscall.rs:591` | realloc to another size keeps the old length and header | `AnySize = TRUE`: `HeapMirrorsRegions` |
| `syscall.rs:557` | the pointer of malloc(0) lies outside its region | `0` in `Sizes`: `HeapMirrorsRegions` |
| `ext2.rs:719` | two opens of a file have a copy of the inode each; after one has grown it an append through the other starts at the old end (`syscall.rs:211`: "Before each write, the file offset is positioned at the end of the file") | `parted` in `files` |
| `ext2.rs:563` | a write begins in its block at the offset modulo the size of an inode, while reads (line 539) take it modulo the size of a block: an append at byte 300 of a file, with inodes of 256 bytes, overwrites byte 44 | `Place` in `ext2`; `FileSpec!Write` |
| `ext2.rs:672` | growing by two blocks or more from a block boundary leaves the last one without a block; the file cannot grow again | `holes` in `ext2` |
| `ext2.rs:670` | growing an empty file past its direct blocks in one step fails: the pointer blocks are counted for one block too few | `ext2` (sizes from 0 to 12) |
| `ext2.rs:491` | any growth of a file with data behind the doubly indirect block, even within its last block, gives that block a new first child: the data behind the old one are lost, its blocks never freed | `holes` and `leaky` in `ext2`; `ContentsKept` excepts `Deep` units |
| `ext2.rs:738` | a failed growth leaves its blocks in the open copy; a second one replaces them and frees what the inode on disk may still name | `stale` in `ext2` |
| `ata.rs:368` | a read that straddles one sector more than its length needs fails its assertion | `panicked = "assert"` in `disk` |
| `ata.rs:263` | the drive select register gets the upper half of the third byte of the sector number, not the bits above it: sectors from 2^20 on (512 MiB) are not found | `NSectors` above `Byte * Byte * Nibble` |
| `main.rs:478` | after umount or rmrootfsdir the current folder may be gone ("Shell path should be valid at all times!") | the panic of `ls` in `shell` |
| `elf.rs:368` | executing a file shorter than 16 bytes stops the kernel | `ExecPanics` in `memory` |

### Fairness

`Scheduler!FairSpec` has weak fairness of `Tick`: the shell's `while tick() {}` never
pauses, except inside a read of stdin.  Nothing makes the user type or a process exit, so
`RoundRobin` and `WaitFinishes` have a hypothesis, `UserAnswers`: the kernel is again and again
out of the keyboard driver.  Without it both are false, since one process that reads stdin
keeps all the others from their turn.  `Pipes!FairSpec` says of the scheduler what `RoundRobin`
shows: as long as the kernel is idle again and again, it comes by a reader whose wait is over
and stays over (`WaitOver`), and by one that has its read to repeat.  `ReadersWake` has the same
hypothesis.  A drop runs to its end (weak fairness).  Drives are assumed to answer: a request
that spins in the driver is not modelled.

## The proofs

Each theorem holds for every value of the constants that meets the named assumption of the
module (`SchedulerAssumption`, `PipesAssumption`, ...), and under a further hypothesis where
its statement says so.

`SlotsProofs` has the facts about tables of `Option`s that the others share: largest and
least indices, what `Drain`, `FirstFree` and `Put` leave and change.  `Entry` reads a table
with `None` beyond its end, so that draining changes no entry.  `NatSetInduction` is
induction over the naturals with a set in the place of a predicate.  It is what makes the
loops of the kernel provable: each is a recursive function of the number of iterations, a
`...Steps` lemma shows by it that the function exists and goes one iteration at a time, and
the lemma after that follows an invariant of the loop along it.

**`SchedulerProofs`**, for any number of tasks, programs, exit codes and pids: type
correctness, `QueuePerProcess`, `TickInBounds` and `DeadStaysDead`; and, while the program
that runs was launched with `NUMBER_OF_TASKS` up to date (`exactLaunch`), `PidIsSlot`,
`ParentBelowChild`, `NoStaleParent`, `ReportedOnce` and `WaitIsHonest`.  No theorem restricts
how programs are launched: a stale launch only suspends the second group until the program
has ended.  The inductive invariant is in layers.

* `SlotInv`: `TickInBounds` is not inductive, because an iteration may shorten the
  list.  It holds because the list never ends in an empty slot (`LastIsSome`), so
  only deallocating the last slot, in the last iteration, can shorten it
  (`PhaseInv`), and because the two vectors are drained at the same slots
  (`QueuePerProcess`).  At most one task waits in `NEW_TASK_LIST`, so the order in
  which `move_new_tasks_into_list` pops does not matter.
* `ExactPidInv` says `PidInv` of exact launches.  `PidInv` adds that `NUMBER_OF_TASKS` is exact whenever a process can fork, and
  that a task waiting to be moved has the pid of the slot it will get
  (`NumberExact`).  A parent then sits below its children, and a slot is given out
  only above the end of the list, where no child can name it.
* `ReportedOnce` is inductive on top of `PidInv`: a zombie that is reported becomes
  `TO_BE_DEALLOCATED` in the same iteration, and its slot cannot go to another child of the
  same parent before the parent has run again.

`StepEffect` and `WaitEffect` summarise what one iteration does to the list; each action is
shown to have them once, and the later layers and the action properties follow from them.

**`AllocatorProofs`**, for every heap length, stash size, set of sizes and alignments:
blocks never overlap and have one fate each (`BlocksDisjoint`), `alloc_count` is the number
of live blocks (`CountExact`), and the heap is well formed (`HeapWellFormed`: blocks
at aligned offsets and below `next`, every byte below `next` in some block, the stash within its size,
an empty heap reset).  `HeapInv` is the invariant of overlap and counting; it is stated of
any heap (`Sound`, `Tidy`) so that realloc, which frees after it allocates, goes through an
intermediate sound heap.  The heart is `PoppedSound`: the height the stash is popped to is
the address of a stashed block, so by disjointness it neither cuts a stashed block in two
nor lies below a live one.  `StashTriedIsTheLoop` is proved too: an iteration leaves what
`StashTried` gives as it is (`IterationKeeps`), makes the stash smaller or is the last, and
where one changes nothing there is nothing left to pop (`IterationDone`).  So what is proved
of `Popped` is proved of the loop in the code.

**`PipesProofs`**, for any finite set of processes and any numbers of descriptors, nodes,
pipes and bytes: `ReferencesExact`, `NoDanglingIndex`, `TablesInBounds` and `AllPipesFreed`,
during a drop too.  The inductive invariant `TablesInv` says that the count of a pipe's end or
of a node is the cardinality of the set of descriptors that stand for it, for indices in and
beyond the tables.  Beyond a table the count is zero, so no descriptor can name such an index:
nothing dangles because the counts are exact, not the other way round.  `Held` (a pipe without
ends is `None`) and `EndsInSome` (no table ends in `None`) make `PIPES` empty when the last
descriptor is gone; `Blocked`, `Dropping` and `Gone` tie waiting readers, the loop of drop and
finished processes to their descriptors.  The lemmas are about the operators on tables, one
for closing and one for referencing a descriptor, and each system call is put together from
them as in the code.

**`OpenFilesProofs`**, for any finite set of processes, any files, blocks, block and inode
size, files opened any number of times: `HandlesFresh`, `BlocksOwned`, and the refinement
`ImplementsFileSpec`, step by step, up to the step that truncates or grows a file with
another copy of its inode (`parted`; the code keeps none of them beyond, see above).  The inductive invariant `OpenInv` says that the bitmap is
the set of the files' blocks, each with one owner (`Owned`); that what lies beyond the end of
a file in its block is zero (`Zeroed`), without which a file that grows would show old
bytes and not implement `FileSpec`; that the open handles are those open nodes refer to, at
most one for each process, so that a free one is left for the next open; and that their
inodes are the disk's (`Fresh`), which a step that lets copies part would break.  The operators of read, write and resize are shown to do their part of a
`FileSpec` step on any disk (`Resized`, ...), since a write goes through a disk that is not a
state of the system.

**`DiskProofs`**, for any drives, partition tables, even sector size and requests, under
`AddressesFit` (three bytes are enough for the number of a sector, so drives and partitions
end within 8 GiB; the instance TLC checks meets it): `WritesAreHonest`, `PartitionsConfined`
and the refinement `ImplementsByteDevice`.  The inductive invariant `DiskInv` says what a
request has done when it is at its k-th sector: a read has the bytes from its offset to the
beginning of that sector, a write has put as many (`Done`), and at an even offset has counted
exactly those.  `LoopPlace` and `CountReach` are the arithmetic of the loop: the k-th sector
begins before the request ends, which keeps it within the partition; `TakeOf` shows that a
sector which is not read first is overwritten whole.

**`ProgramMemoryProofs`**, for any address space, stack, files, arguments, environments and
number of blocks: `HeapMirrorsRegions` and `ProgramIsWhole`, if segments are not empty and
end below the stack (`SegmentsFit`) and programs ask for at least a byte and reallocate to
the same size (`SizesKept`; the code breaks the first property otherwise, see above); and
`InterpreterArguments`, if no argument but the first names a script (`PlainArguments`, without
which the property does not say which entry of argv is the script).  The inductive invariant
`IInv` says how a process's memory is laid out (`Laid`, `Memory`): the regions are the segments
and the stack, outside the heap, one region for every block that holds an argument or a
value of the environment, and one for every block the program holds; all are clear of one
another, and the two kinds of block together are the live blocks of the virtual allocator.
One-to-one correspondence does not survive malloc without that partition, because free
finds a region by its address and the header in it.  The virtual heap is sound in the sense of
`AllocatorProofs`, restated for its base address (`SoundHeap`).  Loading goes through maps
that are not states of the system: `LoadStrings` and its like follow `Laid` along the loops
of the loader, where each step adds a block and its region or fails.  exec replaces the
memory only by one that was laid out whole, or the process exits.  `ArgumentsInv` is what
the recursion over interpreters keeps (`Level`): every script stands behind its interpreter
and its optional argument.

**`ShellProofs`**, for any names, arguments, blocks and headers of directories, number of
folders and any image that is sound when the shell starts (`ShellAssumption`: its folders are
tiled by their entries and its link counts are right; every other state is the code's doing):
`CanonicalIsResolved`, `EntriesTile`, `OneEntryAtATime`, `LinksMatch` and `NothingCutOff`.

* `CanonicalIsResolved`: the backward walk of canonicalize carries a number of names to skip.
  The invariant of its loop relates the names it has collected, and the number it has still to
  skip, to a forward walk over the parts it has not seen yet; at the beginning of the path both walks
  have nothing left.  It needs of the state only that the current folder is an absolute path
  (`CurOk`).
* `ShellInv`: the tree has nodes and names in range (`TreeOk`), each folder of the image is
  tiled by its entries and names existing inodes (`FsOk`), only files have data
  (`DataOk`).  Creating an entry splits the last one or begins a new block, unlinking gives
  the room to the entry before: `Offset`, a sum over the entries, is followed through both.
  `EntriesTile` is part of it, and `OneEntryAtATime` follows from what the two operations do to
  the set of names (`Adds`).
* `LinksMatch` is inductive on top of `ShellInv`.  Entries move when one before them is unlinked,
  so the positions that name an inode before and after a step are matched by a bijection
  (`NamingGrown`, `NamingShrunk`) to compare their number.
* `NothingCutOff` needs `Attached`: whatever carries a file system or folders is reached from the
  root.  Removing a folder keeps it because the folder removed is an empty one
  (`EmptyFolder`): any set closed under the smaller tree becomes, with it, closed under the
  larger.  That none is hidden (`NoneHidden`) follows from the
  folders `rootfs_children` leaves out.

Of the constants the proofs assume what the code gives: processes are finite in number, the
standard descriptors fit into a table (`StdFds <= MaxFds`), a block is smaller than an offset
can express (`BlockSize < Wide`), a stash and a heap have a length.

Only model-checked:

* liveness (`RoundRobin`, `WaitFinishes`, `ReadersWake`): the prover has no fairness;
* everything about `Ext2`.  It walks its pointer trees with recursive operators, which the
  prover cannot use; and `BlocksExist` and the absence of leaks in `BitmapExact` are no theorems,
  since the code breaks them (`ext2.rs:491`, `ext2.rs:672` and `ext2.rs:738` above): the run has
  those cases, and says what holds beside them;
* the emulator: `RiscvDecode` is finite and its run is nearly all of it; what `RiscvCpu`
  does to words of a register's width is bit arithmetic out of the prover's reach.

## Plan

1. Done: all modules above, with the refinements of `RiscvIsa`, `ByteDevice` and `FileSpec`.
2. Proved: `Scheduler`, `Allocator`, `Pipes`, `OpenFiles`, `Disk`, `ProgramMemory`, `Shell`.
3. Next: the pointer trees of `Ext2` as recursive functions, for `CountsAgree` and the part of
   `BitmapExact` that holds for every size (no block with two users).
4. `Scheduler` and `Pipes` composed, for the reader whose writer is a zombie
   (`process.rs:83`).

## Not modelled

Terminal (a line buffer), the keyboard but for its waiting (tables of scan codes over polled hardware), the
ELF parser (what exec makes of its result is in `ProgramMemory`), output devices (UART, VGA,
framebuffer, characters), boot code, the C library and the ports.  Of the modelled parts:
the registers and delays of the ATA ports, opening an ext2 image and checking its super
block, errors of the device in the middle of an ext2 update, the PATH search of execvpe
and the parsing of argument lists out of user memory, getcwd, getenv and fchdir, and the
commands of the shell that only print.  Locks are not modelled: there is one thread, and
no system call takes a lock it holds.  Time, priorities and preemption do not exist in
this kernel.
