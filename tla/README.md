# MachaOS in TLA+

A verification development for MachaOS, a single-CPU x86_64 kernel in Rust with
preemptive tasks, ring-3 processes, a Linux system-call layer, shared memory,
sockets, a compositor task, FAT32 and a desktop. The modules are TLA+ models
of the code under `src/src/`; TLC checks them on small instances and TLAPS
proves the safety properties of the scheduler and of the system call entry, and
that the input rings are queues, for every instance.

## The system and its parts

| Part | Source | State | Hard behaviour |
|---|---|---|---|
| tasks, scheduler | `task.rs`, `interrupts.rs` | `TASKS`, `CURRENT`, CPU registers (CR3, FS_BASE, TSS.rsp0) | preemption at any instruction with interrupts on, a table whose entries move |
| processes | `process.rs` | `Process` (exit record, inbox, fds, mappings, frames) | exit, kill, wait with a timeout, reap, all by different tasks |
| system call entry | `syscall.rs`, `sync.rs` | one shared stack, `SAVED_USER_RSP`, IF, spin locks | interrupts turned on before the shared stack is left, locks held across preemption |
| Linux ABI | `linux_abi.rs` | fd table, brk, mmap, sockets | non-blocking calls, partial failure |
| shared memory | `shm.rs` | `TABLE` of refcounted objects | references in flight, frames freed under a mapping |
| sockets | `socket.rs` | `STATE` of endpoints | slot reuse, peers that are never told |
| compositor | `wayland.rs` | one session at a time | clients that die or stop talking |
| memory | `pmm.rs`, `allocator.rs`, `paging.rs`, `elf.rs` | frame bitmap, free list, page tables | partial failure, boundaries |
| file system | `fat.rs`, `vfs.rs`, `ata.rs` | FAT, directories, dirty handles | crash between sector writes, no space |
| input | `keyboard.rs`, `mouse.rs` | event rings | interrupt handler against readers, full ring |
| desktop | `wm.rs`, `desktop.rs`, `session.rs`, `settings.rs`, `file_explorer.rs`, applications | windows, session file, selection | long sequences of events, malformed files |
| shell | `shell.rs` | line editor, history, current directory | boundaries of the history and of paths |

The shell (or the desktop's Terminal) runs in the main task, entry 0 of the
task table. It spawns a process, waits for its exit record and reaps it. The
timer preempts everything, including the kernel code of the main task and of
the compositor, but not a system call, which runs with interrupts off. Several
processes coexist because `cmd_run` and `cmd_runlinux` leave a process that
timed out in the table.

## Modules

### Scheduler

State: the table (`count`, `tasks` on `0..count-1`), `current`, what the CPU
holds (`running`, `fsMsr`, `cr3`, `rsp0`), the tick phase, each process's
record (`pc`, `exit`, `inbox`, `fsBase`) and the main task (`mpc`, `mode`,
`pid`, `left`). `fsWant`, `cause` and `child` are history.

Actions: `Timer` is the whole of `timer` and `scheduler_tick`, switch included;
a process enters ring 3, installs a TLS base, sends, receives, exits, is
killed, and parks in `exit_self`; the main task spawns, sends a message,
waits (the exit record and the clock are two separate reads, as in the code)
and reaps. `remove_process` is two steps, since `reap` runs it with interrupts
on although its comment asks for them to be off.

What the handlers do they do to `tasks[current]`, not to `running`, as in the
code: that the two agree is a property, not an assumption.

### SyscallEntry

The code path between ring 3 and the kernel: `SYSCALL` onto the one
`SYSCALL_STACK`, dispatch, `SYSRET`, the exit path with its early `sti`, traps
that kill, and the keyboard queue's spin lock as taken by the main task
(interrupts on), by `sys_read` (interrupts off) and by the keyboard interrupt.
`frame` says whose frames lie on the shared stack; a process that returns over
another's frames is `Wild`: it pops arbitrary registers, so behaviours end there,
and the properties of this module speak of the machine up to that point.

### Shm, Socket, Wayland

`Shm` and `Socket` are the operations of `shm.rs` and `socket.rs` as functions
of their tables, each of which the code runs under one lock. `Wayland` composes
them with the compositor task and with the repository's client program, one
system call per step: `Script` is the client's sequence of calls and `Expect`
the sizes `client_session` wants. Bytes are messages (their size, and whose they
are), a physical block is its identity, time is left out. `Kill` and `Reap` let a
client die at `StrayPoints`; `Retruncate` and `Misstep` are calls outside the
script. `strays` counts those, and the properties that depend on clients being
well behaved say so with `strays = 0`.

### Pmm, AddressSpace

`Pmm` is the frame bitmap: first fit for one frame and for a run of frames.
`AddressSpace` keeps, for each process, what `Process` keeps (frames, mapping
list, break, `mmap_next`, stack floor and backing) and its page table: which
2 MiB blocks have been split, which frames are tables, and the frame ring 3
reaches through each page. `Build`, `LoadSegments` and `SetupStack` are the
phases of `spawn` and `spawn_linux`, each of which may fail and give everything
back; `Brk`, `Mmap`, `MmapShared`, `Munmap`, `Mprotect` are the Linux calls;
`PageFault` grows the stack or kills; `ResolveSyscallPtr` is what a pointer
argument does. `MapPages` is `map_range_in` with its partial failure.
`MAP_FIXED` and `brk` are checked by the code against nothing but the 4 GiB
limit; the addresses tried are those of the heap, the stack and the arena.

### FileStore, Fat

`FileStore` is what a volume promises its callers: one operation at a time,
which touches only its own paths; success means that the effect is there to be
read; an error may leave the old version, the new one or neither; a power cut
changes only what an unfinished or failed operation was about, unless it breaks
the volume. `Fat` is `fat.rs` as sector writes. State: the disk (table and
sectors), the cached table with its dirty flag and free count, and the operation
in progress with its program counter. `WriteFile`, `MakeDir`, `RemoveEntry` and
`Rename` begin an operation; `DeleteEntry`, `AllocClusters`, `WriteData`,
`ExtendDir`, `WriteDirEntries` and `FlushFat` are its steps, one sector each, in
the code's order; `OutOfSpace` and `IoError` leave it by the code's `?` with
whatever has been done. `Crash` forgets the cache and mounts again. `seen`, what
every path reads as when nobody holds the volume, is the refinement mapping to
`FileStore`; `dubious`, `torn` and `leaky` are history.

### Files

The users of the volume: the explorer and the shell commands `write`, `mkdir`,
`rm` and `mv` in the main task, and a process with open files. A call of
`fat.rs` is one step on the tree, since it holds the volume's lock; `move_file`
is several calls and so several steps (`MoveLook` to `MoveRemove`), and the
process runs in between. The explorer's list is a copy that is stale until the
next `refresh`; its prompts keep an index into it. A handle keeps a copy of the
file and writes it back when it is closed or its process dies.

### Wm

The window manager with its desktop loop. Windows are a sequence in stacking
order, and focus, drag and resize are indices into it, as in the code. One
coordinate stands for two and one size for columns and rows; which visible
window a click hits is a choice. Each action is one branch of `handle_click`,
`handle_mouse` or `handle_key` with the save at its end. The session file and
the settings file are sequences of lines: `Serialize` and `Parse`, `Save` and
`Load` are the two formats, field by field. `Boot` can come between any two
events and starts from those files. A cut inside a save is the subject of `Fat`:
`write_file` erases the old file before the new one exists, so the desktop may
then come back empty.

### EventRing, Terminal

From bytes on the wire to text. `KeyIrq` and `MouseIrq` take one byte each;
`Decode` keeps the modifiers and the prefix; the two rings (`EventRing`, the
`EventQueue` of both drivers) have head and tail and are full with one slot left. Keys go to the window in focus or to a process
in `sys_read`, whichever pops first. `Feed` and `FeedEditor` are the two line
editors, with history and completion; `EditorHandleKey`, `SaveNote` and
`OpenNote` are the Notepad. `keyQueue` and `mouseQueue` are the queues the rings
should be, `entered` the lines that were handed over.

### SchedulerProofs, SyscallEntryProofs, EventRingProofs, TerminalProofs

The proofs about `Scheduler`, `SyscallEntry`, `EventRing` and `Terminal`, see
below.

## Runs

| Run | Shows |
|---|---|
| `scheduler` | six invariants, two action properties and two liveness properties of the scheduler: 2 processes, 1 background task, quantum 2, timeout 2 |
| `syscall_entry` | user stack, interrupt flag and lock discipline with 3 symmetric processes |
| `wayland` | references, blocks, connections and the renderer with 2 clients, one of them mortal and rogue |
| `wayland_live` | every commit is rendered when the clients follow the script |
| `address_space` | exact frame accounting, page tables and mappings that only lead to the process's own frames, stack growth, with a Linux and a native process and memory for exactly both |
| `fat` | the driver implements `FileStore`; chains, free space and the window in which a crash can break the volume: two names in two levels, five clusters, three operations, one crash and one failed write |
| `desktop` | focus, indices held across reordering, both files and a restart: three apps, two resolutions, two font scales, seven inputs |
| `files` | what the explorer acts on is what it showed, moving loses nothing, handles write back what was written: five calls by the main task and a process |
| `terminal` | rings, history and the Notepad's file: five keys or packets, rings of two and one events |
| `truncate_mapped` (violation) | a growing `ftruncate` frees frames that are mapped |
| `fat_entry_hidden` (violation) | a directory entry can be placed behind the slot where the listing stops |
| `notepad_empty` (violation) | opening an empty file leaves the Notepad without a line to type into |

Each violation run states a sentence of the repository; `PROJECT.json` quotes it.

Bounds. Two processes are enough for every hazard of the scheduler, which are
about one task's state leaking into another's, and three for the shared system
call stack (one that left frames, one that overwrites them, one that waits).
`Quantum = 2` keeps ticks that do not switch, `WaitTicks = 2` lets the deadline
pass before, between and after the two reads of `wait`. In `Wayland`,
`MaxSpawns = 2` bounds the programs started: both at once, one after the other,
or the same twice, so that endpoint and object slots are reused; three blocks,
three object slots and five endpoints are what two clients can use at once; any
growing truncate may also find no memory, as the PMM serves the whole kernel. `MaxStrays = 1`
and the three `StrayPoints` bound how often, and where, a client dies or leaves
the script: waiting for the globals, before it passes the pool, before commit.
In `AddressSpace` a page table covers four pages and the stack region three, so
that a range can cross into a block without a table; 17 frames hold both
processes (7 and 9) and the shared object, so that each call and each
phase of spawn is also tried with too little. `MaxCalls = 3` memory calls are
what the overlaps need (map, map over it, protect or unmap; break up, down, up).
In `Fat` a directory sector holds one entry of two slots (four slots and
entries of three in `fat_entry_hidden`), so directories grow at the second name;
five clusters fill up with two files and a directory; the table has two sectors,
so a flush can be cut in the middle. Three operations write, replace or rename,
and read what is left. In `Wm` seven inputs open, arrange, close and reopen two
windows; the larger of the two screens is the native one. In `Files` two names
in two levels, files of two bytes and one open file let every call meet every
other one's effects; the details view has one row, so scrolling happens. In
`Terminal` the rings fill with two keys and one packet, and lines of two
characters with a history of two make both limits happen.
`CHECK_DEADLOCK FALSE` is set where the system may really stop: the spinning
system call of `SyscallEntry`, the end of the last program in `Wayland`, the
stopped kernel in `Files`, and the end of the inputs in `Fat`, `Wm` and `Terminal`.

Fairness. `Scheduler`: the PIT never stops, so `Timer` is weakly fair. A task
that is switched to has the CPU for a whole quantum and `wait` and `reap` wait for
nothing but interrupts, so the main task's code is strongly fair. No program is
obliged to do anything. `Wayland`: the compositor, the scripted clients and the
reaping of exited processes are weakly fair, which is what `EveryTaskRuns`
promises; starting a program, killing it and stray calls are not. The other
modules have no liveness property and assume no fairness: their users may stop
at any time.

## Proofs

`SchedulerProofs` proves, for any set of kernel tasks and processes, any
quantum and any timeout (`ConstantsAssumption`): type correctness, `CurrentIsRunning`,
`CpuMatchesTask`, `TlsPrivate`, `FirstCauseKept`, `PidIsChild`, and the action
properties `PidStable` and `NeverResumeExited`.

None of these is inductive alone. The invariant `IndInv` has four parts:

- `TableOK`: entry 0 is the main task, no task is in the table twice, a process
  is in the table exactly while it is not free, and `current` is an index of it;
- `CpuOK`: the registers belong to `tasks[current]`; a process that is not
  running has its TLS base in its record, the running one has it in the MSR;
- `ExitOK`: an exit record agrees with the history and with where the process is;
- `ShellOK`: while the shell waits for or removes a process, its `pid` is the
  last entry of the table.

The last part carries the argument about `remove_process`. `swap_remove` would
renumber the last entry, and the branch that decrements `CURRENT` is wrong for
`swap_remove`; neither matters because only the main task (index 0) reaps, and
what it reaps is the last entry. A second reaper, or a shell that reaps an older
process, would break the proof at `RemoveCommitInv`.

`SyscallEntryProofs` proves, for any set of processes (`TasksAssumption`: the
main task is not one of them), all four properties of its run: `OwnStack`,
`InterruptsReturn`, `QueueExclusive` and `SyscallUninterrupted`. Its `IndInv`
adds to `OwnStack` what the shared stack and the global slot rest on:

- `DispatchOK`: a process between SYSCALL and SYSRET is the running one,
  interrupts are off, and `SAVED_USER_RSP` and the frame on the shared stack are
  its own. So at most one process is there;
- `ReturnOK`: the resume point kept for the exit path is the process's own;
- `IfOK`: interrupts are off only inside a system call or while the keyboard's
  handler spins;
- `LockOK`: the lock bit is set exactly while some task, and only one, is in the
  critical section.

These theorems speak of the machine up to `Wild`, like the run. The exit path
turns interrupts on while it is still on the shared stack (`ExitSti`), so another
process can push its frame there; what the first one does when it resumes over
that frame is not described, and nothing is proved of it. Until then a process on
its way out has left `DispatchOK` and rests on `ReturnOK` alone.

`TerminalProofs` proves `RingsAreQueues` for rings of any capacity and any
number of keys and packets (`RingsAssumption`, `LettersAssumption`: a letter is
not one of the named keys, `NoneAssumption`: no event is the missing one). It
has three layers:

- the ring (`EventRingProofs`): `After` and `Places` replace the remainders (`Wrap`), and `PushHeld`
  and `PoppedHeld` say that push and pop of `EventQueue` are those of a bounded
  queue that drops the newest;
- the wire: `WireOK` and `AuxOK` list what can be left of a key's bytes or of a
  packet, with the modifier flags and the bytes kept. They give `WireStep` and
  `AuxStep`: the driver decodes a byte to what the key or the packet meant. The
  prefix flag and the release of a modifier are the cases that need them;
- `IndInv`, which joins them. `TakeInv` covers every reader, one event at a time
  or, as `sys_read` does, up to the first character.

Only model-checked: liveness (`EveryTaskRuns`, `WaitReturns`,
`CommitRendered`), which TLAPS does not reach; the refinement of `FileStore` by
`Fat`; the line editors and the Notepad, whose text is folded over sequences;
and the properties of the other modules.

## Observations

Besides the three findings with a run of their own, the models behave other
than a comment says in these places. The models follow the code.

- `shell.rs:1323` wants the message delivered before the child runs; `spawn`
  enables interrupts (`task.rs:251`), so the child can run first. `Scheduler` lets
  the delivery be refused.
- `syscall.rs:14` says that a system call never overlaps another; the exit path
  enables interrupts at `syscall.rs:220` while it is on the shared stack.
- `syscall.rs:320` says that `sys_read` never blocks; it spins at `syscall.rs:334`
  on a lock whose holder may be preempted.
- `wayland.rs:35` describes queued clients; `fill_to` (`wayland.rs:135`) waits for
  a killed client for ever, and those behind it with it.
- `process.rs:571`: with overlapping mappings `translate_local` (`process.rs:361`)
  takes the older one and the page table has the newer.
- `vfs.rs:144`: "Returns 0 at EOF"; with the cursor beyond the end the slice at
  `vfs.rs:151` is out of range and the kernel stops (`ReadPanics` in `Files`).
- `spawn_window` (`wm.rs:530`) applies the remembered size at an index that `raise`
  has made another window's, if a closed window's slot was reused;
  `ReopensAsLeft` is stated for the other case.
- A second Settings window starts from the manager's copy, which a font change
  does not reach, and saves it when it is drawn; `SettingsInEffect` is stated for
  one window.

## Not modelled

- Contents of memory, messages and pixels; `Vec` internals (a push or a swap is
  one step); the locks of `STATE`, `TABLE` and `MOUNTED` (a call is one step: what
  a preempted holder does to a system call is shown once, on the keyboard queue,
  in `SyscallEntry`, and applies to them as well); permission bits of pages.
- The kernel heap and the calculator: arithmetic in one object without a second
  actor. `elf.rs`: parsing without state. `normalize_path` and `tokenize`:
  functions on strings.
- Drawing (most of `wm.rs`, `file_explorer.rs` and `settings.rs` below the event
  handlers, `gfx.rs`, `fb.rs`, `font.rs`, `console.rs`, paint, the viewer), hit
  testing, hardware set-up and port I/O, boot. This is the larger half of the code.
- Malformed session and settings files: the files are those the code writes.
- A mapping outlives its object after the last `close`, as `shm.rs` documents.
