# LiteBSD in TLA+

LiteBSD is a 32-bit x86 kernel that runs an unmodified busybox userland on one
CPU, without an MMU: every program is loaded at the same address
(`USER_LOAD_ADDR`), so all processes share one user image. This directory holds
TLA+ models of the kernel's own logic, the TLC configurations that check them,
and TLAPS proofs. Paths below are relative to the repository root.

Run a check with `tlc -config ProcessFork.cfg MCProcess`, a proof with
`tlapm ProcessProof.tla`.

## 1. Inventory

| Part | State it keeps | Operations | What makes it correct |
|---|---|---|---|
| Scheduler and tasks (`src/sched.c`) | circular list `ready_queue`, `current_task`, `next_pid`; per task: state, ppid, exit code, fds, `img_size`, `img_snapshot` | `schedule`, `fork_task`, `wait4`, `task_exit`, `create_user_task`, `add_task`, `remove_task` | the list never dangles; at most one task can run, because two would overwrite each other's image; no zombie is resumed; sleeping parents wake; zombies can be reaped with their own status |
| System calls (`src/syscall.c`) | the interrupted frame, pipes | dispatch of 51 calls; `execve`, `exit`, `kill`, `pipe`, `dup`, `dup2`, `open`, `close`, `poll`, sockets, `brk`, `mmap` | exec saves the parent's image before it overwrites it; counts of shared files and pipe ends are exact |
| Interrupts (`src/idt.c`, `src/boot.asm`) | the IDT, the PIC | timer tick, keyboard, NIC, exceptions | every gate clears IF, so a handler is atomic unless it executes `sti`; a fault in ring 3 kills the program, not the kernel |
| Boot (`src/kernel.c`) | none of its own | `kernel_main`, `user_init`, `respawn_user_shell` | there is always a shell |
| Heap (`src/heap.c`) | `heap_begin`, `free_list`, `heap_used`, block headers | `kmalloc`, `kfree` | blocks tile memory, no byte is handed out twice or lost, stray frees are ignored |
| File descriptors (`src/sched.c`, `src/syscall.c`) | per task `fds[]`, shared `struct file` with `ref_count`, `struct pipe` with `read_ref` and `write_ref` | `alloc_fd`, `release_fd` and the fd calls | reference counts equal references; a pipe reaches end of file exactly when its last writer is gone |
| VFS (`src/vfs.c`, `src/initrd.c`) | list of nodes with full paths, data blobs shared through `data_refs`, generated `/proc` and `/sys` nodes | open, read, write, truncate, link, symlink, rename, unlink, mkdir, readdir | blobs freed by their last owner, paths unique, links resolve within their bound |
| Sockets (`src/socket.c`) | 32 slots: TCP state, sequence numbers, receive ring, datagram ring | socket, connect, send, recv, close, segment input | stream delivered in order, no slot freed under an fd |
| Network stack (`src/netstack.c`, `src/drivers/netdev.c`) | ARP table of 32 entries | resolve with retries, receive, transmit, ICMP echo | a packet is handled once, whatever its answer needs |
| Network drivers (`src/drivers/e1000.c`, `ne2k.c`, `rtl8139.c`) | descriptor rings and their indices | send, receive interrupt, poll | every frame is delivered once, a descriptor is returned to the card after it was read |
| Keyboard (`src/drivers/keyboard.c`) | ring of 256 bytes, modifier flags | interrupt handler, `getchar` | bytes come out in order; a full ring drops the newest |
| Terminal (`src/tty.c`) | cursor, attributes, parser state | `putchar`, escape sequences | cursor stays on the screen |
| Paging, GDT, timer, sysinfo, framebuffer, PCI | tables and counters set at boot | register I/O and text | none beyond I/O |

How they interact: a program traps into `syscall_handler`, which calls the
handler of the call and then, if the caller has become a zombie, `schedule`.
`fork` and `wait4` ask for a reschedule; `exit` and the fault handler call
`task_exit` and, for a task without a parent, `respawn_user_shell`, before they
schedule. `task_exit` and `dup2` call `release_fd`, which reaches pipes,
sockets and VFS nodes. All of them allocate from the heap. The timer
interrupt reschedules; the NIC and keyboard interrupts fill rings that system
calls drain in loops of `sti; hlt`.

Hard behaviours: the parent is suspended in the middle of `fork` and must be
resumed with its memory as it was, after any sequence of nested forks, execs
and exits; orphans change hands; killed tasks skip the exit path; shared files
are counted across tasks; pointers outlive their owners in a heap that reuses
blocks. `PROJECT.json` lists each as a hazard, at its line.

## 2. Modules

| Module | Models | State | Actions |
|---|---|---|---|
| `Process` | task list, scheduler, process calls, timer, faults, respawn | the list `ring` from `ready_queue->next` on, `current_task`, `next_pid`, the task fields, the shared `image` | `TimerTick`, `Fork`, `Execve`, `ExecveFails`, `Exit`, `Fault`, `Wait4`, `KillSelf`, `KillOther` |
| `CallStack` | abstract: what the process layer promises | `caller`, `top` | `Call`, `Return`, `Restart` |
| `Heap` | `kmalloc` and `kfree`, in bytes | `heap_begin`, `free_list`, headers (`size`, `magic`), `heap_used` | `KmallocFree`, `KmallocBump`, `KmallocPanics`, `Kfree` |
| `Files` | fd tables, files, pipes, sockets of files; extends `Process` | `fds`, `ref_count`, `object`, `sock`, `read_ref`, `write_ref`, `filled`, `nonblocking`, `spins` | `Open`, `PipeCall`, `SocketCall`, `Dup`, `Dup2`, `Close`, `PipeWrite`, `PipeRead`, `PipeRetry`, `Fionbio`, and the process actions with what they do to fds |
| `Vfs` | nodes, data blobs and copy on write, paths, symbolic links | `node`, `bytes` and `count` (what the heap holds for it), `next_ino` | `Create`, `OpenTrunc`, `Write`, `Ftruncate`, `TruncatePath`, `Mkdir`, `Link`, `Symlink`, `Rename`, `Unlink`, `Rmdir`, `ReadOnly` |
| `Volume` | abstract: what the file system promises of its objects | `obj` | `Make`, `Link`, `Put`, `Cut`, `Remove`, `Move` |
| `Keyboard` | scan codes, modifiers and the ring of `drivers/keyboard.c` | `key_buffer`, `buffer_head`, `buffer_tail`, the flags | `keyboard_handler`, `TakeByte`, `keyboard_flush`; of the person: `Press`, `Release` |
| `Tty` | the screen and its escape sequences, as functions on a record | (none) | `print_char` and what it calls |
| `Console` | `sys_read`, `sys_write` and termios of the console; extends `Keyboard` and `Tty` | `tty`, `con`, where the read is and what it has | `ReadLine`, `EndLine`, `EditByte`, `EscByte`, `SwallowByte`, `SwallowEnds`, `GetcharWaits`, `ReadRaw`, `RawByte`, `RawDone`, `Write`, `Tcset`, `KeyboardIrq` |
| `LineInput` | abstract: what a canonical read promises | `typed`, `line`, `answer` | `Type`, `Call`, `Take`, `NoRoom`, `Flush` |
| `Sockets` | the socket table of `socket.c`, as functions on it | (none) | `sock_create`, `connecting`, `received`, `tcp_input`, `socket_udp_input`, ... |
| `Net` | socket calls, address resolution, dispatch, the e1000's receive ring; extends `Sockets` | `sockets`, `fds`, `arp_table`, `descs`, `s_rx_cur`, the card's registers, `stack` | `Socket`, `Bind`, `Option`, `Connect`, `Accept`, `Sendto`, `Recv`, `SysPoll`, `Close`, the steps of each that waits, `SendPacket`, `Resolve`, `PollRx`, `PolledRx`, `Irq`, ...; of the network: `Answer`, `Data`, `Packet` |
| `MCProcess`, `MCHeap`, `MCFiles`, `MCVfs`, `MCConsole`, `MCNet` | instances for TLC | | |
| `ProcessProof`, `ProcessImageProof`, `HeapProof`, `FilesProof`, `VfsProof`, `ConsoleProof`, `NetProof` | proofs, one module for each part | | |
| `ListFacts` | facts about numbers, ordered lists and loops that several proofs use | | |

Operators keep the names of the functions they translate. A definition whose
comment begins with "Mutant" is a faulty variant of the one that follows it; it
is used to check that the property it belongs to can fail.

### Process

*Atomicity.* All IDT gates are interrupt gates (types 0x8E and 0xEE), so a
handler runs with interrupts off; none of the process handlers executes `sti`.
An action is therefore a whole handler, from the trap to the frame that is
resumed: `Fork` includes the schedule that follows it, `Die` includes
`task_exit`, the respawn and the schedule.

*Data.* The user image is `Pages` pages, each holding the pid whose exec wrote
it; `img_size` counts pages. A snapshot is the sequence of pages it copied.
`task_exit` copies `img_size` of the child's own last exec, as the code does:
pages beyond the snapshot's end become `Junk`, the heap bytes behind it. `prog` is a
history variable: whose exec loaded the code a task believes it runs. An exec
either fails before it changes anything or loads some number of pages; its
parsing of paths, `#!` lines, ELF headers, `argv` and `envp` only decides which.

*What programs do.* Any program may make any call at any time. Three
specifications differ in what is assumed of programs, never in what the kernel
does: `KillSpec` (everything), `Spec` (no `kill`), `NestedSpec` (no `kill`; a
task forks only once it has exec'd a program of its own, and never execs an
image smaller than its parent's). The last is the discipline the snapshot
scheme of `execve` silently depends on; without it the image is lost, see
`process_image_lost`. A shell that forks a subshell which itself forks breaks
it.

### CallStack

With one image and one runnable task, `fork` behaves as a call and `exit` as a
return. The refinement maps the frames to the live tasks with `ppid` as the
caller, and the top to `current_task`. It says in one formula that the CPU goes
to exactly the child after `fork`, to exactly the parent after `exit`, that
nothing else (timer, `wait4`, failed exec) ever moves it, and that a shell is
respawned only when every other task is dead.

### Heap

Addresses and sizes are bytes and the header is the 12 bytes of
`struct heap_block`. `magic` is what a header at any aligned address would
read, so that `kfree` can be called with stale and interior pointers; an
owner is assumed not to write the magic word itself into its payload. `err`
halts the kernel, so the model may stop there and deadlock is not checked.

### Files

Extends `Process`: each process action is conjoined with its effect on the
descriptors. A file slot is the block `kmalloc` hands out, the lowest free
one, and keeps in `sock` what its last owner left there, because `open`, `pipe`
and `create_user_task` do not assign that field. `lost` is a history variable:
files that some path drops without releasing (`pipe` with fewer than two free
fds, and the reaping of a task that another one killed). They make the exact
count false, and `RefCountExact` says precisely by which files.

A pipe is the number of bytes in it. `read` and `write` move bytes until they
are done, and wait in `sti; hlt` when they cannot (`spins`). `PipeWrite` and `PipeRead`
are the call up to the first wait, `PipeRetry` is one turn of the loop after it. While a task
waits the timer still comes, and `schedule` finds nobody else: this composition with
`Process` is what makes `PipeWaitIsForever` true. `read` of fd 0 and `write` to fds 1 and 2 go to
the console whatever the fd holds, so a pipe that was `dup2`'ed there is not reached
(`IsStdin`, `IsStdout`).

### Vfs and Volume

A node is the record of `struct vfs_node` without time stamps, identified by its
inode number. Nodes go to the head of the list, so `find_node` returns the
youngest of those that have a path. A path is a sequence of names, the text of a link a
sequence of names, `..` and a leading `/`; `vfs_resolve_path` folds the one into
the other. All calls of a component that changes state are there, with
`data_cow`, `data_share` and `data_release` translated one by one as functions on
the nodes, blobs and counts.

What is abstract: a write is one unit long, and `MIN_CAPACITY` units are the
256 bytes a blob starts with. Bytes of a blob past the end of its file are `Junk`,
whatever they hold; a write beyond the end makes them part of the file. Which free block
the heap hands out makes no difference, so a node gets the one of its own number
(`Prefer`). Any node may be open, so `Write` and `Ftruncate` take any node
whatever its path has become; programs do not unlink a file that is open (the code frees
the node, see the hazard at `src/vfs.c:877`). No rename leads out of `Path`,
which stands for the 255 characters that a path can have. `tidy` is a
history variable: no program has created a node below a path that is not a directory, or moved
a directory below itself. The code checks neither.

`Volume` gives every object a content of its own. A hard link is a copy, which
is how the comments of `vfs.c` describe it (copy on write), and not what POSIX
means by a link. The refinement maps a node to its path, its mode and the first `size`
bytes of its blob: it says that sharing cannot be observed, and that rename moves
a directory with everything below it and touches nothing else.

### Keyboard, Tty, Console and LineInput

`Keyboard` is the interrupt handler, one scan code at a time, with the tables of
the code. A key is its scan code, plus `EXT` if it sends E0 first. The person is free: keys go
down and come up in any order, and a navigation key with a shift held sends the release and press of the shift around
it that PC keyboards send. `Tty` is the terminal as one
record, and `print_char` a function on it; only colours are missing.

`Console` takes `sys_read` apart at every byte it takes from the ring. A call begins with
interrupts off; `getchar` turns them on when it waits and nobody turns them off
again, so `KeyboardIrq` may come between any two later bytes, also in the middle
of a sequence that is being swallowed.

`LineInput` promises that a line is made of the characters typed, in
order, edited by the editing keys, and ended by the first of newline, `^D` and `^C` or
by the limit. The refinement maps the ring to the characters in it that are not part of
an escape sequence. `torn` says that the ring may hold part of a sequence: bytes
were dropped at a full ring, or the Esc key, `Alt-[` or `Alt-O` was typed, which
send what a sequence begins with. The code then swallows characters it should not, and
`LineInput` is silent until the ring is empty.

### Sockets and Net

There is one thread, and it calls itself: a segment is acknowledged while the
descriptor it lies in is still the driver's; the acknowledgement may need the
address of the gateway; `arp_resolve` polls the card while it waits. `Net` therefore
keeps the calls that are under way as a stack of records, each with the
place where it goes on (`at`) and its locals; a step runs from one call to the next. `Irq` pushes
the interrupt handler, in user mode or in `sys_poll` after its `sti; hlt`: all other
calls that wait do so with interrupts off.

*Divided rounds.* Once `sys_poll` has waited, interrupts stay on, also in every later
`netdev_poll_all` and in all that it calls. There a step of `Net` is not atomic: the card's interrupt may come between any
two instructions of it and walks the same ring. A `Divides...` action is the part of the round before the
interrupt, with the interrupt; it leaves a call `..._cut` on the stack with what the code had read, and the `...Resumes`
action is the rest. The places are: the choice of the descriptor (`DividesRound`, `src/drivers/e1000.c:115-118`); its
return to the card (`DividesPolled`, lines 124 to 126); the queueing of a datagram or an echo (`DividesQueue`,
`DividesIcmp`, `src/socket.c:437-446` and `461-482`); the state of a TCP socket (`DividesTcp`, `DividesFin`), the
bytes of its ring (`DividesBytes`, lines 405 to 408); and the ARP table (`DividesArp`). None of the variables is
`volatile`, so whether a value that was read before the interrupt is still used after it, or is read again, is left to the
build: `RoundResumes`, `QueueResumes` and `BytesResume` take both. A round that goes on with a descriptor that the
interrupt has emptied handles what its buffer still holds, so `bufs` keeps the last packet of each buffer. Where a tail moves twice over
one slot that was written, a reader gets what an earlier owner left (`NoOwner`, `NoByte`).

Hosts may answer any SYN they got, at any time, more than once, with SYN|ACK or
RST, or never, and send ARP, UDP and ICMP packets as they like. They send the bytes of a
stream in order and once: TCP input looks at no sequence number. Packets that wait
for room in the ring are sent when they reach it, and one that comes while
nothing looks at the ring could as well have come just before the next poll or
interrupt, so `Arrive` happens only there. Connections and bytes are numbered
(`conn`, `born`), so that what belongs to whom can be said. Five history variables name
the cases in which the code gives up a promise: `reused` (a port had two
sockets, or a socket two connections), `overrun`, `reentered` (a round was handled or interrupted inside a round), `torn` (an
interrupt divided a change of a queue or of the ARP table) and `shut`. The properties say what holds
before each of them, and which ones survive it: slots stay owned, and the tables typed, through every divided
round; the limits of the queues and the owners of datagrams through every one that is not torn. `MaxDepth` bounds
packets handled inside one another, at which `StackFull` stays and nothing is said of what
follows. The model counts nesting and not bytes: in the code a single TCP packet
that is sent puts the buffers of `tcp_send_packet`, `ipv4_send` and `ethernet_send`, 4514 bytes,
on a kernel stack of 4096 (`src/sched.c:177`).

## 3. Runs

| Run | Question | Bounds |
|---|---|---|
| `process` | `ResumedIsRunning`, `ForkChain`, `ZombieHasReaper`, `Wait4NeverSpins`, `ExitCodeKept`, `BlockedParentResumes`, `ImplementsCalls`, `ImageIntact`, `SnapshotsOK` without `kill`, for nested programs | 4 pids, 3 pages, 2 statuses |
| `heap` | `TypeOK`, `HeapTiled`, `FreeListOK`, `HeapUsedExact`, `StrayFreeIgnored` | 120 byte heap, requests of 1, 12, 40 and 109 bytes |
| `files` | `TypeOK`, `TaskListOK`, `OnlyCurrentRuns`, `FilesTypeOK`, `RefCountExact`, `PipeEndsCounted`, `PipeWaitIsForever`, `kill` included | 3 pids, 2 fds, 2 files, 1 pipe of 2 bytes |
| `vfs_data` | `TypeOK`, `BlobsOwned`, `ImplementsVolume`: sharing of data | 3 nodes with 3 alike names, offsets 0 and 1, lengths 0 and 2 |
| `vfs_tree` | `TreeOK`, `ImplementsVolume`: paths | 3 nodes, 2 names on 2 levels, absolute and `..` links |
| `console` | `ModifiersFollowKeys`, `ImplementsLineInput`, `OverrunDropsNewest`, `EnterReturns` | ring of 4, reads of 1 and 3 bytes, keys d, Up and both Ctrls |
| `tty` | `ConsoleTypeOK`, `EchoMatchesLine` | screen of 2 by 2, reads of 4 bytes, keys w, l, Tab, Backspace, Enter, Ctrl, four outputs |
| `net` | `NetTypeOK`, `StreamIsPeers`, `DatagramsAreMine`, `SlotsOwned`, `RingInStep` | 2 slots, 1 fd, 1 gateway, 2 connections, ring of 3, 4 packets, 2 levels; 3 packets and one socket where `poll` waits twice |
| `process_kill_zombie` | violated: `ResumedIsRunning` with `kill` | 3 pids |
| `process_image_lost` | violated: `ImageIntact` without the nesting discipline | 3 pids, 2 pages |
| `files_stale_sock` | violated: `RegularFileReady` | 2 files, 1 socket |
| `tty_altscreen` | violated: `AltScreenEntered` | as `tty` |

Why the bounds are enough. Four pids give a chain of three naps with a zombie,
an orphan handed on twice, and a respawn with zombies left in the list; three
pages distinguish a smaller, an equal and a larger image. In these `next_pid` is the one
counter the models cap: no task is created beyond `MaxPid`, and a death that
would have to respawn a shell then is not taken. All properties of `process` are checked of nested programs (`FairSpec`),
because `ImageIntact` needs the discipline. The others lose nothing by it: a task may exec
before any fork, and an exec changes none of the fields that they and the scheduler read, so the lists,
states, parents and statuses that occur are those of `Spec`. They are theorems of `Spec` (section 4). In the heap, 120 bytes hold
up to seven smallest blocks, joined in every order. A request of 12 from a free block of 40 is
split exactly at the limit (a tail of a header and 16 bytes), from a smaller one it is not; 109 is
larger than the heap without one header and panics at once, the others run out at its last
bytes. In `files` the three console
descriptors are left out (`FirstFd = 0`), which leaves room for three tasks
that share two files; `files_stale_sock` keeps one console descriptor. Three nodes
are two links that share a blob and a third that links to one of them or takes the place of
one; `MIN_CAPACITY` is 1, so that a write at offset 1 moves a blob that holds data, and
writing, cutting and lengthening happen with one, two and three owners. The tree has
a directory with two entries, or one that is renamed over the place of another; `LINK_DEPTH` is 2, so
chains end, dangle and are too long. Inode numbers bound both: no node is created
beyond `MaxIno`.

In `console` a plain arrow key fills the ring of 4, which holds 3 bytes, and one with Ctrl does not
fit; Ctrl-d ends a line; a read of 1 has no room and one of 3 fills up. In `tty` a
line of 3 characters is longer than a row and wraps and scrolls a screen of two rows; `w` with Ctrl is
`^W` and `l` is `^L`; a tab is one character of the line and more than one cell of the screen; the outputs are
a prompt, half a sequence, a cursor that is moved to the right with a second parameter, and
the alternate screen. In `net` four packets are the
ARP reply, the SYN|ACK, and two of data, FIN, RST, a second SYN|ACK or an echo request; sockets of
each type are made twice, in the same slot or in two; the ring of 3 descriptors wraps, is full with 2 packets,
and a buffer of 2 bytes and a queue of 1 datagram overrun. `CONNECT_POLLS` of 2 has the second SYN in
it.

A `poll` of 2 rounds has one `sti; hlt` and one polling of the card after it, which interrupts may divide: there every `Divides...` and
`...Resumes` action happens, with sockets of each type. The constraint `Scope` of `MCNet` bounds this case, in
which most can happen, to the first socket and three packets: one that is
being handled, one that brings the interrupt, and one before them that filled the queue or opened the connection. After the first socket was
closed a second one, mostly in the same slot, makes a second connection to the same host, so that late answers
and segments of the first one meet it. `Scope` ends behaviours in which little is claimed any more: where a packet was handled twice, at the second
socket or connection, and where a change was divided, at the end of the call. With 1 fd two fds never share a slot in the run; this part of `SlotsOwned` rests on the theorem.

A `pipe` that fails for want of fds (`src/syscall.c:917`) needs two new files besides the one that an fd in use points at, and
`files` has 2; for this call `RefCountExact` and `PipeEndsCounted` rest on the theorems. Of the
modifiers `console` has only Ctrl; Shift and Alt rest on `ModifiersAlwaysFollow`. Paths are sequences of names, so that
`rename` (`src/vfs.c:1247`) tells `a/b` from `ab` is outside the abstraction; that it moves all of a subtree is not.

Views. `FdView`, `ConsoleView` and `NetView` are given to TLC to merge states that differ only in what no
later step and no property depends on: what the image holds (`files` asks nothing about it), bytes of the ring that were taken, the parameters of a
sequence that is over, the answer of the last read, and the fields of a slot that
nobody owns, all of which `sock_create` assigns, and the packets left in buffers where no round can be divided any more.

Fairness. `BlockedParentResumes` is checked under weak fairness of `Exit`: a
program that keeps the CPU exits in the end. This is an assumption about
programs, and the weakest that will do: a program that loops for ever keeps its
parent asleep for ever, by design. Nothing is assumed about the timer.
Since `Exit` of an init without a pid to respawn with is disabled, behaviours in
which pids run out simply stay there; a napping parent still resumes in them.
`EnterReturns` is checked under weak fairness of `ReadStep`: the kernel goes on
with a read it is in, which has the CPU and is never descheduled.
Nothing is assumed of the person or the interrupt.

### Disagreements between code and text

* `process_kill_zombie`: `src/sched.c:277` says "Never resume a zombie" and
  `src/syscall.c:1679` that a task killed by its own `kill` "must never be
  iret'd into". `sys_kill` does not respawn a shell; when init kills itself
  no task is runnable and `schedule` resumes a zombie.
* `process_image_lost`: `src/syscall.c:796` says that "dad stays blocked until
  kid exits and its image is restored". `execve` takes no snapshot when the
  parent's `img_size` is 0, which is what `fork` gives every child: the image
  of a shell is lost when a subshell's child execs.
* `files_stale_sock`: `src/syscall.c:1351` says "regular files are always
  ready", but `poll` looks first at `f->sock`, which `sys_open` leaves as the
  heap had it.
* `tty_altscreen`: `README.md:99` promises the alternate screen (`\033[?1049h`), as do `README.md:183` for `vi` and
  the comment at `src/tty.c:297`. Parameters are cut at 999 (`src/tty.c:333`), so 1049 is never read.

Met while modelling, and not runs of their own:

* `src/include/sched.h:10`, `src/sched.c:421` and `README.md:64` say the parent
  sleeps until the child execs or exits; the code wakes it on exit only
  (`task_unblock` has no caller). `ForkChain` and `ImplementsCalls` state what
  the code does.
* `README.md:60` says "syscalls run with IF clear (interrupt gate), user code runs with IF set". `sys_poll` executes `sti`
  (`src/syscall.c:1364`) and goes on to call the drivers; the card's interrupt then walks the ring inside the walk that the call has
  begun. `reentered` and `torn` record it, and the properties of `net` say what is left.
* `README.md:66` says that "like any fork+exec, a script faults the blocked parent afterwards". The code has come
  further: `execve` saves the parent's image and `task_exit` restores it, and for programs that keep to the
  nesting discipline the parent finds its program whole (`ImageIntact`). Outside it the text is right (`process_image_lost`).
* `README.md:99` promises `\0337`/`\0338`; `ESC 7` is dropped by the parser.
* `src/netstack.c:99` says that a resolution that failed heals when the reply comes. While the packet that
  needed the address is itself one that was received, the resolution finds that packet
  in the ring again and handles it inside itself. A data segment, or an echo request, from a host
  whose next hop is not in the table does this until the reply comes or the stack is used up;
  when it unwinds, `s_rx_cur` has moved back and the driver waits at an empty descriptor.
  `RingInStep` and `StreamIsPeers` hold up to the first such packet.
* `read` of a socket reads the keyboard: `is_console_fd` (`src/syscall.c:210`) looks at the node and
  the pipe of a file only. The branch for sockets in `sys_read` is unreachable.

## 4. Proofs

All proofs hold for every value of the constants that the `ASSUME` of their
module allows: every number of pids, pages, statuses and signals
(`ProcessAssumption`); every heap that begins and ends at a multiple of 4 and every set of requests
(`HeapAssumption`); every number of fds, files, pipes and sockets and every size
of a pipe (`FilesAssumption`); every set of paths, bytes, offsets, lengths and texts of links
and every number of inodes (`VfsAssumption`); every screen, ring, set of keys with the codes that
exist, and set of outputs of bytes (`TtyAssumption`, `KeyboardAssumption`,
`ConsoleAssumption`); every number of slots, descriptors, hosts,
packets and retries (`SocketsAssumption`, `NetAssumption`).

`ProcessProof`, programs that may kill. The inductive invariant is `KInv ==
TypeOK /\ TaskListOK /\ OnlyCurrentRuns`. It is the conjunction that is
inductive: that `wait4` frees a task other than the current one needs
`ppid[t] < t` from `TaskListOK`; that waking the parent leaves one runnable
task needs the caller to become a zombie in the same step and to have been the
only one. Lemmas on the list come first: what `add_task`, `remove_task` and
`schedule` (with its fallback when nobody is runnable) return. Then one lemma
per action. Theorems: `TypeCorrect`, `TaskListSound`, `OneTaskRuns`.

`ProcessProof`, programs that do not kill. `SInv` adds `ResumedIsRunning`,
`ForkChain`, `ZombieHasReaper` and the state at boot. `schedule` resumes a
runnable task only if one exists; that one always does follows from the chain
of naps (whoever exits has a blocked parent, or is init and is replaced), and
the chain survives the exit of a task with zombie children only because each of
them is handed to a parent that lives. Theorems: `NeverResumesAZombie`,
`ChainOfNaps`, `OrphansAreReapable`, `WaitNeverRewinds`, and the action property
`StatusIsKept`.

`ProcessImageProof`, nested programs. `IInv` adds `SnapshotsOK` and
`ImageIntact`: the image of the running task is intact when it exits only
because every sleeping ancestor's program is held, whole, by the child below
it. Theorems: `ImageSurvives`, `SnapshotsComplete`.

`ProcessProof`, the refinement: `ProcessIsCallStack`. Each step of `Process` is
mapped to a step of `CallStack` or a stutter under `SInv`. The one step that needs an
argument of its own is the restart: when init has the CPU no other task lives,
by taking the youngest live task and looking at its parent.

`HeapProof`. `HeapInv` is stated over values (`HeapOK`), so that the parts of a
call can be taken one by one: blocks tile the heap (`Tiled`), the free list
ascends and holds exactly the blocks nobody owns, no two of them are neighbours
(`Apart`), a header reads as allocated exactly at a block that is owned (`Marks`), and
`heap_used` is the number of bytes of the owned blocks. Marks are needed by
`StrayFreeIgnored`, and neighbours by coalescing, which joins at most one block on each side.
`HeapUsedExact` is stated as the cardinality of a set of addresses, since a sum
over a set is a recursion the prover cannot unfold. `kfree` is proved in
three steps: insertion in order, joining with the next block, joining with the one before.
Theorems: `HeapTypes`, `HeapStaysTiled`, `FreeListStaysOK`, `HeapUsedIsExact` and
the action property `StrayFreesIgnored`.

`FilesProof`, programs that may kill and use sockets (`SocketsSpec`, which `FilesSpec` implies:
`NoSockets`). `FilesInv` is `KInv`, `FilesTypeOK`, `RefCountExact` and `PipeEndsCounted`, with: a
free `task_t` holds no fd, a free block stands for no pipe, and a wait names a pipe.
References are counted row by row: what one table loses or gains moves the cardinality
of all references by as much (`Refs`, `Row`). `task_exit` runs `release_fd` over a whole table,
of which only the sum matters: a file goes when its last reference is in this table.
`PipeEndsCounted` follows because a file that goes takes its one end
with it, and two ends are never one file. Theorems: `FilesTypes`, `RefCountsStayExact`,
`PipeEndsStayCounted`. The action property `PipeWaitsAreForever` needs
`WaitInv` as well: until somebody kills, the chain of naps (`SInv`) holds, and only the current task
waits, at a pipe that is full, or empty with a writer (`StuckIn`). It composes the two modules: nobody
else can run because of `SInv`, and the pipe cannot move because nobody else runs.

`VfsProof`. `VfsInv` is `DataOK` and `NumbersOK`. `DataOK` is about a value of the
nodes, blobs and counts, because a call changes them in several steps
(`data_cow`, then the growth of the blob, then the bytes) and each step has to
keep it: a count is the cardinality of its holders, holders of one count hold one blob, two
nodes share a blob only with a count, and a blob is as long as its file's capacity. The
last needs what `BlobsOwned` does not say, that a blob in use is never empty and that
the units in it can be the text of a file. One lemma (`OneNode`) proves that a change of
one node with a blob and a count that fit it keeps `DataOK`; copying, growing,
truncating, writing, sharing and unlinking are instances. That `kmalloc` finds a
blob is the pigeonhole principle on `Blob`, which has one more than there are inodes
(`SpareBlob`). `grown`, the doubling loop of `vfs_write`, is a recursive function; that it ends
large enough is `GrownFact`. `NumbersOK` says that inode numbers are handed out
once. `VfsImplementsVolume` maps each call to a step of `Volume` on the view of the data (`View`): a change of
one node keeps the rows of the others (`RowsKept`), which is where the sharing must not show.
`VfsTreeOK` needs `TreeInv` (the tree as a statement about the list of nodes) and, for rename,
that in a tree nothing lies below a path that has no node (`NothingBelow`): otherwise
the moved nodes could meet others at their new paths. Theorems: `VfsTypeOK`,
`VfsBlobsOwned`, `VfsTreeOK`, `VfsImplementsVolume`.

`ConsoleProof`. `ConsoleInv` is the type of the terminal (cursor on the screen, at most as many parameters as
the array has), of the ring, of termios, that a read that is under way has room for
one more byte, and `KeysInv`. `ConsoleTypeOK` needs the strict room: `sys_read` stores first and looks
after. `KeysInv` says what is on the wire: nothing, or the codes of one press or release, or
the four codes of a faked shift, of which any part may have been handled; the flags are the keys
that were held when the handled ones were sent. Loops over screen cells, outputs and the bytes of a
sequence are recursive functions; `RunExists` and `RunKeeps` of `ListFacts` prove once that
such a function exists and that what every turn keeps holds at the end.

For `EchoMatchesLine` the screen is a row of cells: `At` is the cell under the cursor and `On` what a cell holds.
A character moves the cursor by one cell and, at the end of the screen, everything up by a row (`Shifted`, lemma
`PutCells`); backspace, blank and backspace take one cell away, across rows and also in the first cell (`Rubbed`, `RubOne`). How
often a loop went round matters here, so `RunKeeps` is applied to pairs of the turn and the
terminal: after turn *j* the screen has *j* characters less (`RubMany`), or shows the first *j* of
the line (`ShowsAnew`). `EchoInv` says that a plain line has only characters that take one cell
(`Shown`), that the cells before the cursor show it, and that every line, plain or not, has no other control characters of
the terminal in it than bell and tab (`Kept`), which is why `^L` can make it plain again. The first form of the property, which asked only that the
line have no tab in it, was false and had passed because the run had no Tab key: type `w`, Tab and
Backspace, and the screen has lost the `w` while the line still has it. What a line *is* no longer decides, but
what was echoed (`plain`, `StaysPlain`).

For the refinement of `LineInput` the mapping is itself a loop: `hears` runs over the bytes that wait and keeps the characters that
are not part of a sequence. Four facts about it do the work, each by `RunKeeps`: there is one way to read (`HearsOnce`),
strings are read one after the other (`HearsCat`), what was heard before makes no difference to what comes (`HearsAfter`), and
what a key sends leaves a reader between two keys, with at most one character more (`KeyHeard`). Rings are read as
sequences: taking a byte takes the first (`RingTakes`), a string that fits is appended whole (`QueueWaits`).
`LineInv` adds to `ConsoleInv` that whoever reads the ring to its end, from where `sys_read` is, is between two
keys unless the ring is torn (`Whole`), and that a line has room for a character. A byte that `sys_read`
takes is then the head of `typed` or changes nothing, and an interrupt appends at most one character; that a
sequence ends with the ring (`SwallowEnds`) can only happen when it was torn.

Theorems: `ConsoleTypes`, `ModifiersAlwaysFollow`, `EchoAlwaysMatches`, the refinement
`ConsoleImplementsLineInput` and the action property `OverrunsDropNewest`.

`NetProof`. The base is what holds whatever interrupts divide (`Base`): the types of the calls under way, of sockets and
tables (`NetTyped`), that the program's call is at the bottom of the stack (`BottomOK`), and that a divided
call is on it only if `reentered`, or `torn`, says so (`CutsOK`). What a divided round does is summed up once (`CutOK`): it
keeps who owns the sockets and replaces the top of the stack. On `Base` rest the limits, which hold until a change is torn
(`BoundsOK`), and the owners. The other invariants are claimed before `reentered`, and a divided step sets it
(`Undivided`), so they need only the steps that are whole (`Whole`). For those: what nesting guarantees (`StackOK`: what is left
of a packet's handling lies above the poll that found it, and a
socket is in `SYN_SENT` only under its own `connect`). The invariants are `OwnersOK` (an fd
or a close owns each slot in use), `RingOK` (the filled descriptors are the ones from `s_rx_cur`
to the card's head, and whoever handles a packet handles the one at `s_rx_cur`), and `PortsOK` with `NamesOK`
(until a port is reused, a port names one connection in the sockets, the SYNs that were sent and those about to be).
`StreamsOK` is the part that took most: the data packets of a connection in the ring form a
chain, each beginning where the one before it ended and the first where the socket's stream
ends (`ChainOK`, `Due`), and this is what an established socket relies on (`SlotsOK`); a socket that still waits for
its SYN|ACK has it ahead of all data in the ring (`Waits`); at most one FIN is being dealt with (`FinsOK`).
Every step of `Net` replaces the top of the stack (`Moves`), and a step that leaves the sockets as they are
but for fields no conjunct reads is dealt with once (`Keeps`, `Steady`, `Quiet`). Theorems: `NetTypes`,
`DatagramsStayMine`, `SlotsStayOwned`, `RingStaysInStep`, `StreamsStayPeers`.

Checked by TLC only: `BlockedParentResumes` and `EnterReturns`, liveness, outside what the prover does. Every other property of a
passing run is a theorem.

## 5. Not modelled

Pixel and text output (`fb.c`, `sysinfo.c`), device enumeration (`pci.c`), tables
written once at boot (`paging.c`, `gdt.c`), CPU accounting, register programming
of the PIC, the serial port and the NICs, and the example programs: they have no state whose
history matters. Kernel threads (`create_task`) have no caller. The stacks and the heap window of
a task are allocated and freed with it and are not in `Process`. Of the file system the device
files, the generated `/proc` and `/sys`, time stamps and the initrd format are left out; of the
terminal colours and the window size; of the network MAC addresses, headers, checksums,
the transmit ring, loopback, the interface ioctls, the two older cards (`ne2k.c`, `rtl8139.c`), loss and repetition of
TCP data (the code handles neither), and an infinite timeout of `poll`. File offsets, `lseek` and `O_APPEND` are
arithmetic on one number.

## 6. Plan

In order:

1. `Vfs` over the heap: unlink of an open file, whose node is reused; the 32-bit
   capacity loop; the paths `rename` cuts at 255 characters; the initrd as the initial state.
2. `ExecStack`: the argument block of `execve` in bytes, its limits and the
   alignment of the initial stack; `brk` and `mmap` against the heap window.
3. The rings of `ne2k.c` and `rtl8139.c`, which are polled by the same calls.
