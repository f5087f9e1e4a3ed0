------------------------------- MODULE Files -------------------------------
(***************************************************************************)
(* File descriptors of LiteBSD: the fd table of every task, the shared     *)
(* struct file's behind it with their reference counts, pipes with their   *)
(* reader and writer counts and how full they are, and the socket a file   *)
(* may stand for (sched.c and the fd calls of syscall.c), composed with    *)
(* the process handlers of Process: fork copies a table, exit releases it, *)
(* wait4 throws away what is left of it.                                   *)
(*                                                                         *)
(* A file slot is the heap block kmalloc hands out for a struct file: the  *)
(* lowest free one, with what its last owner left in the fields that are   *)
(* not assigned.  Which bytes a pipe holds makes no difference here, only  *)
(* how many.                                                               *)
(***************************************************************************)
EXTENDS Process, FiniteSetsExt

CONSTANTS
  MAX_FDS,
  FirstFd,    \* 3 in the code: the console fds come first, alloc_fd starts here
  MaxFiles,   \* bound on struct file's allocated at a time
  MaxPipes,   \* bound on pipes allocated at a time
  PIPE_SIZE,  \* 4096 in the code
  MAX_SOCKETS

ASSUME FilesAssumption ==
  /\ MAX_FDS \in Nat /\ FirstFd \in 0 .. MAX_FDS
  /\ MaxFiles \in Nat /\ MaxFiles >= FirstFd
  /\ MaxPipes \in Nat
  /\ PIPE_SIZE \in Nat \ {0}
  /\ MAX_SOCKETS \in Nat

VARIABLES
  fds,        \* pid -> fd -> file
  ref_count,  \* file -> count; 0 when the block is free
  object,     \* file -> its node, pipe and pipe_end; Console when the block is free
  sock,       \* file -> socket; not assigned by open, pipe and create_user_task
  read_ref, write_ref,  \* pipe -> count; no pipe when both are 0
  filled,     \* pipe -> how many bytes are in it (p->count)
  nonblocking,  \* pipe -> BOOLEAN
  spins,      \* pid -> the pipe read or write it waits in, at sti; hlt
  open_socks, \* sockets in use
  lost,       \* history: files some path forgets to release
  killed      \* history: some program has called kill

pipeVars == <<filled, nonblocking, spins>>

fileVars == <<fds, ref_count, object, sock, read_ref, write_ref, open_socks,
              lost, filled, nonblocking, spins, killed>>

Fd == 0 .. MAX_FDS - 1
File == 1 .. MaxFiles
Pipe == 1 .. MaxPipes
Socket == 1 .. MAX_SOCKETS

\* What a struct file is open on: nothing (the console), a vfs node, or the
\* reading (0) or writing (1) end of a pipe.
Console == [node |-> FALSE, pipe |-> NULL, pipe_end |-> 0]
Vnode == [node |-> TRUE, pipe |-> NULL, pipe_end |-> 0]
PipeEnd(p, end) == [node |-> FALSE, pipe |-> p, pipe_end |-> end]

\* A task that waits in no pipe.
NoWait == [pipe |-> NULL, pipe_end |-> 0, left |-> 0]

NoFds == [fd \in Fd |-> NULL]

Files(t) == {fds[t][fd] : fd \in Fd} \ {NULL}

---------------------------------------------------------------------------
(* alloc_fd, release_fd and the blocks of struct file *)

FreeFds == {fd \in Fd : fd >= FirstFd /\ fds[current_task][fd] = NULL}

\* The k-th of a set of numbers, in ascending order.
Nth(S, k) == CHOOSE x \in S : Cardinality({y \in S : y < x}) = k - 1

FreeFiles(ref) == {f \in File : ref[f] = 0}
FreePipes == {p \in Pipe : read_ref[p] = 0 /\ write_ref[p] = 0}

\* Reference counts once the current task has released the fds of S.
Released(S) ==
  [f \in File |-> ref_count[f] -
     Cardinality({fd \in S : fds[current_task][fd] = f})]

\* Mutant: the count is dropped and the file never freed.
Closed_never(S) == {}

\* Files that go away when the current task releases the fds of S.
Closed(S) == {f \in File : ref_count[f] > 0 /\ Released(S)[f] = 0}

\* How many of the files of C are that end of that pipe.
Ends(C, p, end) == Cardinality({f \in C : object[f] = PipeEnd(p, end)})

\* What closing files does to pipes and sockets.  The pipe is looked at first,
\* so a file that stands for a pipe never closes a socket.
close_files(C) ==
  /\ read_ref' = [p \in Pipe |-> read_ref[p] - Ends(C, p, 0)]
  /\ write_ref' = [p \in Pipe |-> write_ref[p] - Ends(C, p, 1)]
  /\ open_socks' = open_socks \ {sock[f] : f \in {g \in C : object[g].pipe = NULL}}
  /\ object' = [f \in File |-> IF f \in C THEN Console ELSE object[f]]
  /\ filled' = [p \in Pipe |->
                  IF read_ref'[p] + write_ref'[p] = 0 THEN 0 ELSE filled[p]]
  /\ nonblocking' = [p \in Pipe |->
                       read_ref'[p] + write_ref'[p] # 0 /\ nonblocking[p]]
  /\ UNCHANGED spins

\* The current task is in its program and not in a pipe.
InProgram == current_task # NULL /\ spins[current_task] = NoWait

\* An fd call of the current program; the process state is left alone.
FdCall ==
  /\ InProgram
  /\ prog[current_task] # NULL
  /\ current_task' = SyscallReturn(ring, state)
  /\ UNCHANGED <<ring, next_pid, state, ppid, exit_code, img_size,
                 img_snapshot, image, prog, killed>>

---------------------------------------------------------------------------
(* The fd calls.  A call that fails leaves no trace, except pipe. *)

Open ==
  LET f  == Nth(FreeFiles(ref_count), 1)
      fd == Nth(FreeFds, 1)
  IN  /\ FdCall
      /\ FreeFiles(ref_count) # {} /\ FreeFds # {}
      /\ fds' = [fds EXCEPT ![current_task][fd] = f]
      /\ ref_count' = [ref_count EXCEPT ![f] = 1]
      /\ object' = [object EXCEPT ![f] = Vnode]
      /\ UNCHANGED <<sock, read_ref, write_ref, open_socks, lost, pipeVars>>

SocketCall ==
  LET f  == Nth(FreeFiles(ref_count), 1)
      fd == Nth(FreeFds, 1)
      s  == Nth(Socket \ open_socks, 1)
  IN  /\ FdCall
      /\ FreeFiles(ref_count) # {} /\ FreeFds # {}
      /\ Socket \ open_socks # {}
      /\ fds' = [fds EXCEPT ![current_task][fd] = f]
      /\ ref_count' = [ref_count EXCEPT ![f] = 1]
      /\ object' = [object EXCEPT ![f] = Console]
      /\ sock' = [sock EXCEPT ![f] = s]
      /\ open_socks' = open_socks \cup {s}
      /\ UNCHANGED <<read_ref, write_ref, lost, pipeVars>>

\* With one free fd the read end gets it and is released again; an end that
\* got no fd is never freed.
PipeCall ==
  LET r == Nth(FreeFiles(ref_count), 1)
      w == Nth(FreeFiles(ref_count), 2)
      p == Nth(FreePipes, 1)
      n == Cardinality(FreeFds)
  IN  /\ FdCall
      /\ Cardinality(FreeFiles(ref_count)) >= 2 /\ FreePipes # {}
      /\ object' = [object EXCEPT ![r] = IF n = 1 THEN Console ELSE PipeEnd(p, 0),
                                  ![w] = PipeEnd(p, 1)]
      /\ IF n >= 2
         THEN fds' = [fds EXCEPT ![current_task][Nth(FreeFds, 1)] = r,
                                 ![current_task][Nth(FreeFds, 2)] = w]
         ELSE UNCHANGED fds
      /\ ref_count' = [ref_count EXCEPT ![r] = IF n = 1 THEN 0 ELSE 1, ![w] = 1]
      /\ read_ref' = [read_ref EXCEPT ![p] = IF n = 1 THEN 0 ELSE 1]
      /\ write_ref' = [write_ref EXCEPT ![p] = 1]
      /\ lost' = lost \cup (IF n = 0 THEN {r, w} ELSE IF n = 1 THEN {w} ELSE {})
      /\ UNCHANGED <<sock, open_socks, pipeVars>>

Dup(fd) ==
  LET f == fds[current_task][fd]
  IN  /\ FdCall
      /\ f # NULL /\ FreeFds # {}
      /\ fds' = [fds EXCEPT ![current_task][Nth(FreeFds, 1)] = f]
      /\ ref_count' = [ref_count EXCEPT ![f] = @ + 1]
      /\ UNCHANGED <<object, sock, read_ref, write_ref, open_socks, lost, pipeVars>>

\* Mutant: the old file of newfd is not released.
dup2_drops_none(newfd) == {}

\* What dup2 releases before it copies.
dup2_drops(newfd) == {newfd}

\* newfd is released before oldfd is read again: dup2 of an fd to itself
\* closes it, and the count it goes on to increment is at address 0.
Dup2(oldfd, newfd) ==
  LET f   == fds[current_task][oldfd]
      g   == IF oldfd = newfd THEN NULL ELSE f
      S   == dup2_drops(newfd)
  IN  /\ FdCall
      /\ f # NULL
      /\ close_files(Closed(S))
      /\ fds' = [fds EXCEPT ![current_task][newfd] = g]
      /\ ref_count' = [h \in File |-> Released(S)[h] + IF h = g THEN 1 ELSE 0]
      /\ UNCHANGED <<sock, lost>>

Close(fd) ==
  /\ FdCall
  /\ fds[current_task][fd] # NULL
  /\ close_files(Closed({fd}))
  /\ fds' = [fds EXCEPT ![current_task][fd] = NULL]
  /\ ref_count' = Released({fd})
  /\ UNCHANGED <<sock, lost>>

---------------------------------------------------------------------------
(* Reading and writing a pipe.  A call goes on until it has moved all its  *)
(* bytes: a full pipe, or an empty one that has a writer, keeps it in      *)
(* sti; hlt unless the pipe is nonblocking.  Neither call asks which end   *)
(* the fd is, and a writer does not ask for a reader.                      *)

\* fds 0 to 2 are the console to sys_read and sys_write whatever they hold.
IsStdin(fd) == fd = 0 /\ FirstFd > 0
IsStdout(fd) == fd > 0 /\ fd < FirstFd

pipe_write(p, left) ==
  LET n == Min({left, PIPE_SIZE - filled[p]})
  IN  /\ filled' = [filled EXCEPT ![p] = @ + n]
      /\ spins' = [spins EXCEPT ![current_task] =
                     IF n = left \/ nonblocking[p] THEN NoWait
                     ELSE [pipe |-> p, pipe_end |-> 1, left |-> left - n]]

\* Mutant: end of file is not looked for.
reader_waits_blind(p) == ~nonblocking[p]

\* What a reader that finds nothing does.
reader_waits(p) == write_ref[p] > 0 /\ ~nonblocking[p]

pipe_read(p, left) ==
  LET n == Min({left, filled[p]})
  IN  /\ filled' = [filled EXCEPT ![p] = @ - n]
      /\ spins' = [spins EXCEPT ![current_task] =
                     IF n = left \/ ~reader_waits(p) THEN NoWait
                     ELSE [pipe |-> p, pipe_end |-> 0, left |-> left - n]]

\* Only a call that is done goes through the end of syscall_handler.
PipeStep ==
  /\ current_task' = IF spins'[current_task] = NoWait
                     THEN SyscallReturn(ring, state) ELSE current_task
  /\ UNCHANGED <<ring, next_pid, state, ppid, exit_code, img_size,
                 img_snapshot, image, prog>>
  /\ UNCHANGED <<fds, ref_count, object, sock, read_ref, write_ref, open_socks,
                 lost, nonblocking, killed>>

\* The pipe that reading or writing fd leads to.
PipeOf(fd) ==
  IF fds[current_task][fd] = NULL \/ sock[fds[current_task][fd]] # NULL THEN NULL
  ELSE object[fds[current_task][fd]].pipe

PipeWrite(fd, n) ==
  /\ InProgram /\ prog[current_task] # NULL
  /\ ~IsStdout(fd) /\ PipeOf(fd) # NULL
  /\ pipe_write(PipeOf(fd), n)
  /\ PipeStep

PipeRead(fd, n) ==
  /\ InProgram /\ prog[current_task] # NULL
  /\ ~IsStdin(fd) /\ PipeOf(fd) # NULL
  /\ pipe_read(PipeOf(fd), n)
  /\ PipeStep

\* The task wakes from hlt and tries again.
PipeRetry ==
  /\ current_task # NULL /\ spins[current_task] # NoWait
  /\ LET w == spins[current_task]
     IN  IF w.pipe_end = 1 THEN pipe_write(w.pipe, w.left) ELSE pipe_read(w.pipe, w.left)
  /\ PipeStep

\* ioctl FIONBIO, which applies to both ends.
Fionbio(fd, nb) ==
  /\ FdCall
  /\ PipeOf(fd) # NULL
  /\ nonblocking' = [nonblocking EXCEPT ![PipeOf(fd)] = nb]
  /\ UNCHANGED <<fds, ref_count, object, sock, read_ref, write_ref, open_socks,
                 lost, filled, spins>>

---------------------------------------------------------------------------
(* The process handlers, with what they do to the fds *)

\* Mutant: the child's copies are not counted.
fork_counts_none == ref_count

\* Every fd of the child is one more reference.
fork_counts ==
  [f \in File |-> ref_count[f] +
     Cardinality({fd \in Fd : fds[current_task][fd] = f})]

ForkFds ==
  /\ InProgram /\ Fork /\ UNCHANGED killed
  /\ fds' = [fds EXCEPT ![next_pid] = fds[current_task]]
  /\ ref_count' = fork_counts
  /\ UNCHANGED <<object, sock, read_ref, write_ref, open_socks, lost, pipeVars>>

\* The timer, exec and its failures keep the fds.
KeepFds ==
  /\ \/ TimerTick
     \/ InProgram /\ (ExecveFails \/ \E n \in 1 .. Pages : Execve(n))
  /\ UNCHANGED fileVars

\* task_exit releases every fd.
ExitFds ==
  /\ close_files(Closed(Fd))
  /\ fds' = [fds EXCEPT ![current_task] = NoFds]
  /\ ref_count' = Released(Fd)
  /\ UNCHANGED <<sock, lost>>

\* A respawned init gets console files of its own after the release.
RespawnFds ==
  LET std == [fd \in 0 .. FirstFd - 1 |-> Nth(FreeFiles(Released(Fd)), fd + 1)]
      new == {std[fd] : fd \in DOMAIN std}
  IN  /\ Cardinality(FreeFiles(Released(Fd))) >= FirstFd
      /\ close_files(Closed(Fd))
      /\ fds' = [fds EXCEPT ![current_task] = NoFds,
                            ![next_pid] = [fd \in Fd |->
                               IF fd < FirstFd THEN std[fd] ELSE NULL]]
      /\ ref_count' = [f \in File |-> IF f \in new THEN 1 ELSE Released(Fd)[f]]
      /\ UNCHANGED <<sock, lost>>

DieFds ==
  /\ InProgram /\ (Fault \/ \E c \in ExitCodes : Exit(c))
  /\ IF Respawns THEN RespawnFds ELSE ExitFds
  /\ UNCHANGED killed

KillSelfFds ==
  /\ InProgram /\ \E sig \in Signals : KillSelf(sig)
  /\ ExitFds
  /\ killed' = TRUE

\* Nobody releases the fds of a task that another one kills.
KillOtherFds(t) ==
  /\ InProgram /\ \E sig \in Signals : KillOther(t, sig)
  /\ killed' = TRUE
  /\ UNCHANGED <<fds, ref_count, object, sock, read_ref, write_ref, open_socks,
                 lost, pipeVars>>

\* wait4 frees the task_t with the fds that are left in it.
Wait4Fds ==
  /\ InProgram
  /\ \E p \in Pid \cup {-1}, wnohang \in BOOLEAN : Wait4(p, wnohang)
  /\ fds' = [t \in Pid |-> IF state'[t] = FREE THEN NoFds ELSE fds[t]]
  /\ lost' = lost \cup UNION {Files(t) : t \in {u \in Pid : state'[u] = FREE}}
  /\ UNCHANGED <<killed, ref_count, object, sock, read_ref, write_ref, open_socks, pipeVars>>

---------------------------------------------------------------------------

InitFds ==
  /\ Init
  /\ fds = [t \in Pid |-> [fd \in Fd |->
              IF t = 1 /\ fd < FirstFd THEN fd + 1 ELSE NULL]]
  /\ ref_count = [f \in File |-> IF f <= FirstFd THEN 1 ELSE 0]
  /\ object = [f \in File |-> Console]
  /\ sock = [f \in File |-> NULL]
  /\ read_ref = [p \in Pipe |-> 0]
  /\ write_ref = [p \in Pipe |-> 0]
  /\ filled = [p \in Pipe |-> 0]
  /\ nonblocking = [p \in Pipe |-> FALSE]
  /\ spins = [t \in Pid |-> NoWait]
  /\ open_socks = {}
  /\ lost = {}
  /\ killed = FALSE

NextFds ==
  \/ Open
  \/ PipeCall
  \/ \E fd \in Fd : Dup(fd) \/ Close(fd) \/ \E newfd \in Fd : Dup2(fd, newfd)
  \/ \E fd \in Fd, n \in 1 .. PIPE_SIZE + 1 : PipeWrite(fd, n) \/ PipeRead(fd, n)
  \/ \E fd \in Fd, nb \in BOOLEAN : Fionbio(fd, nb)
  \/ PipeRetry
  \/ ForkFds
  \/ KeepFds
  \/ DieFds
  \/ Wait4Fds
  \/ KillSelfFds
  \/ \E t \in Pid : KillOtherFds(t)

\* Programs that use no sockets.
FilesSpec == InitFds /\ [][NextFds]_<<vars, fileVars>>

\* Programs that do.
SocketsSpec == InitFds /\ [][NextFds \/ SocketCall]_<<vars, fileVars>>

---------------------------------------------------------------------------
(* Properties *)

FilesTypeOK ==
  /\ fds \in [Pid -> [Fd -> File \cup {NULL}]]
  /\ ref_count \in [File -> Nat]
  /\ object \in [File -> [node : BOOLEAN, pipe : Pipe \cup {NULL}, pipe_end : {0, 1}]]
  /\ sock \in [File -> Socket \cup {NULL}]
  /\ read_ref \in [Pipe -> Nat]
  /\ write_ref \in [Pipe -> Nat]
  /\ filled \in [Pipe -> 0 .. PIPE_SIZE]
  /\ nonblocking \in [Pipe -> BOOLEAN]
  /\ spins \in [Pid -> [pipe : Pipe \cup {NULL}, pipe_end : {0, 1}, left : 0 .. PIPE_SIZE + 1]]
  /\ open_socks \subseteq Socket
  /\ lost \subseteq File
  /\ killed \in BOOLEAN

References(f) == {r \in Pid \X Fd : fds[r[1]][r[2]] = f}

\* The reference count of a struct file is the number of fds that point at it,
\* in all the tasks, whatever they dup, fork, close and die of: no fd is left
\* dangling, and nothing is kept that nobody can reach, but for the files
\* that a failed pipe(2), or the reaping of a task another one killed, forgets.
RefCountExact ==
  \A f \in File :
    IF f \in lost THEN ref_count[f] > Cardinality(References(f))
                  ELSE ref_count[f] = Cardinality(References(f))

\* A pipe counts its open ends: it is freed when both are gone and not
\* before, and a reader sees end of file exactly when no writer is left.
PipeEndsCounted ==
  \A p \in Pipe :
    LET open == {f \in File : ref_count[f] > 0}
    IN  read_ref[p] = Ends(open, p, 0) /\ write_ref[p] = Ends(open, p, 1)

\* A task that waits in a pipe does so for a reason, a full pipe or an empty one
\* that has a writer, and for ever: whoever could drain the pipe, fill it or
\* close an end of it is asleep until this task exits, so no retry ever moves
\* a byte.  A program that writes more than a pipe holds before its reader
\* runs, or reads while it holds a writing end itself, is never heard of again.
\* Programs that call kill are left out: they can wake a zombie.
PipeWaitIsForever ==
  [][\A t \in Pid : ~killed' /\ (spins[t] # NoWait \/ spins'[t] # NoWait) =>
       /\ spins[t] # NoWait => UNCHANGED <<spins, filled>>
       /\ current_task' = t
       /\ IF spins'[t].pipe_end = 1 THEN filled'[spins'[t].pipe] = PIPE_SIZE
          ELSE filled'[spins'[t].pipe] = 0 /\ write_ref'[spins'[t].pipe] > 0
    ]_<<vars, fileVars>>

\* "regular files are always ready": poll of a file that is open on a vfs node
\* never asks a socket.
RegularFileReady ==
  \A f \in File : ref_count[f] > 0 /\ object[f].node => sock[f] = NULL

============================================================================
