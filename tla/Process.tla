------------------------------ MODULE Process ------------------------------
(***************************************************************************)
(* Processes of LiteBSD: the task list and scheduler of sched.c, and the   *)
(* handlers that change them (fork, execve, exit, wait4, kill in           *)
(* syscall.c, the timer interrupt and the fault handler in idt.c, the      *)
(* shell respawn in kernel.c).                                             *)
(*                                                                         *)
(* There is no MMU: every program is loaded at USER_LOAD_ADDR, so all the  *)
(* tasks share one user image.  fork puts the parent to sleep; a child     *)
(* that calls execve saves the parent's image first and exit copies it     *)
(* back.                                                                   *)
(*                                                                         *)
(* Handlers run behind interrupt gates, with interrupts off, so each is    *)
(* one atomic step, from the trap to the frame that is finally resumed.    *)
(* File descriptors and CPU accounting are not part of this module.        *)
(***************************************************************************)
EXTENDS Integers, Sequences

CONSTANTS
  MaxPid,     \* bound on next_pid: no task is created beyond it
  Pages,      \* size of the user image window, in units an exec can load
  ExitCodes,  \* statuses a program passes to exit(2)
  Signals     \* signal numbers a program passes to kill(2)

ASSUME ProcessAssumption ==
  /\ MaxPid \in Nat \ {0}
  /\ Pages \in Nat \ {0}
  /\ ExitCodes \subseteq Nat
  /\ Signals \subseteq Nat \ {0}

VARIABLES
  ring,          \* the circular task list, from ready_queue->next to ready_queue
  current_task,  \* pid of the task whose frame is live; NULL before the first tick
  next_pid,
  state,         \* pid -> task state; FREE when there is no such task_t
  ppid,
  exit_code,
  img_size,      \* pid -> size of the image its last exec loaded
  img_snapshot,  \* pid -> copy of the parent's image; << >> is the NULL pointer
  image,         \* shared user image: page -> pid whose exec put it there
  prog           \* history: pid -> pid whose exec loaded the code it runs

vars == <<ring, current_task, next_pid, state, ppid, exit_code, img_size,
          img_snapshot, image, prog>>

NULL == 0
RUNNING == "RUNNING"
ZOMBIE == "ZOMBIE"
BLOCKED == "BLOCKED"
FREE == "FREE"

Pid == 1 .. MaxPid
Page == 0 .. Pages - 1
\* What a page holds when it was filled from beyond the end of a snapshot.
Junk == MaxPid + 1

Queued == {ring[i] : i \in DOMAIN ring}
Live == {t \in Queued : state[t] # ZOMBIE}

---------------------------------------------------------------------------
(* The task list. *)

add_task(q, t) == Append(q, t)

\* Position of a queued task, counted from the head.
Position(q, t) == CHOOSE i \in DOMAIN q : q[i] = t

\* Mutant: the freed node stays linked, with nothing in it.
remove_task_dangling(q, t) == [q EXCEPT ![Position(q, t)] = NULL]

remove_task(q, t) ==
  LET k == Position(q, t)
  IN  [i \in 1 .. Len(q) - 1 |-> IF i < k THEN q[i] ELSE q[i + 1]]

\* ->next hops from position i round to position j; a full turn for i itself.
Hops(q, i, j) == IF j > i THEN j - i ELSE Len(q) + j - i

\* Mutant: the search for a runnable task is skipped.
schedule_next(q, cur, st) ==
  IF cur = NULL THEN q[1]
  ELSE LET here == Position(q, cur)
       IN  q[CHOOSE j \in DOMAIN q :
               \A k \in DOMAIN q : Hops(q, here, j) <= Hops(q, here, k)]

\* The nearest RUNNING task after the current one, itself included.  When no
\* task is RUNNING the walk ends where it began and current_task->next is
\* resumed, whatever its state.
schedule(q, cur, st) ==
  IF cur = NULL THEN q[1]
  ELSE LET here     == Position(q, cur)
           runnable == {j \in DOMAIN q : st[q[j]] = RUNNING}
           stops    == IF runnable = {} THEN DOMAIN q ELSE runnable
       IN  q[CHOOSE j \in stops :
               \A k \in stops : Hops(q, here, j) <= Hops(q, here, k)]

\* syscall_handler leaves a zombie, and returns to anybody else.
SyscallReturn(q, st) ==
  IF st[current_task] = ZOMBIE THEN schedule(q, current_task, st)
                               ELSE current_task

---------------------------------------------------------------------------
(* The timer interrupt.  The first one starts the first task. *)

TimerTick ==
  /\ current_task' = schedule(ring, current_task, state)
  /\ UNCHANGED <<ring, next_pid, state, ppid, exit_code, img_size,
                 img_snapshot, image, prog>>

---------------------------------------------------------------------------
(* fork *)

\* Mutant: dad is not put to sleep.
fork_state_awake == [state EXCEPT ![next_pid] = RUNNING]

\* The child is runnable and dad naps.
fork_state ==
  [state EXCEPT ![next_pid] = RUNNING, ![current_task] = BLOCKED]

Fork ==
  /\ current_task # NULL
  /\ prog[current_task] # NULL     \* user_init itself never forks
  /\ next_pid <= MaxPid
  /\ ring' = add_task(ring, next_pid)
  /\ state' = fork_state
  /\ ppid' = [ppid EXCEPT ![next_pid] = current_task]
  /\ exit_code' = [exit_code EXCEPT ![next_pid] = 0]
  /\ img_size' = [img_size EXCEPT ![next_pid] = 0]
  /\ img_snapshot' = [img_snapshot EXCEPT ![next_pid] = << >>]
  /\ prog' = [prog EXCEPT ![next_pid] = prog[current_task]]
  /\ next_pid' = next_pid + 1
  /\ current_task' = schedule(ring', current_task, state')
  /\ UNCHANGED image

---------------------------------------------------------------------------
(* execve *)

\* A child without a snapshot saves as much of the image as its parent uses.
TakesSnapshot ==
  /\ ppid[current_task] # NULL
  /\ img_snapshot[current_task] = << >>
  /\ ppid[current_task] \in Queued
  /\ img_size[ppid[current_task]] > 0

ParentImage ==
  [i \in 1 .. img_size[ppid[current_task]] |-> image[i - 1]]

\* Mutant: an exec takes its snapshot after it has loaded the new image.
exec_snapshot_late ==
  IF TakesSnapshot
  THEN [img_snapshot EXCEPT ![current_task] =
          [i \in 1 .. img_size[ppid[current_task]] |-> current_task]]
  ELSE img_snapshot

exec_snapshot ==
  IF TakesSnapshot
  THEN [img_snapshot EXCEPT ![current_task] = ParentImage]
  ELSE img_snapshot

\* A successful exec of an image of n pages.  The size stored when the
\* snapshot is taken is overwritten by the size of the new image, and the
\* parent stays blocked.
Execve(n) ==
  /\ current_task # NULL
  /\ img_snapshot' = exec_snapshot
  /\ image' = [p \in Page |-> IF p < n THEN current_task ELSE image[p]]
  /\ img_size' = [img_size EXCEPT ![current_task] = n]
  /\ prog' = [prog EXCEPT ![current_task] = current_task]
  /\ current_task' = SyscallReturn(ring, state)
  /\ UNCHANGED <<ring, next_pid, state, ppid, exit_code>>

\* Every failing exec returns before it touches the image or the task.
ExecveFails ==
  /\ current_task # NULL
  /\ current_task' = SyscallReturn(ring, state)
  /\ UNCHANGED <<ring, next_pid, state, ppid, exit_code, img_size,
                 img_snapshot, image, prog>>

---------------------------------------------------------------------------
(* exit, a fault in user mode, and a task that kills itself *)

\* Mutant: nobody wakes dad.
unblock_parent_never(st) == st

unblock_parent_of(st) ==
  LET p == ppid[current_task]
  IN  IF p # NULL /\ p \in Queued /\ st[p] = BLOCKED
      THEN [st EXCEPT ![p] = RUNNING]
      ELSE st

\* Mutant: the copy loop is left out.
restored_not == image

\* img_size bytes are copied back, however long the snapshot is.
restored ==
  LET snap == img_snapshot[current_task]
  IN  IF snap = << >> THEN image
      ELSE [p \in Page |->
              IF p >= img_size[current_task] THEN image[p]
              ELSE IF p < Len(snap) THEN snap[p + 1] ELSE Junk]

\* Mutant: orphans keep a parent that is gone.
reparented_not == ppid

reparented ==
  [t \in Pid |-> IF t \in Queued /\ ppid[t] = current_task
                 THEN ppid[current_task] ELSE ppid[t]]

\* task_exit; its change of state is ExitState.
task_exit(status) ==
  /\ exit_code' = [exit_code EXCEPT ![current_task] = status]
  /\ image' = restored
  /\ img_snapshot' = [img_snapshot EXCEPT ![current_task] = << >>]
  /\ ppid' = reparented

ExitState == unblock_parent_of([state EXCEPT ![current_task] = ZOMBIE])

\* Mutant: a dead init is not replaced.
Respawns_never == FALSE

\* exit and the fault handler look at ppid before task_exit.
Respawns == ppid[current_task] = NULL

\* A fresh init, as respawn_user_shell makes it: its other fields are those
\* a pid that has no task already holds (FreeSlotsClear).
create_user_task(st) ==
  /\ next_pid <= MaxPid
  /\ ring' = add_task(ring, next_pid)
  /\ state' = [st EXCEPT ![next_pid] = RUNNING]
  /\ next_pid' = next_pid + 1

respawn_user_shell == create_user_task(ExitState)

Die(status) ==
  /\ current_task # NULL
  /\ task_exit(status)
  /\ IF Respawns THEN respawn_user_shell
                 ELSE state' = ExitState /\ UNCHANGED <<ring, next_pid>>
  /\ current_task' = schedule(ring', current_task, state')
  /\ UNCHANGED <<img_size, prog>>

Exit(status) == Die(status)

\* isr_handler: a fault in ring 3 is SIGSEGV, and nobody can catch it.
Fault == Die(128 + 11)

---------------------------------------------------------------------------
(* wait4 *)

Children(pid) ==
  {i \in DOMAIN ring : /\ ppid[ring[i]] = current_task
                       /\ pid = -1 \/ pid = ring[i]}

\* The first zombie child in list order is reaped; with children but no
\* zombie the call is rewound (eip -= 2) and another task scheduled.
Wait4(pid, wnohang) ==
  LET zombies == {i \in Children(pid) : state[ring[i]] = ZOMBIE}
      found   == ring[CHOOSE i \in zombies : \A j \in zombies : i <= j]
  IN  /\ current_task # NULL
      /\ IF zombies # {}
         THEN /\ ring' = remove_task(ring, found)
              /\ state' = [state EXCEPT ![found] = FREE]
              /\ ppid' = [ppid EXCEPT ![found] = NULL]
              /\ exit_code' = [exit_code EXCEPT ![found] = 0]
              /\ img_size' = [img_size EXCEPT ![found] = 0]
              /\ img_snapshot' = [img_snapshot EXCEPT ![found] = << >>]
              /\ prog' = [prog EXCEPT ![found] = NULL]
         ELSE UNCHANGED <<ring, state, ppid, exit_code, img_size,
                          img_snapshot, prog>>
      /\ current_task' =
           IF zombies = {} /\ Children(pid) # {} /\ ~wnohang
           THEN schedule(ring, current_task, state)
           ELSE SyscallReturn(ring', state')
      /\ UNCHANGED <<next_pid, image>>

---------------------------------------------------------------------------
(* kill *)

\* A task that kills itself takes the exit path, but nothing replaces init.
KillSelf(sig) ==
  /\ current_task # NULL
  /\ task_exit(128 + sig)
  /\ state' = ExitState
  /\ current_task' = schedule(ring, current_task, state')
  /\ UNCHANGED <<ring, next_pid, img_size, prog>>

\* Anybody else is only marked dead.
KillOther(t, sig) ==
  /\ current_task # NULL
  /\ t # current_task
  /\ t \in Queued
  /\ state' = [state EXCEPT ![t] = ZOMBIE]
  /\ exit_code' = [exit_code EXCEPT ![t] = 128 + sig]
  /\ current_task' = SyscallReturn(ring, state')
  /\ UNCHANGED <<ring, next_pid, ppid, img_size, img_snapshot, image, prog>>

---------------------------------------------------------------------------
(* Specifications *)

\* kernel_main has created init and enabled interrupts.
Init ==
  /\ ring = <<1>>
  /\ current_task = NULL
  /\ next_pid = 2
  /\ state = [t \in Pid |-> IF t = 1 THEN RUNNING ELSE FREE]
  /\ ppid = [t \in Pid |-> NULL]
  /\ exit_code = [t \in Pid |-> 0]
  /\ img_size = [t \in Pid |-> 0]
  /\ img_snapshot = [t \in Pid |-> << >>]
  /\ image = [p \in Page |-> NULL]
  /\ prog = [t \in Pid |-> NULL]

Next ==
  \/ TimerTick
  \/ Fork
  \/ \E n \in 1 .. Pages : Execve(n)
  \/ ExecveFails
  \/ \E c \in ExitCodes : Exit(c)
  \/ Fault
  \/ \E p \in Pid \cup {-1}, wnohang \in BOOLEAN : Wait4(p, wnohang)

\* Programs that never call kill(2).
Spec == Init /\ [][Next]_vars

\* Programs that do.
Kill ==
  \E sig \in Signals :
    KillSelf(sig) \/ \E t \in Pid : KillOther(t, sig)

KillNext == Next \/ Kill

KillSpec == Init /\ [][KillNext]_vars

\* Programs on which the snapshot scheme relies: a task forks only after it
\* has loaded a program of its own, and never loads an image smaller than
\* its parent's.
NestedNext ==
  \/ TimerTick
  \/ Fork /\ img_size[current_task] > 0
  \/ \E n \in 1 .. Pages :
       /\ Execve(n)
       /\ ppid[current_task] # NULL => n >= img_size[ppid[current_task]]
  \/ ExecveFails
  \/ \E c \in ExitCodes : Exit(c)
  \/ Fault
  \/ \E p \in Pid \cup {-1}, wnohang \in BOOLEAN : Wait4(p, wnohang)

NestedSpec == Init /\ [][NestedNext]_vars

\* The program that has the CPU sooner or later exits.
ProgramsExit == WF_vars(\E c \in ExitCodes : Exit(c))

FairSpec == NestedSpec /\ ProgramsExit

---------------------------------------------------------------------------
(* Properties *)

\* The fields of every task, and of a pid that has no task, have their types.
TypeOK ==
  /\ ring \in Seq(Pid)
  /\ current_task \in Pid \cup {NULL}
  /\ next_pid \in 2 .. MaxPid + 1
  /\ state \in [Pid -> {RUNNING, ZOMBIE, BLOCKED, FREE}]
  /\ ppid \in [Pid -> Pid \cup {NULL}]
  /\ exit_code \in [Pid -> Nat]
  /\ img_size \in [Pid -> 0 .. Pages]
  /\ img_snapshot \in [Pid -> Seq(0 .. Junk)]
  /\ image \in [Page -> 0 .. Junk]
  /\ prog \in [Pid -> Pid \cup {NULL}]

\* A pid that has no task holds the values of a fresh one.
FreeSlotsClear ==
  \A t \in Pid : state[t] = FREE =>
    /\ ppid[t] = NULL
    /\ exit_code[t] = 0
    /\ img_size[t] = 0
    /\ img_snapshot[t] = << >>
    /\ prog[t] = NULL

\* The list add_task and remove_task maintain holds each task once, oldest
\* first, and exactly the allocated ones; the current task is never freed
\* under the scheduler's feet; a parent is older than its children, so no
\* chain of reparenting can close into a cycle.
TaskListOK ==
  /\ \A i, j \in DOMAIN ring : i < j => ring[i] < ring[j]
  /\ \A t \in Pid : t \in Queued <=> state[t] # FREE
  /\ \A t \in Queued : t < next_pid /\ ppid[t] < t
  /\ IF current_task = NULL THEN ring = <<1>> ELSE current_task \in Queued
  /\ FreeSlotsClear

\* Only one task is ever RUNNING, the one that has the CPU: with one shared
\* image and one shared heap two runnable tasks would overwrite each other.
OnlyCurrentRuns ==
  current_task # NULL =>
    \A t \in Queued : state[t] = RUNNING => t = current_task

\* schedule "never resumes a zombie", nor a napping dad: whoever has the CPU
\* is RUNNING.
ResumedIsRunning ==
  current_task # NULL => state[current_task] = RUNNING

\* The live tasks form one chain of naps: dad sleeps as long as his child
\* lives, he has one live child at most, and nobody sleeps without a live
\* child that will wake him when it exits.
ForkChain ==
  /\ \A t \in Live : ppid[t] # NULL =>
       ppid[t] \in Queued /\ state[ppid[t]] = BLOCKED
  /\ \A t, u \in Live : ppid[t] = ppid[u] /\ ppid[t] # NULL => t = u
  /\ \A t \in Queued : state[t] = BLOCKED => \E u \in Live : ppid[u] = t

\* A zombie that is not an old init always has a live parent that can reap
\* it, however many of its ancestors have died: task_exit hands orphans on.
ZombieHasReaper ==
  \A t \in Queued : state[t] = ZOMBIE /\ ppid[t] # NULL => ppid[t] \in Live

\* wait4 never has to be rewound: by the time dad can call it, each of his
\* children is a zombie.
Wait4NeverSpins ==
  current_task # NULL =>
    \A t \in Queued : ppid[t] = current_task => state[t] = ZOMBIE

\* The status wait4 hands to dad is the one the child died with: nothing
\* rewrites it between exit and reaping.
ExitCodeKept ==
  [][\A t \in Pid : state[t] = ZOMBIE /\ state'[t] = ZOMBIE
       => exit_code'[t] = exit_code[t]]_vars

\* task_exit "restores the parent snapshot over the shared user image": a task
\* that has the CPU finds in memory, page for page, the program it runs.
ImageIntact ==
  current_task # NULL /\ prog[current_task] # NULL =>
    LET p == prog[current_task]
    IN  \A i \in Page : i < img_size[p] => image[i] = p

\* All along the chain of naps dad's program is safe: a live child runs dad's
\* program or its own, a napping dad runs his own, and a child that has left
\* dad's program holds a full copy of it and will write all of it back.
SnapshotsOK ==
  \A t \in Live :
    /\ prog[t] \in {t, ppid[t]}
    /\ prog[t] = t <=> img_size[t] > 0
    /\ state[t] = BLOCKED => prog[t] = t
    /\ IF ppid[t] # NULL /\ prog[t] = t
       THEN /\ Len(img_snapshot[t]) = img_size[ppid[t]]
            /\ \A i \in 1 .. img_size[ppid[t]] : img_snapshot[t][i] = ppid[t]
            /\ img_size[t] >= img_size[ppid[t]]
       ELSE img_snapshot[t] = << >>

\* A napping dad gets the CPU back, if the programs below him exit.
BlockedParentResumes ==
  \A t \in Pid :
    state[t] = BLOCKED ~> (state[t] = RUNNING /\ current_task = t)

\* Frames and top of the call stack the tasks implement.
Calls == INSTANCE CallStack WITH
  Task <- Pid, First <- 1, None <- NULL,
  caller <- [t \in Live |-> ppid[t]],
  top <- IF current_task = NULL THEN 1 ELSE current_task

\* fork is a call and exit a return: whatever the timer, wait4, failing execs
\* and faults do, the tasks that live are the frames of one stack, the CPU is
\* at its top, and a shell is respawned only when no other task lives.
ImplementsCalls == Calls!Spec

============================================================================
