------------------------- MODULE ProcessImageProof -------------------------
(* The shared user image survives fork and exec, for programs of NestedSpec. *)
EXTENDS ProcessProof

\* Init has not loaded a program when the first tick comes.
BootImage == current_task = NULL => prog[1] = NULL

\* The inductive invariant of NestedSpec.
IInv == SInv /\ BootImage /\ SnapshotsOK /\ ImageIntact

\* What SnapshotsOK says of one task.
Safe(t) ==
  /\ prog[t] \in {t, ppid[t]}
  /\ prog[t] = t <=> img_size[t] > 0
  /\ state[t] = BLOCKED => prog[t] = t
  /\ IF ppid[t] # NULL /\ prog[t] = t
     THEN /\ Len(img_snapshot[t]) = img_size[ppid[t]]
          /\ \A i \in 1 .. img_size[ppid[t]] : img_snapshot[t][i] = ppid[t]
          /\ img_size[t] >= img_size[ppid[t]]
     ELSE img_snapshot[t] = << >>

\* SnapshotsOK, task by task.
LEMMA SafeLive == SnapshotsOK <=> \A t \in Live : Safe(t)
BY DEF SnapshotsOK, Safe

\* The steps of NestedSpec are steps of Spec.
LEMMA NestedIsNext == NestedNext => Next
BY DEF NestedNext, Next

\* A step that touches no field of a task and of its parent keeps it safe.
LEMMA SafeKept ==
  ASSUME NEW t, Safe(t), prog'[t] = prog[t], ppid'[t] = ppid[t],
         img_size'[t] = img_size[t], img_snapshot'[t] = img_snapshot[t],
         state'[t] = state[t] \/ prog[t] = t \/ state'[t] # BLOCKED,
         ppid[t] # NULL => img_size'[ppid[t]] = img_size[ppid[t]]
  PROVE  Safe(t)'
BY DEF Safe

\* The types and the chain, as the steps below use them.
LEMMA ImageFacts ==
  ASSUME IInv, current_task # NULL
  PROVE  /\ SInv /\ KInv
         /\ current_task \in Pid
         /\ current_task \in Queued
         /\ current_task \in Live
         /\ state[current_task] = RUNNING
         /\ Queued \subseteq Pid
         /\ Live \subseteq Queued
         /\ NULL \notin Pid
         /\ \A t \in Live : Safe(t)
         /\ \A t \in Live : ppid[t] # current_task
         /\ \A t \in Live : ppid[t] # NULL =>
              ppid[t] \in Live /\ state[ppid[t]] = BLOCKED
         /\ state \in [Pid -> {RUNNING, ZOMBIE, BLOCKED, FREE}]
         /\ ppid \in [Pid -> Pid \cup {NULL}]
         /\ prog \in [Pid -> Pid \cup {NULL}]
         /\ img_size \in [Pid -> 0 .. Pages]
         /\ img_snapshot \in [Pid -> Seq(0 .. Junk)]
         /\ image \in [Page -> 0 .. Junk]
<1>1. /\ SInv /\ KInv
      /\ current_task \in Queued
      /\ current_task \in Live
      /\ state[current_task] = RUNNING
      /\ Queued \subseteq Pid
  BY ChainFacts DEF IInv
<1>2. \A t \in Live : Safe(t)
  BY SafeLive DEF IInv
<1>3. \A t \in Live : ppid[t] # NULL => ppid[t] \in Live /\ state[ppid[t]] = BLOCKED
  BY <1>1 DEF SInv, ForkChain, Live, BLOCKED, ZOMBIE
<1>4. \A t \in Live : ppid[t] # current_task
  BY <1>1, ChainFacts DEF Live
<1>5. QED
  BY <1>1, <1>2, <1>3, <1>4, PidProp DEF KInv, TypeOK, Live

\* The timer leaves the image and the CPU where they are.
LEMMA TickImage ==
  ASSUME IInv, TimerTick
  PROVE  IInv'
<1>1. SInv'
  BY TickChain DEF IInv
<1>2. UNCHANGED <<ring, state, ppid, img_size, img_snapshot, image, prog>>
  BY DEF TimerTick
<1>3. SnapshotsOK'
  BY <1>2 DEF IInv, SnapshotsOK, Live, Queued
<1>4. current_task' # NULL
  BY TickKeeps DEF IInv, SInv
<1>5. CASE current_task = NULL
  <2>1. current_task' = 1
    BY <1>5 DEF TimerTick, schedule, IInv, SInv, KInv, TaskListOK
  <2>2. QED
    BY <1>1, <1>2, <1>3, <1>5, <2>1 DEF IInv, BootImage, ImageIntact, NULL
<1>6. CASE current_task # NULL
  <2>1. current_task \in Queued' /\ state'[current_task] = RUNNING
    BY <1>2, <1>6, ImageFacts DEF Queued
  <2>2. current_task' = current_task
    BY <1>1, <1>4, <2>1, RunnerResumed DEF SInv
  <2>3. QED
    BY <1>1, <1>2, <1>3, <1>6, <2>2 DEF IInv, BootImage, ImageIntact
<1>7. QED
  BY <1>5, <1>6

\* A child runs in the image its parent, which has a program, has loaded.
LEMMA ForkImage ==
  ASSUME IInv, Fork, img_size[current_task] > 0
  PROVE  IInv'
<1> DEFINE np == next_pid
           c == current_task
<1>1. SInv'
  BY ForkChainKept DEF IInv
<1>2. /\ KInv /\ c # NULL /\ c \in Pid /\ c \in Live /\ c \in Queued
      /\ Queued \subseteq Pid /\ Live \subseteq Queued
      /\ \A t \in Live : Safe(t)
      /\ \A t \in Live : ppid[t] # NULL => ppid[t] \in Live
      /\ NULL \notin Pid
  BY ImageFacts DEF Fork
<1>3. np \in Pid
  BY <1>2, ProcessAssumption DEF Fork, KInv, TypeOK, Pid
<1>4. Queued' = Queued \cup {np} /\ np \notin Queued
  BY <1>2, <1>3, AddQueued DEF Fork
<1>5. prog[c] = c
  BY <1>2 DEF Safe
<1>6. /\ state'[np] = RUNNING /\ ppid'[np] = c /\ prog'[np] = c
      /\ img_size'[np] = 0 /\ img_snapshot'[np] = << >>
      /\ state'[c] = BLOCKED
      /\ \A t \in Pid : t # np => /\ ppid'[t] = ppid[t]
                                  /\ prog'[t] = prog[t]
                                  /\ img_size'[t] = img_size[t]
                                  /\ img_snapshot'[t] = img_snapshot[t]
                                  /\ t # c => state'[t] = state[t]
  BY <1>2, <1>3, <1>4, <1>5 DEF Fork, fork_state, KInv, TypeOK
<1>7. Live' = Live \cup {np}
  BY <1>2, <1>3, <1>4, <1>6 DEF Live, RUNNING, BLOCKED, ZOMBIE
<1>8. current_task' = np
  <2>1. current_task' # NULL
    BY ForkKeeps DEF IInv, SInv
  <2>2. QED
    BY <1>1, <1>4, <1>6, <2>1, RunnerResumed DEF SInv
<1> HIDE DEF np, c
<1>9. ASSUME NEW t \in Pid, t = np PROVE Safe(t)'
  <2>1. /\ prog'[t] = c /\ ppid'[t] = c /\ c # t
        /\ img_size'[t] = 0 /\ img_snapshot'[t] = << >>
        /\ state'[t] # BLOCKED
    BY <1>2, <1>4, <1>6, <1>9 DEF RUNNING, BLOCKED
  <2>2. QED
    BY <2>1 DEF Safe
<1>10. ASSUME NEW t \in Live PROVE Safe(t)'
  <2>1. Safe(t) /\ t \in Pid /\ t # np
    BY <1>2, <1>4
  <2>2. ppid[t] # NULL => ppid[t] \in Pid /\ ppid[t] # np
    BY <1>2, <1>4
  <2>3. state'[t] = state[t] \/ prog[t] = t
    BY <1>5, <1>6, <2>1
  <2>4. QED
    BY <1>6, <2>1, <2>2, <2>3, SafeKept
<1>11. SnapshotsOK'
  <2>1. ASSUME NEW t \in Live' PROVE Safe(t)'
    BY <1>3, <1>7, <1>9, <1>10
  <2>2. QED
    BY <2>1 DEF SnapshotsOK, Safe
<1>12. ImageIntact'
  <2>1. \A i \in Page : i < img_size[c] => image[i] = c
    BY <1>2, <1>5 DEF IInv, ImageIntact, c
  <2>2. prog'[current_task'] = c /\ img_size'[c] = img_size[c] /\ image' = image
    BY <1>2, <1>4, <1>6, <1>8 DEF Fork
  <2>3. QED
    BY <2>1, <2>2 DEF ImageIntact
<1>13. BootImage'
  BY <1>2, <1>3, <1>8 DEF BootImage
<1>14. QED
  BY <1>1, <1>11, <1>12, <1>13 DEF IInv

\* An exec takes a full copy of the parent's program before it overwrites it.
LEMMA ExecveImage ==
  ASSUME IInv, NEW n \in 1 .. Pages, Execve(n),
         ppid[current_task] # NULL => n >= img_size[ppid[current_task]]
  PROVE  IInv'
<1> DEFINE c == current_task
           p == ppid[current_task]
<1>1. SInv'
  BY ExecveChain DEF IInv
<1>2. /\ KInv /\ c # NULL /\ c \in Pid /\ c \in Live /\ c \in Queued
      /\ Queued \subseteq Pid /\ Live \subseteq Queued
      /\ \A t \in Live : Safe(t)
      /\ \A t \in Live : ppid[t] # c
      /\ \A t \in Live : ppid[t] # NULL => ppid[t] \in Live /\ state[ppid[t]] = BLOCKED
      /\ state[c] = RUNNING
      /\ img_size \in [Pid -> 0 .. Pages]
      /\ img_snapshot \in [Pid -> Seq(0 .. Junk)]
      /\ prog \in [Pid -> Pid \cup {NULL}]
  BY ImageFacts DEF Execve
<1>3. /\ UNCHANGED <<ring, state, ppid>>
      /\ img_snapshot' = exec_snapshot
      /\ image' = [i \in Page |-> IF i < n THEN c ELSE image[i]]
      /\ img_size' = [img_size EXCEPT ![c] = n]
      /\ prog' = [prog EXCEPT ![c] = c]
  BY DEF Execve
<1>4. Queued' = Queued /\ Live' = Live
  BY <1>3 DEF Queued, Live
<1>5. current_task' = c
  <2>1. current_task' # NULL
    BY ExecveKeeps DEF IInv, SInv
  <2>2. QED
    BY <1>1, <1>2, <1>3, <1>4, <2>1, RunnerResumed DEF SInv
<1>6. /\ prog'[c] = c /\ img_size'[c] = n /\ n > 0
      /\ \A t \in Pid : t # c => /\ prog'[t] = prog[t]
                                 /\ img_size'[t] = img_size[t]
                                 /\ img_snapshot'[t] = img_snapshot[t]
  BY <1>2, <1>3 DEF exec_snapshot
<1>7. CASE p = NULL
  <2>1. img_snapshot'[c] = << >>
    BY <1>2, <1>3, <1>7 DEF exec_snapshot, TakesSnapshot, Safe
  <2>2. QED
    <3>1. ASSUME NEW t \in Live' PROVE Safe(t)'
      <4>1. CASE t = c
        BY <1>3, <1>6, <1>7, <2>1, <4>1 DEF Safe
      <4>2. CASE t # c
        <5>1. Safe(t) /\ t \in Pid /\ t \in Live
          BY <1>2, <1>4
        <5>2. ppid[t] # NULL => ppid[t] \in Pid /\ ppid[t] # c
          BY <1>2, <5>1
        <5>3. QED
          BY <1>3, <1>6, <4>2, <5>1, <5>2, SafeKept
      <4>3. QED
        BY <4>1, <4>2
    <3>2. SnapshotsOK'
      BY <3>1 DEF SnapshotsOK, Safe
    <3>3. ImageIntact'
      BY <1>3, <1>5, <1>6 DEF ImageIntact
    <3>4. BootImage'
      BY <1>2, <1>5 DEF BootImage
    <3>5. QED
      BY <1>1, <3>2, <3>3, <3>4 DEF IInv
<1>8. CASE p # NULL
  <2>1. /\ p \in Live /\ p \in Pid /\ p # c /\ state[p] = BLOCKED
        /\ img_size[p] > 0 /\ prog[p] = p /\ img_size[p] \in 0 .. Pages
    <3>1. p \in Live /\ p \in Pid /\ p # c /\ state[p] = BLOCKED
      BY <1>2, <1>8 DEF RUNNING, BLOCKED
    <3>2. QED
      BY <1>2, <3>1 DEF Safe
  <2>2. /\ Len(img_snapshot'[c]) = img_size[p]
        /\ \A i \in 1 .. img_size[p] : img_snapshot'[c][i] = p
    <3>1. CASE prog[c] = c
      <4>1. /\ Len(img_snapshot[c]) = img_size[p]
            /\ \A i \in 1 .. img_size[p] : img_snapshot[c][i] = p
        BY <1>2, <1>8, <3>1 DEF Safe
      <4>2. img_snapshot[c] # << >>
        BY <2>1, <4>1
      <4>3. img_snapshot' = img_snapshot
        BY <1>3, <4>2 DEF exec_snapshot, TakesSnapshot
      <4>4. QED
        BY <4>1, <4>3
    <3>2. CASE prog[c] # c
      <4>1. img_snapshot[c] = << >> /\ prog[c] = p
        BY <1>2, <3>2 DEF Safe
      <4>2. TakesSnapshot
        BY <1>2, <1>8, <2>1, <4>1 DEF TakesSnapshot
      <4>3. img_snapshot'[c] = [i \in 1 .. img_size[p] |-> image[i - 1]]
        BY <1>2, <1>3, <4>2 DEF exec_snapshot, ParentImage
      <4>4. \A i \in 1 .. img_size[p] : image[i - 1] = p
        <5>1. \A i \in Page : i < img_size[p] => image[i] = p
          BY <1>2, <1>8, <4>1 DEF IInv, ImageIntact
        <5>2. \A i \in 1 .. img_size[p] : i - 1 \in Page /\ i - 1 < img_size[p]
          BY <2>1, ProcessAssumption DEF Page
        <5>3. QED
          BY <5>1, <5>2
      <4>5. QED
        BY <2>1, <4>3, <4>4
    <3>3. QED
      BY <3>1, <3>2
  <2>3. n >= img_size[p]
    BY <1>8
  <2>4. ASSUME NEW t \in Live' PROVE Safe(t)'
    <3>1. CASE t = c
      <4>1. /\ prog'[t] = t /\ img_size'[t] > 0
            /\ ppid'[t] # NULL
            /\ Len(img_snapshot'[t]) = img_size'[ppid'[t]]
            /\ \A i \in 1 .. img_size'[ppid'[t]] : img_snapshot'[t][i] = ppid'[t]
            /\ img_size'[t] >= img_size'[ppid'[t]]
        BY <1>3, <1>6, <1>8, <2>1, <2>2, <2>3, <3>1
      <4> HIDE DEF c, p
      <4>2. QED
        BY <4>1 DEF Safe
    <3>2. CASE t # c
      <4>1. Safe(t) /\ t \in Pid /\ t \in Live
        BY <1>2, <1>4
      <4>2. ppid[t] # NULL => ppid[t] \in Pid /\ ppid[t] # c
        BY <1>2, <4>1
      <4>3. QED
        BY <1>3, <1>6, <3>2, <4>1, <4>2, SafeKept
    <3>3. QED
      BY <3>1, <3>2
  <2>5. SnapshotsOK'
    BY <2>4 DEF SnapshotsOK, Safe
  <2>6. ImageIntact'
    BY <1>3, <1>5, <1>6 DEF ImageIntact
  <2>7. BootImage'
    BY <1>2, <1>5 DEF BootImage
  <2>8. QED
    BY <1>1, <2>5, <2>6, <2>7 DEF IInv
<1>9. QED
  BY <1>7, <1>8

\* A failing exec touches nothing.
LEMMA ExecveFailsImage ==
  ASSUME IInv, ExecveFails
  PROVE  IInv'
<1>1. SInv'
  BY ExecveFailsChain DEF IInv
<1>2. UNCHANGED <<ring, state, ppid, img_size, img_snapshot, image, prog>> /\ current_task # NULL
  BY DEF ExecveFails
<1>3. current_task \in Queued' /\ state'[current_task] = RUNNING
  BY <1>2, ImageFacts DEF Queued
<1>4. current_task' = current_task
  BY <1>1, <1>3, ExecveFailsKeeps, RunnerResumed DEF IInv, SInv
<1>5. QED
  BY <1>1, <1>2, <1>4 DEF IInv, SnapshotsOK, ImageIntact, BootImage, Live, Queued

\* The death of a task writes the whole program of its parent back.
LEMMA DieImage ==
  ASSUME IInv, NEW status \in Nat, Die(status)
  PROVE  IInv'
<1> DEFINE np == next_pid
           c == current_task
           p == ppid[current_task]
<1>1. SInv'
  BY DieChain DEF IInv
<1>2. /\ SInv /\ KInv /\ c # NULL /\ c \in Pid /\ c \in Live /\ c \in Queued
      /\ Queued \subseteq Pid /\ Live \subseteq Queued
      /\ NULL \notin Pid
      /\ \A t \in Live : Safe(t)
      /\ \A t \in Live : ppid[t] # c
      /\ \A t \in Live : ppid[t] # NULL => ppid[t] \in Live
      /\ img_size \in [Pid -> 0 .. Pages]
      /\ img_snapshot \in [Pid -> Seq(0 .. Junk)]
  BY ImageFacts DEF Die
<1>3. /\ UNCHANGED <<img_size, prog>>
      /\ image' = restored
      /\ \A t \in Pid \ {c} : img_snapshot'[t] = img_snapshot[t]
  BY <1>2 DEF Die, task_exit
<1>4. current_task' # NULL
  BY DieKeeps DEF IInv, SInv
<1>5. BootImage'
  BY <1>4 DEF BootImage
<1>6. CASE Respawns
  <2>1. /\ np \in Pid /\ np \notin Queued /\ state[np] = FREE
        /\ state'[np] = RUNNING /\ ppid'[np] = NULL
        /\ np \in Queued'
        /\ Live' = (Live \ {c}) \cup {np}
        /\ \A t \in Queued \ {c} : state'[t] = state[t]
        /\ \A t \in Live \ {c} : ppid'[t] = ppid[t]
    BY <1>2, <1>6, DieRoot
  <2>2. prog[np] = NULL /\ img_size[np] = 0 /\ img_snapshot[np] = << >>
    BY <1>2, <2>1 DEF KInv, TaskListOK, FreeSlotsClear
  <2>3. current_task' = np
    BY <1>1, <1>4, <2>1, RunnerResumed DEF SInv
  <2>4. /\ prog'[np] = NULL /\ img_size'[np] = 0 /\ img_snapshot'[np] = << >>
    BY <1>2, <1>3, <2>1, <2>2
  <2> HIDE DEF np, c, p
  <2>5. ASSUME NEW t \in Live' PROVE Safe(t)'
    <3>1. CASE t = np
      <4>1. /\ prog'[t] = NULL /\ ppid'[t] = NULL /\ t # NULL
            /\ img_size'[t] = 0 /\ img_snapshot'[t] = << >>
            /\ state'[t] # BLOCKED
        BY <1>2, <2>1, <2>4, <3>1 DEF RUNNING, BLOCKED
      <4>2. QED
        BY <4>1 DEF Safe
    <3>2. CASE t # np
      <4>1. Safe(t) /\ t \in Pid /\ t \in Queued /\ t # c /\ t \in Live
        BY <1>2, <2>1, <3>2
      <4>2. QED
        BY <1>3, <2>1, <4>1, SafeKept
    <3>3. QED
      BY <3>1, <3>2
  <2>6. SnapshotsOK'
    BY <2>5 DEF SnapshotsOK, Safe
  <2>7. ImageIntact'
    BY <2>3, <2>4 DEF ImageIntact
  <2>8. QED
    BY <1>1, <1>5, <2>6, <2>7 DEF IInv
<1>7. CASE ~Respawns
  <2>1. /\ p # NULL /\ p \in Live /\ p \in Pid /\ p # c /\ state[p] = BLOCKED
        /\ state'[p] = RUNNING /\ p \in Queued'
        /\ Live' = Live \ {c}
        /\ \A t \in Queued \ {c, p} : state'[t] = state[t]
        /\ \A t \in Live : ppid'[t] = ppid[t]
    BY <1>2, <1>7, DieChild
  <2>2. current_task' = p
    BY <1>1, <1>4, <2>1, RunnerResumed DEF SInv
  <2>3. prog[p] = p
    BY <1>2, <2>1 DEF Safe
  <2>4. \A i \in Page : i < img_size[p] => image'[i] = p
    <3>1. CASE prog[c] = c
      <4>1. /\ Len(img_snapshot[c]) = img_size[p]
            /\ \A i \in 1 .. img_size[p] : img_snapshot[c][i] = p
            /\ img_size[c] >= img_size[p]
        BY <1>2, <2>1, <3>1 DEF Safe
      <4>2. img_size[p] > 0 /\ img_size[p] \in Nat /\ img_size[c] \in Nat
        BY <1>2, <2>1, <2>3 DEF Safe
      <4>3. img_snapshot[c] # << >>
        BY <4>1, <4>2
      <4>4. ASSUME NEW i \in Page, i < img_size[p] PROVE image'[i] = p
        <5>1. i \in Nat /\ i + 1 \in 1 .. img_size[p] /\ ~(i >= img_size[c])
          BY <4>1, <4>2, <4>4, ProcessAssumption DEF Page
        <5>2. image'[i] = img_snapshot[c][i + 1]
          BY <1>3, <4>1, <4>3, <4>4, <5>1 DEF restored
        <5>3. QED
          BY <4>1, <5>1, <5>2
      <4>5. QED
        BY <4>4
    <3>2. CASE prog[c] # c
      <4>1. img_snapshot[c] = << >> /\ prog[c] = p
        BY <1>2, <3>2 DEF Safe
      <4>2. image' = image
        BY <1>3, <4>1 DEF restored
      <4>3. QED
        BY <1>2, <2>1, <4>1, <4>2 DEF IInv, ImageIntact
    <3>3. QED
      BY <3>1, <3>2
  <2> HIDE DEF np, c, p
  <2>5. ASSUME NEW t \in Live' PROVE Safe(t)'
    <3>1. Safe(t) /\ t \in Pid /\ t \in Queued /\ t # c /\ t \in Live
      BY <1>2, <2>1
    <3>2. state'[t] = state[t] \/ prog[t] = t
      BY <2>1, <2>3, <3>1
    <3>3. QED
      BY <1>3, <2>1, <3>1, <3>2, SafeKept
  <2>6. SnapshotsOK'
    BY <2>5 DEF SnapshotsOK, Safe
  <2>7. ImageIntact'
    BY <1>3, <2>2, <2>3, <2>4 DEF ImageIntact
  <2>8. QED
    BY <1>1, <1>5, <2>6, <2>7 DEF IInv
<1>8. QED
  BY <1>6, <1>7

\* wait4 frees zombies only; no live task runs the program of one.
LEMMA Wait4Image ==
  ASSUME IInv, NEW pid, NEW wnohang, Wait4(pid, wnohang)
  PROVE  IInv'
<1> DEFINE c == current_task
<1>1. SInv' /\ current_task' # NULL /\ image' = image
  BY Wait4Chain, Wait4Keeps DEF IInv, SInv, Wait4
<1>2. /\ SInv /\ KInv /\ c # NULL /\ c \in Pid /\ c \in Live
      /\ Queued \subseteq Pid /\ Live \subseteq Queued
      /\ state[c] = RUNNING
      /\ \A t \in Live : Safe(t)
      /\ \A t \in Live : ppid[t] # NULL => ppid[t] \in Live
  BY ImageFacts DEF Wait4
<1>3. current_task' = c
  <2>1. c \in Queued' /\ state'[c] = RUNNING
    BY <1>2, Wait4Live DEF RUNNING, ZOMBIE
  <2>2. QED
    BY <1>1, <2>1, RunnerResumed DEF SInv
<1>4. CASE UNCHANGED <<ring, state, ppid, img_size, img_snapshot, prog>>
  <2>1. SnapshotsOK' /\ ImageIntact' /\ BootImage'
    BY <1>1, <1>2, <1>3, <1>4 DEF IInv, SnapshotsOK, ImageIntact, BootImage, Live, Queued
  <2>2. QED
    BY <1>1, <2>1 DEF IInv
<1>5. ASSUME NEW found \in Queued, state[found] = ZOMBIE,
             \A t \in Pid : t # found =>
               /\ state'[t] = state[t]
               /\ ppid'[t] = ppid[t]
               /\ img_size'[t] = img_size[t]
               /\ img_snapshot'[t] = img_snapshot[t]
               /\ prog'[t] = prog[t]
      PROVE  IInv'
  <2>1. found \notin Live /\ Live' = Live
    BY <1>2, <1>5, Wait4Live DEF Live
  <2>2. ASSUME NEW t \in Live' PROVE Safe(t)'
    <3>1. Safe(t) /\ t \in Pid /\ t \in Live /\ t # found
      BY <1>2, <2>1
    <3>2. ppid[t] # NULL => ppid[t] \in Pid /\ ppid[t] # found
      BY <1>2, <2>1, <3>1
    <3>3. QED
      BY <1>5, <3>1, <3>2, SafeKept
  <2>3. SnapshotsOK'
    BY <2>2 DEF SnapshotsOK, Safe
  <2>4. ImageIntact'
    <3>1. prog[c] # NULL => prog[c] \in Live
      BY <1>2 DEF Safe
    <3>2. prog'[c] = prog[c] /\ (prog[c] # NULL => img_size'[prog[c]] = img_size[prog[c]])
      BY <1>2, <1>5, <2>1, <3>1
    <3>3. QED
      BY <1>1, <1>2, <1>3, <3>2 DEF IInv, ImageIntact, c
  <2>5. BootImage'
    BY <1>1 DEF BootImage
  <2>6. QED
    BY <1>1, <2>3, <2>4, <2>5 DEF IInv
<1>6. QED
  BY <1>2, <1>4, <1>5, Wait4Effect

\* At boot nobody has a program and there are no snapshots.
LEMMA InitIInv == Init => IInv
<1> SUFFICES ASSUME Init PROVE IInv
  OBVIOUS
<1>1. SInv
  BY InitSInv
<1>2. 1 \in Pid /\ NULL = 0
  BY ProcessAssumption DEF Pid, NULL
<1>3. Queued = {1} /\ state[1] = RUNNING /\ ppid[1] = NULL /\ prog[1] = NULL
      /\ img_size[1] = 0 /\ img_snapshot[1] = << >> /\ current_task = NULL
  BY <1>2 DEF Init, Queued
<1>4. SnapshotsOK
  BY <1>2, <1>3 DEF SnapshotsOK, Live, RUNNING, BLOCKED
<1>5. QED
  BY <1>1, <1>3, <1>4 DEF IInv, BootImage, ImageIntact

\* Every step of the nested programs keeps the image invariant.
LEMMA NextIInv == IInv /\ [NestedNext]_vars => IInv'
<1> SUFFICES ASSUME IInv, [NestedNext]_vars PROVE IInv'
  OBVIOUS
<1>1. CASE TimerTick
  BY <1>1, TickImage
<1>2. CASE Fork /\ img_size[current_task] > 0
  BY <1>2, ForkImage
<1>3. ASSUME NEW n \in 1 .. Pages, Execve(n),
             ppid[current_task] # NULL => n >= img_size[ppid[current_task]]
      PROVE  IInv'
  BY <1>3, ExecveImage
<1>4. CASE ExecveFails
  BY <1>4, ExecveFailsImage
<1>5. ASSUME NEW k \in ExitCodes, Exit(k) PROVE IInv'
  <2>1. k \in Nat /\ Die(k)
    BY <1>5, ProcessAssumption DEF Exit
  <2>2. QED
    BY <2>1, DieImage
<1>6. CASE Fault
  <2>1. 128 + 11 \in Nat
    OBVIOUS
  <2>2. QED
    BY <1>6, <2>1, DieImage DEF Fault
<1>7. ASSUME NEW q \in Pid \cup {-1}, NEW w \in BOOLEAN, Wait4(q, w) PROVE IInv'
  BY <1>7, Wait4Image
<1>8. CASE UNCHANGED vars
  <2>1. SInv'
    BY <1>8, NextSInv DEF IInv
  <2>2. QED
    BY <1>8, <2>1 DEF IInv, SnapshotsOK, ImageIntact, BootImage, Live, Queued, vars
<1>9. QED
  BY <1>1, <1>2, <1>3, <1>4, <1>5, <1>6, <1>7, <1>8 DEF NestedNext

\* task_exit's snapshot and restore do what they are for: as long as a task
\* forks only after it has loaded its own program, and no exec loads less than
\* the parent's image, whoever has the CPU finds its whole program in memory.
THEOREM ImageSurvives == NestedSpec => []ImageIntact
<1>1. IInv => ImageIntact
  BY DEF IInv
<1>2. QED
  BY <1>1, InitIInv, NextIInv, PTL DEF NestedSpec

\* Every napping parent's program is kept whole in its child's snapshot, or in
\* the image itself, down the whole chain of naps.
THEOREM SnapshotsComplete == NestedSpec => []SnapshotsOK
<1>1. IInv => SnapshotsOK
  BY DEF IInv
<1>2. QED
  BY <1>1, InitIInv, NextIInv, PTL DEF NestedSpec

============================================================================
