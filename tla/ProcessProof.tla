---------------------------- MODULE ProcessProof ----------------------------
(* Proofs about Process, for every number of pids, pages, codes and signals. *)
EXTENDS Process, WellFoundedInduction, TLAPS

---------------------------------------------------------------------------
(* The task list as a sequence. *)

Elems(q) == {q[i] : i \in DOMAIN q}
Ascending(q) == \A i, j \in DOMAIN q : i < j => q[i] < q[j]

\* Pids are positive numbers.
LEMMA PidProp ==
  /\ Pid \subseteq Nat
  /\ NULL \notin Pid
  /\ \A t \in Pid \cup {NULL} : t \in Nat
BY ProcessAssumption DEF Pid, NULL

\* A list of tasks is a function from its positions to pids; in an ascending
\* one no task occurs twice.
LEMMA ListProp ==
  ASSUME NEW q \in Seq(Pid)
  PROVE  /\ Len(q) \in Nat
         /\ DOMAIN q = 1 .. Len(q)
         /\ \A i \in DOMAIN q : q[i] \in Pid /\ q[i] \in Nat /\ q[i] # NULL
         /\ Elems(q) \subseteq Pid
         /\ Ascending(q) => \A i, j \in DOMAIN q : i # j => q[i] # q[j]
<1>1. /\ Len(q) \in Nat
      /\ DOMAIN q = 1 .. Len(q)
      /\ \A i \in DOMAIN q : q[i] \in Pid
  OBVIOUS
<1>2. \A i \in DOMAIN q : q[i] \in Pid /\ q[i] \in Nat /\ q[i] # NULL
  BY <1>1, PidProp
<1>3. Elems(q) \subseteq Pid
  BY <1>1 DEF Elems
<1>4. ASSUME Ascending(q), NEW i \in DOMAIN q, NEW j \in DOMAIN q, i # j
      PROVE  q[i] # q[j]
  <2>1. CASE i < j
    BY <1>2, <1>4, <2>1 DEF Ascending
  <2>2. CASE j < i
    BY <1>2, <1>4, <2>2 DEF Ascending
  <2>3. QED
    BY <1>1, <1>4, <2>1, <2>2
<1>5. QED
  BY <1>1, <1>2, <1>3, <1>4

\* A queued task is where Position says it is.
LEMMA PositionProp ==
  ASSUME NEW q, NEW t \in Elems(q)
  PROVE  Position(q, t) \in DOMAIN q /\ q[Position(q, t)] = t
<1>1. \E i \in DOMAIN q : q[i] = t
  BY DEF Elems
<1>2. QED
  BY <1>1 DEF Position

\* add_task keeps the list in pid order when the new pid is the largest.
LEMMA AddProp ==
  ASSUME NEW q \in Seq(Pid), Ascending(q), NEW t \in Pid,
         \A u \in Elems(q) : u < t
  PROVE  /\ add_task(q, t) \in Seq(Pid)
         /\ Ascending(add_task(q, t))
         /\ Elems(add_task(q, t)) = Elems(q) \cup {t}
<1> DEFINE r == add_task(q, t)
<1>1. /\ r \in Seq(Pid)
      /\ DOMAIN r = 1 .. Len(q) + 1
      /\ \A i \in 1 .. Len(q) : r[i] = q[i]
      /\ r[Len(q) + 1] = t
      /\ DOMAIN q = 1 .. Len(q)
      /\ Len(q) \in Nat
  BY DEF add_task
<1> HIDE DEF r
<1>2. Elems(r) = Elems(q) \cup {t}
  BY <1>1 DEF Elems
<1>3. Ascending(r)
  <2> SUFFICES ASSUME NEW i \in DOMAIN r, NEW j \in DOMAIN r, i < j
               PROVE  r[i] < r[j]
    BY DEF Ascending
  <2>1. i \in 1 .. Len(q)
    BY <1>1
  <2>2. CASE j \in 1 .. Len(q)
    BY <1>1, <2>1, <2>2 DEF Ascending
  <2>3. CASE j = Len(q) + 1
    BY <1>1, <2>1, <2>3 DEF Elems
  <2>4. QED
    BY <1>1, <2>2, <2>3
<1>4. QED
  BY <1>1, <1>2, <1>3 DEF r

\* remove_task takes out one task and nothing else.
LEMMA RemoveProp ==
  ASSUME NEW q \in Seq(Pid), Ascending(q), NEW t \in Elems(q)
  PROVE  /\ remove_task(q, t) \in Seq(Pid)
         /\ Ascending(remove_task(q, t))
         /\ Elems(remove_task(q, t)) = Elems(q) \ {t}
<1> DEFINE k == Position(q, t)
           r == remove_task(q, t)
<1>1. k \in 1 .. Len(q) /\ q[k] = t
  BY PositionProp
<1>2. Len(q) \in Nat /\ DOMAIN q = 1 .. Len(q) /\ \A i \in 1 .. Len(q) : q[i] \in Pid
  OBVIOUS
<1>3. \A i, j \in 1 .. Len(q) : i # j => q[i] # q[j]
  BY <1>2, ListProp
<1> HIDE DEF k
<1>4. r = [i \in 1 .. Len(q) - 1 |-> IF i < k THEN q[i] ELSE q[i + 1]]
  BY DEF remove_task, k
<1>5. Len(q) - 1 \in Nat
  BY <1>1, <1>2
<1>6. \A i \in 1 .. Len(q) - 1 : (IF i < k THEN q[i] ELSE q[i + 1]) \in Pid
  BY <1>1, <1>2
<1>7. /\ r \in Seq(Pid)
      /\ DOMAIN r = 1 .. Len(q) - 1
      /\ \A i \in 1 .. Len(q) - 1 : r[i] = IF i < k THEN q[i] ELSE q[i + 1]
  BY <1>4, <1>5, <1>6
<1> HIDE DEF r
<1>8. Ascending(r)
  <2> SUFFICES ASSUME NEW i \in DOMAIN r, NEW j \in DOMAIN r, i < j
               PROVE  r[i] < r[j]
    BY DEF Ascending
  <2> DEFINE from(m) == IF m < k THEN m ELSE m + 1
  <2>1. /\ from(i) \in DOMAIN q /\ from(j) \in DOMAIN q
        /\ from(i) < from(j)
    BY <1>1, <1>2, <1>7
  <2>2. r[i] = q[from(i)] /\ r[j] = q[from(j)]
    BY <1>7
  <2>3. QED
    BY <2>1, <2>2 DEF Ascending
<1>9. Elems(r) = Elems(q) \ {t}
  <2>1. ASSUME NEW x \in Elems(r) PROVE x \in Elems(q) \ {t}
    BY <1>1, <1>2, <1>3, <1>7 DEF Elems
  <2>2. ASSUME NEW x \in Elems(q), x # t PROVE x \in Elems(r)
    <3>1. PICK i \in 1 .. Len(q) : q[i] = x
      BY <1>2 DEF Elems
    <3>2. CASE i < k
      BY <1>1, <1>2, <1>7, <3>1, <3>2 DEF Elems
    <3>3. CASE i > k
      <4>1. i - 1 \in 1 .. Len(q) - 1 /\ r[i - 1] = x
        BY <1>1, <1>2, <1>7, <3>1, <3>3
      <4>2. QED
        BY <1>7, <4>1 DEF Elems
    <3>4. QED
      BY <1>1, <1>2, <2>2, <3>1, <3>2, <3>3
  <2>3. QED
    BY <2>1, <2>2
<1>10. QED
  BY <1>7, <1>8, <1>9 DEF r

\* When exactly one queued task is RUNNING, schedule resumes it.
LEMMA ScheduleFinds ==
  ASSUME NEW q \in Seq(Pid), Ascending(q), NEW cur \in Elems(q), NEW st,
         NEW r \in Elems(q), st[r] = RUNNING,
         \A u \in Elems(q) : st[u] = RUNNING => u = r
  PROVE  schedule(q, cur, st) = r
<1> DEFINE here == Position(q, cur)
           runnable == {j \in DOMAIN q : st[q[j]] = RUNNING}
           k == Position(q, r)
<1>1. k \in DOMAIN q /\ q[k] = r /\ here \in DOMAIN q
  BY PositionProp
<1>2. DOMAIN q = 1 .. Len(q) /\ Len(q) \in Nat
  OBVIOUS
<1>3. \A i \in DOMAIN q : i # k => q[i] # r
  BY <1>1, ListProp
<1>4. runnable = {k}
  BY <1>1, <1>3 DEF Elems
<1>5. Hops(q, here, k) <= Hops(q, here, k)
  BY <1>1, <1>2 DEF Hops
<1>6. (CHOOSE j \in {k} : \A m \in {k} : Hops(q, here, j) <= Hops(q, here, m)) = k
  BY <1>5
<1>7. cur # NULL
  BY ListProp DEF Elems
<1> HIDE DEF here, k
<1>8. schedule(q, cur, st) = q[CHOOSE j \in {k} : \A m \in {k} : Hops(q, here, j) <= Hops(q, here, m)]
  BY <1>4, <1>7 DEF schedule, here
<1>9. QED
  BY <1>1, <1>6, <1>8

\* When none is, it resumes some task of the list.
LEMMA ScheduleFallsBack ==
  ASSUME NEW q \in Seq(Pid), NEW cur \in Elems(q), NEW st,
         \A u \in Elems(q) : st[u] # RUNNING
  PROVE  schedule(q, cur, st) \in Elems(q)
<1> DEFINE here == Position(q, cur)
           k == IF here < Len(q) THEN here + 1 ELSE 1
<1>1. here \in DOMAIN q
  BY PositionProp
<1>2. DOMAIN q = 1 .. Len(q) /\ Len(q) \in Nat
  OBVIOUS
<1> HIDE DEF here
<1>3. k \in DOMAIN q /\ \A m \in DOMAIN q : Hops(q, here, k) <= Hops(q, here, m)
  BY <1>1, <1>2 DEF Hops
<1>4. (CHOOSE j \in DOMAIN q : \A m \in DOMAIN q : Hops(q, here, j) <= Hops(q, here, m))
         \in DOMAIN q
  BY <1>3
<1>5. {j \in DOMAIN q : st[q[j]] = RUNNING} = {}
  BY DEF Elems
<1>6. cur # NULL
  BY ListProp DEF Elems
<1>7. schedule(q, cur, st) = q[CHOOSE j \in DOMAIN q : \A m \in DOMAIN q : Hops(q, here, j) <= Hops(q, here, m)]
  BY <1>5, <1>6 DEF schedule, here
<1>8. QED
  BY <1>4, <1>7 DEF Elems

---------------------------------------------------------------------------
(* Any programs at all: the task list is sound and one task runs. *)

AtMostOne(q, st) ==
  \A u, v \in Elems(q) : st[u] = RUNNING /\ st[v] = RUNNING => u = v

\* With at most one RUNNING task in the list, schedule resumes a task of the
\* list, and the RUNNING one if there is one.
LEMMA ScheduleProp ==
  ASSUME NEW q \in Seq(Pid), Ascending(q), NEW cur \in Elems(q), NEW st,
         AtMostOne(q, st)
  PROVE  /\ schedule(q, cur, st) \in Elems(q)
         /\ \A u \in Elems(q) : st[u] = RUNNING => u = schedule(q, cur, st)
<1>1. CASE \E r \in Elems(q) : st[r] = RUNNING
  <2>1. PICK r \in Elems(q) : st[r] = RUNNING
    BY <1>1
  <2>2. \A u \in Elems(q) : st[u] = RUNNING => u = r
    BY <2>1 DEF AtMostOne
  <2>3. schedule(q, cur, st) = r
    BY <2>1, <2>2, ScheduleFinds
  <2>4. QED
    BY <2>1, <2>2, <2>3
<1>2. CASE \A u \in Elems(q) : st[u] # RUNNING
  BY <1>2, ScheduleFallsBack
<1>3. QED
  BY <1>1, <1>2

\* The inductive invariant of KillSpec.
KInv == TypeOK /\ TaskListOK /\ OnlyCurrentRuns

\* What a step has to establish about the list it leaves behind.
ListOK(q, st, pp, np) ==
  /\ q \in Seq(Pid)
  /\ Ascending(q)
  /\ \A t \in Pid : t \in Elems(q) <=> st[t] # FREE
  /\ \A t \in Elems(q) : t < np /\ pp[t] < t

\* The same facts about the list a step starts from.
LEMMA KInvFacts ==
  ASSUME KInv
  PROVE  /\ Queued = Elems(ring)
         /\ ListOK(ring, state, ppid, next_pid)
         /\ Elems(ring) \subseteq Pid
         /\ current_task # NULL =>
              /\ current_task \in Elems(ring)
              /\ current_task \in Pid
              /\ AtMostOne(ring, state)
              /\ \A t \in Elems(ring) : state[t] = RUNNING => t = current_task
<1>1. Queued = Elems(ring)
  BY DEF Queued, Elems
<1>2. ListOK(ring, state, ppid, next_pid)
  BY <1>1 DEF KInv, TypeOK, TaskListOK, ListOK, Ascending
<1>3. Elems(ring) \subseteq Pid
  BY <1>2, ListProp DEF ListOK
<1>4. QED
  BY <1>1, <1>2, <1>3 DEF KInv, TaskListOK, OnlyCurrentRuns, AtMostOne

\* A handler that ends in schedule re-establishes the invariant.
LEMMA RescheduleKeeps ==
  ASSUME TypeOK', FreeSlotsClear', ListOK(ring', state', ppid', next_pid'),
         AtMostOne(ring', state'),
         current_task \in Elems(ring'),
         current_task' = schedule(ring', current_task, state')
  PROVE  KInv' /\ current_task' # NULL
<1>1. /\ current_task' \in Elems(ring')
      /\ \A u \in Elems(ring') : state'[u] = RUNNING => u = current_task'
  BY ScheduleProp DEF ListOK
<1>2. Queued' = Elems(ring')
  BY DEF Queued, Elems
<1>3. current_task' # NULL
  BY <1>1, ListProp, PidProp DEF ListOK
<1>4. TaskListOK'
  BY <1>1, <1>2, <1>3 DEF TaskListOK, ListOK, Ascending
<1>5. OnlyCurrentRuns'
  BY <1>1, <1>2 DEF OnlyCurrentRuns
<1>6. QED
  BY <1>3, <1>4, <1>5 DEF KInv

\* So does one that ends in SyscallReturn and wakes nobody.
LEMMA ReturnKeeps ==
  ASSUME KInv, current_task # NULL,
         TypeOK', FreeSlotsClear', ListOK(ring', state', ppid', next_pid'),
         \A t \in Elems(ring') : state'[t] = RUNNING => t = current_task,
         current_task \in Elems(ring'),
         current_task' = SyscallReturn(ring', state')
  PROVE  KInv' /\ current_task' # NULL
<1>1. AtMostOne(ring', state')
  BY DEF AtMostOne
<1>2. CASE state'[current_task] = ZOMBIE
  BY <1>1, <1>2, RescheduleKeeps DEF SyscallReturn
<1>3. CASE state'[current_task] # ZOMBIE
  <2>1. current_task' = current_task
    BY <1>3 DEF SyscallReturn
  <2>2. Queued' = Elems(ring')
    BY DEF Queued, Elems
  <2>3. TaskListOK'
    BY <2>1, <2>2 DEF TaskListOK, ListOK, Ascending
  <2>4. OnlyCurrentRuns'
    BY <2>1, <2>2 DEF OnlyCurrentRuns
  <2>5. QED
    BY <2>1, <2>3, <2>4 DEF KInv
<1>4. QED
  BY <1>2, <1>3

\* The timer only chooses the next task.
LEMMA TickKeeps ==
  ASSUME KInv, TimerTick
  PROVE  KInv' /\ current_task' # NULL
<1>1. /\ UNCHANGED <<ring, next_pid, state, ppid, exit_code, img_size,
                     img_snapshot, image, prog>>
      /\ current_task' = schedule(ring, current_task, state)
  BY DEF TimerTick
<1>2. CASE current_task = NULL
  <2>1. ring = <<1>> /\ current_task' = 1
    BY <1>1, <1>2 DEF KInv, TaskListOK, schedule
  <2>2. 1 \in Pid /\ 1 # NULL
    BY ProcessAssumption DEF Pid, NULL
  <2>3. TypeOK'
    BY <1>1, <2>1, <2>2 DEF KInv, TypeOK
  <2>4. Queued = {1} /\ Queued' = {1}
    BY <1>1, <2>1 DEF Queued
  <2>5. TaskListOK'
    BY <1>1, <2>1, <2>2, <2>4 DEF KInv, TaskListOK, FreeSlotsClear
  <2>6. OnlyCurrentRuns'
    BY <2>1, <2>4 DEF OnlyCurrentRuns
  <2>7. QED
    BY <2>1, <2>2, <2>3, <2>5, <2>6 DEF KInv
<1>3. CASE current_task # NULL
  <2>1. /\ ListOK(ring, state, ppid, next_pid)
        /\ AtMostOne(ring, state)
        /\ current_task \in Elems(ring)
        /\ Elems(ring) \subseteq Pid
    BY <1>3, KInvFacts
  <2>2. current_task' \in Pid
    BY <1>1, <2>1, ScheduleProp DEF ListOK
  <2>3. TypeOK'
    BY <1>1, <2>2 DEF KInv, TypeOK
  <2>4. FreeSlotsClear'
    BY <1>1 DEF KInv, TaskListOK, FreeSlotsClear
  <2>5. QED
    BY <1>1, <2>1, <2>3, <2>4, RescheduleKeeps
<1>4. QED
  BY <1>2, <1>3

\* fork adds the youngest task at the end, runnable, and blocks the caller.
LEMMA ForkKeeps ==
  ASSUME KInv, Fork
  PROVE  KInv' /\ current_task' # NULL
<1> DEFINE np == next_pid
<1>1. /\ ListOK(ring, state, ppid, np)
      /\ current_task \in Elems(ring)
      /\ current_task \in Pid
      /\ Elems(ring) \subseteq Pid
      /\ \A t \in Elems(ring) : state[t] = RUNNING => t = current_task
  BY KInvFacts DEF Fork
<1>2. np \in Pid /\ \A u \in Elems(ring) : u < np
  BY <1>1, ProcessAssumption DEF KInv, TypeOK, Fork, Pid, ListOK
<1>3. /\ ring' \in Seq(Pid)
      /\ Ascending(ring')
      /\ Elems(ring') = Elems(ring) \cup {np}
  BY <1>1, <1>2, AddProp DEF Fork, ListOK
<1>4. np # current_task
  BY <1>1, <1>2, PidProp
<1>5. state' = [state EXCEPT ![np] = RUNNING, ![current_task] = BLOCKED]
  BY DEF Fork, fork_state
<1>6. /\ state'[np] = RUNNING
      /\ \A t \in Pid : t # np /\ t # current_task => state'[t] = state[t]
      /\ state'[current_task] = BLOCKED
  BY <1>1, <1>2, <1>4, <1>5 DEF KInv, TypeOK, RUNNING, BLOCKED
<1>7. \A t \in Elems(ring') : state'[t] = RUNNING => t = np
  BY <1>1, <1>3, <1>6 DEF RUNNING, BLOCKED
<1>8. ListOK(ring', state', ppid', next_pid')
  <2>1. \A t \in Pid : t \in Elems(ring') <=> state'[t] # FREE
    BY <1>1, <1>3, <1>6 DEF ListOK, RUNNING, BLOCKED, FREE
  <2>2. next_pid' = np + 1 /\ ppid' = [ppid EXCEPT ![np] = current_task]
    BY DEF Fork
  <2>3. \A t \in Elems(ring') : t < next_pid' /\ ppid'[t] < t
    BY <1>1, <1>2, <1>3, <2>2, PidProp DEF ListOK, KInv, TypeOK
  <2>4. QED
    BY <1>3, <2>1, <2>3 DEF ListOK
<1>9. AtMostOne(ring', state')
  BY <1>7 DEF AtMostOne
<1>10. current_task' \in Pid
  BY <1>1, <1>3, <1>8, <1>9, ScheduleProp, ListProp DEF Fork
<1>11. TypeOK'
  <2>1. next_pid' \in 2 .. MaxPid + 1
    BY ProcessAssumption DEF Fork, KInv, TypeOK
  <2>2. prog' \in [Pid -> Pid \cup {NULL}]
    BY <1>1, <1>2 DEF Fork, KInv, TypeOK
  <2>3. << >> \in Seq(0 .. Junk) /\ 0 \in 0 .. Pages
    BY ProcessAssumption
  <2>4. QED
    BY <1>1, <1>2, <1>3, <1>10, <2>1, <2>2, <2>3 DEF Fork, fork_state, KInv, TypeOK
<1>12. FreeSlotsClear'
  BY <1>1, <1>2, <1>6 DEF Fork, KInv, TypeOK, TaskListOK, FreeSlotsClear,
     RUNNING, BLOCKED, FREE
<1>13. QED
  BY <1>1, <1>3, <1>8, <1>9, <1>11, <1>12, RescheduleKeeps DEF Fork

\* A failing exec leaves the task list alone.
LEMMA ExecveFailsKeeps ==
  ASSUME KInv, ExecveFails
  PROVE  KInv' /\ current_task' # NULL
<1>1. /\ ListOK(ring, state, ppid, next_pid)
      /\ AtMostOne(ring, state)
      /\ current_task \in Elems(ring)
      /\ current_task \in Pid
      /\ Elems(ring) \subseteq Pid
      /\ \A t \in Elems(ring) : state[t] = RUNNING => t = current_task
  BY KInvFacts DEF ExecveFails
<1>2. current_task' \in Pid
  BY <1>1, ScheduleProp DEF ExecveFails, SyscallReturn, ListOK
<1>3. TypeOK'
  BY <1>2 DEF ExecveFails, KInv, TypeOK
<1>4. FreeSlotsClear'
  BY DEF ExecveFails, KInv, TaskListOK, FreeSlotsClear
<1>5. QED
  BY <1>1, <1>3, <1>4, ReturnKeeps DEF ExecveFails

\* An exec leaves the list alone, and its snapshot has its type.
LEMMA ExecveKeeps ==
  ASSUME KInv, NEW n \in 1 .. Pages, Execve(n)
  PROVE  KInv' /\ current_task' # NULL
<1>1. /\ ListOK(ring, state, ppid, next_pid)
      /\ AtMostOne(ring, state)
      /\ current_task \in Elems(ring)
      /\ current_task \in Pid
      /\ Elems(ring) \subseteq Pid
      /\ \A t \in Elems(ring) : state[t] = RUNNING => t = current_task
  BY KInvFacts DEF Execve
<1>2. current_task' \in Pid
  BY <1>1, ScheduleProp DEF Execve, SyscallReturn, ListOK
<1>3. Pid \subseteq 0 .. Junk
  BY ProcessAssumption DEF Pid, Junk
<1>4. img_snapshot' \in [Pid -> Seq(0 .. Junk)]
  <2>1. ASSUME TakesSnapshot PROVE ParentImage \in Seq(0 .. Junk)
    <3> DEFINE m == img_size[ppid[current_task]]
    <3>1. m \in 0 .. Pages
      BY <1>1, <2>1, KInvFacts DEF TakesSnapshot, KInv, TypeOK
    <3> HIDE DEF m
    <3>2. m \in Nat /\ \A i \in 1 .. m : image[i - 1] \in 0 .. Junk
      BY <3>1, ProcessAssumption DEF KInv, TypeOK, Page
    <3>3. ParentImage = [i \in 1 .. m |-> image[i - 1]]
      BY DEF ParentImage, m
    <3>4. [i \in 1 .. m |-> image[i - 1]] \in Seq(0 .. Junk)
      BY <3>2
    <3>5. QED
      BY <3>3, <3>4
  <2>2. QED
    BY <1>1, <2>1 DEF Execve, exec_snapshot, KInv, TypeOK
<1>5. image' \in [Page -> 0 .. Junk]
  BY <1>1, <1>3 DEF Execve, KInv, TypeOK
<1>6. img_size' \in [Pid -> 0 .. Pages]
  BY <1>1, ProcessAssumption DEF Execve, KInv, TypeOK
<1>7. prog' \in [Pid -> Pid \cup {NULL}]
  BY <1>1 DEF Execve, KInv, TypeOK
<1>8. TypeOK'
  BY <1>2, <1>4, <1>5, <1>6, <1>7 DEF Execve, KInv, TypeOK
<1>9. FreeSlotsClear'
  BY <1>1 DEF Execve, exec_snapshot, KInv, TypeOK, TaskListOK, FreeSlotsClear, ListOK
<1>10. QED
  BY <1>1, <1>8, <1>9, ReturnKeeps DEF Execve

\* task_exit leaves the dying task a zombie, can wake nobody but its parent,
\* and neither creates nor frees a task.
LEMMA ExitStateProp ==
  ASSUME KInv, current_task # NULL
  PROVE  /\ ExitState \in [Pid -> {RUNNING, ZOMBIE, BLOCKED, FREE}]
         /\ ExitState[current_task] = ZOMBIE
         /\ \A t \in Elems(ring) : ExitState[t] = RUNNING =>
              t = ppid[current_task] /\ state[t] = BLOCKED
         /\ \A t \in Pid : ExitState[t] = FREE <=> state[t] = FREE
         /\ \A t \in Pid \ {current_task, ppid[current_task]} :
              ExitState[t] = state[t]
<1> DEFINE c == current_task
           p == ppid[current_task]
           z == [state EXCEPT ![c] = ZOMBIE]
<1>1. /\ ListOK(ring, state, ppid, next_pid)
      /\ c \in Elems(ring)
      /\ c \in Pid
      /\ Queued = Elems(ring)
      /\ Elems(ring) \subseteq Pid
      /\ \A t \in Elems(ring) : state[t] = RUNNING => t = c
  BY KInvFacts
<1>2. state \in [Pid -> {RUNNING, ZOMBIE, BLOCKED, FREE}]
  BY DEF KInv, TypeOK
<1>3. /\ z \in [Pid -> {RUNNING, ZOMBIE, BLOCKED, FREE}]
      /\ z[c] = ZOMBIE
      /\ \A t \in Pid : t # c => z[t] = state[t]
  BY <1>1, <1>2
<1>4. p < c /\ p # c
  BY <1>1, PidProp DEF ListOK, KInv, TypeOK, NULL
<1>5. state[c] # FREE
  BY <1>1 DEF ListOK
<1> HIDE DEF c, z, p
<1>6. CASE p # NULL /\ p \in Queued /\ z[p] = BLOCKED
  <2>1. ExitState = [z EXCEPT ![p] = RUNNING]
    BY <1>6 DEF ExitState, unblock_parent_of, z, p, c
  <2>2. p \in Pid /\ state[p] = BLOCKED
    BY <1>1, <1>3, <1>4, <1>6
  <2>3. /\ ExitState \in [Pid -> {RUNNING, ZOMBIE, BLOCKED, FREE}]
        /\ ExitState[p] = RUNNING
        /\ \A t \in Pid : t # p => ExitState[t] = z[t]
    BY <1>3, <2>1, <2>2
  <2>4. QED
    BY <1>1, <1>3, <1>4, <1>5, <2>2, <2>3 DEF c, p, RUNNING, ZOMBIE, BLOCKED, FREE
<1>7. CASE ~(p # NULL /\ p \in Queued /\ z[p] = BLOCKED)
  <2>1. ExitState = z
    BY <1>7 DEF ExitState, unblock_parent_of, z, p, c
  <2>2. QED
    BY <1>1, <1>3, <1>5, <2>1 DEF c, p, RUNNING, ZOMBIE, BLOCKED, FREE
<1>8. QED
  BY <1>6, <1>7

\* The fields task_exit writes keep their types, and orphans get an older parent.
LEMMA TaskExitProp ==
  ASSUME KInv, current_task # NULL, NEW status \in Nat, task_exit(status)
  PROVE  /\ exit_code' \in [Pid -> Nat]
         /\ image' \in [Page -> 0 .. Junk]
         /\ img_snapshot' \in [Pid -> Seq(0 .. Junk)]
         /\ ppid' \in [Pid -> Pid \cup {NULL}]
         /\ \A t \in Elems(ring) : ppid'[t] < t
         /\ \A t \in Pid : state[t] = FREE =>
              ppid'[t] = NULL /\ exit_code'[t] = 0 /\ img_snapshot'[t] = << >>
<1>1. /\ ListOK(ring, state, ppid, next_pid)
      /\ current_task \in Elems(ring)
      /\ current_task \in Pid
      /\ Queued = Elems(ring)
      /\ Elems(ring) \subseteq Pid
  BY KInvFacts
<1>2. exit_code' \in [Pid -> Nat]
  BY <1>1 DEF task_exit, KInv, TypeOK
<1>3. img_snapshot' \in [Pid -> Seq(0 .. Junk)]
  BY <1>1 DEF task_exit, KInv, TypeOK
<1>4. image' \in [Page -> 0 .. Junk]
  <2> DEFINE snap == img_snapshot[current_task]
  <2>1. snap \in Seq(0 .. Junk) /\ Junk \in 0 .. Junk
    BY <1>1, ProcessAssumption DEF KInv, TypeOK, Junk
  <2> HIDE DEF snap
  <2>2. CASE snap = << >>
    BY <2>2 DEF task_exit, restored, KInv, TypeOK, snap
  <2>3. CASE snap # << >>
    <3>1. image' = [p \in Page |->
              IF p >= img_size[current_task] THEN image[p]
              ELSE IF p < Len(snap) THEN snap[p + 1] ELSE Junk]
      BY <2>3 DEF task_exit, restored, snap
    <3>2. \A p \in Page : p < Len(snap) => snap[p + 1] \in 0 .. Junk
      BY <2>1, ProcessAssumption DEF Page
    <3>3. QED
      BY <2>1, <3>1, <3>2 DEF KInv, TypeOK
  <2>4. QED
    BY <2>2, <2>3
<1>5. ppid' = [t \in Pid |-> IF t \in Elems(ring) /\ ppid[t] = current_task
                             THEN ppid[current_task] ELSE ppid[t]]
  BY <1>1 DEF task_exit, reparented
<1>6. ppid' \in [Pid -> Pid \cup {NULL}]
  BY <1>1, <1>5 DEF KInv, TypeOK
<1>7. ASSUME NEW t \in Elems(ring) PROVE ppid'[t] < t
  <2>1. /\ ppid[t] < t
        /\ ppid[current_task] < current_task
    BY <1>1 DEF ListOK
  <2>2. /\ t \in Nat /\ current_task \in Nat
        /\ ppid[t] \in Nat /\ ppid[current_task] \in Nat
    <3>1. ppid[t] \in Pid \cup {NULL} /\ ppid[current_task] \in Pid \cup {NULL} /\ t \in Pid
      BY <1>1 DEF KInv, TypeOK
    <3>2. QED
      BY <1>1, <3>1, PidProp
  <2>3. QED
    BY <1>1, <1>5, <2>1, <2>2
<1>8. ASSUME NEW t \in Pid, state[t] = FREE
      PROVE  ppid'[t] = NULL /\ exit_code'[t] = 0 /\ img_snapshot'[t] = << >>
  <2>1. t \notin Elems(ring) /\ t # current_task
    BY <1>1, <1>8 DEF ListOK
  <2>2. ppid[t] = NULL /\ exit_code[t] = 0 /\ img_snapshot[t] = << >>
    BY <1>8 DEF KInv, TaskListOK, FreeSlotsClear
  <2>3. QED
    BY <1>5, <2>1, <2>2 DEF task_exit, KInv, TypeOK
<1>9. QED
  BY <1>2, <1>3, <1>4, <1>6, <1>7, <1>8

\* exit and faults keep the list sound, with and without a new init.
LEMMA DieKeeps ==
  ASSUME KInv, NEW status \in Nat, Die(status)
  PROVE  KInv' /\ current_task' # NULL
<1>1. /\ ListOK(ring, state, ppid, next_pid)
      /\ current_task \in Elems(ring)
      /\ current_task \in Pid
      /\ Elems(ring) \subseteq Pid
  BY KInvFacts DEF Die
<1>2. /\ exit_code' \in [Pid -> Nat]
      /\ image' \in [Page -> 0 .. Junk]
      /\ img_snapshot' \in [Pid -> Seq(0 .. Junk)]
      /\ ppid' \in [Pid -> Pid \cup {NULL}]
      /\ \A t \in Elems(ring) : ppid'[t] < t
      /\ \A t \in Pid : state[t] = FREE =>
           ppid'[t] = NULL /\ exit_code'[t] = 0 /\ img_snapshot'[t] = << >>
  BY TaskExitProp DEF Die
<1>3. /\ ExitState \in [Pid -> {RUNNING, ZOMBIE, BLOCKED, FREE}]
      /\ \A t \in Elems(ring) : ExitState[t] = RUNNING => t = ppid[current_task]
      /\ \A t \in Pid : ExitState[t] = FREE <=> state[t] = FREE
  BY ExitStateProp DEF Die
<1>4. current_task' = schedule(ring', current_task, state') /\ UNCHANGED <<img_size, prog>>
  BY DEF Die
<1>5. CASE Respawns
  <2> DEFINE np == next_pid
  <2>1. /\ next_pid <= MaxPid
        /\ ring' = add_task(ring, np)
        /\ state' = [ExitState EXCEPT ![np] = RUNNING]
        /\ next_pid' = np + 1
    BY <1>5 DEF Die, respawn_user_shell, create_user_task
  <2>2. np \in Pid /\ np \in Nat /\ \A u \in Elems(ring) : u < np
    BY <1>1, <2>1, ProcessAssumption DEF KInv, TypeOK, Pid, ListOK
  <2>3. /\ ring' \in Seq(Pid)
        /\ Ascending(ring')
        /\ Elems(ring') = Elems(ring) \cup {np}
    BY <1>1, <2>1, <2>2, AddProp DEF ListOK
  <2>4. /\ state' \in [Pid -> {RUNNING, ZOMBIE, BLOCKED, FREE}]
        /\ state'[np] = RUNNING
        /\ \A t \in Pid : t # np => state'[t] = ExitState[t]
    BY <1>3, <2>1, <2>2
  <2>5. \A t \in Elems(ring) : ExitState[t] # RUNNING
    <3>1. ppid[current_task] \notin Elems(ring)
      BY <1>1, <1>5, PidProp DEF Respawns
    <3>2. QED
      BY <1>3, <3>1
  <2>6. AtMostOne(ring', state')
    BY <1>1, <2>3, <2>4, <2>5 DEF AtMostOne
  <2>7. ppid'[np] = NULL /\ NULL < np
    <3>1. state[np] = FREE
      BY <1>1, <2>2 DEF ListOK
    <3>2. QED
      BY <1>2, <2>2, <3>1, PidProp DEF NULL
  <2>8. ListOK(ring', state', ppid', next_pid')
    <3>1. \A t \in Pid : t \in Elems(ring') <=> state'[t] # FREE
      BY <1>1, <1>3, <2>2, <2>3, <2>4 DEF ListOK, RUNNING, FREE
    <3>2. \A t \in Elems(ring') : t < next_pid' /\ ppid'[t] < t
      BY <1>1, <1>2, <2>1, <2>2, <2>3, <2>7, PidProp DEF ListOK
    <3>3. QED
      BY <2>3, <3>1, <3>2 DEF ListOK
  <2>9. current_task' \in Pid
    BY <1>1, <1>4, <2>3, <2>6, <2>8, ScheduleProp, ListProp
  <2>10. next_pid' \in 2 .. MaxPid + 1
    BY <2>1, ProcessAssumption DEF KInv, TypeOK
  <2>11. TypeOK'
    BY <1>2, <1>4, <2>3, <2>4, <2>9, <2>10 DEF KInv, TypeOK
  <2>12. FreeSlotsClear'
    BY <1>2, <1>3, <1>4, <2>2, <2>4 DEF KInv, TaskListOK, FreeSlotsClear, RUNNING, FREE
  <2>13. QED
    BY <1>1, <1>4, <2>3, <2>6, <2>8, <2>11, <2>12, RescheduleKeeps
<1>6. CASE ~Respawns
  <2>1. state' = ExitState /\ UNCHANGED <<ring, next_pid>>
    BY <1>6 DEF Die
  <2>2. AtMostOne(ring', state')
    BY <1>3, <2>1 DEF AtMostOne
  <2>3. ListOK(ring', state', ppid', next_pid')
    BY <1>1, <1>2, <1>3, <2>1 DEF ListOK
  <2>4. current_task' \in Pid
    BY <1>1, <1>4, <2>1, <2>2, <2>3, ScheduleProp DEF ListOK
  <2>5. TypeOK'
    BY <1>2, <1>3, <1>4, <2>1, <2>4 DEF KInv, TypeOK
  <2>6. FreeSlotsClear'
    BY <1>2, <1>3, <1>4, <2>1 DEF KInv, TaskListOK, FreeSlotsClear
  <2>7. QED
    BY <1>1, <1>4, <2>1, <2>2, <2>3, <2>5, <2>6, RescheduleKeeps
<1>7. QED
  BY <1>5, <1>6

\* A nonempty set of numbers has a smallest element.
LEMMA SmallestExists ==
  ASSUME NEW S \in SUBSET Nat, S # {}
  PROVE  \E i \in S : \A j \in S : i <= j
<1> DEFINE R == OpToRel(<, Nat)
<1>1. IsWellFoundedOn(R, Nat)
  BY NatLessThanWellFounded
<1>2. \A x, y \in Nat : y < x => <<y, x>> \in R
  BY DEF OpToRel
<1> HIDE DEF R
<1>3. PICK x \in S : \A y \in S : ~ (<<y, x>> \in R)
  BY <1>1, WFMin
<1>4. ASSUME NEW y \in S PROVE x <= y
  <2>1. x \in Nat /\ y \in Nat
    OBVIOUS
  <2>2. ~ (y < x)
    BY <1>2, <1>3, <2>1
  <2>3. QED
    BY <2>1, <2>2
<1>5. QED
  BY <1>4

\* What a wait4 that finds a zombie child removes.
LEMMA FoundProp ==
  ASSUME KInv, current_task # NULL,
         NEW zombies, zombies # {},
         zombies \subseteq {i \in DOMAIN ring : /\ ppid[ring[i]] = current_task
                                                /\ state[ring[i]] = ZOMBIE},
         NEW found, found = ring[CHOOSE i \in zombies : \A j \in zombies : i <= j]
  PROVE  /\ found \in Elems(ring)
         /\ found \in Pid
         /\ found # current_task
         /\ state[found] = ZOMBIE
         /\ ppid[found] = current_task
<1> DEFINE k == CHOOSE i \in zombies : \A j \in zombies : i <= j
<1>1. /\ ring \in Seq(Pid)
      /\ Elems(ring) \subseteq Pid
      /\ current_task \in Pid
      /\ \A t \in Elems(ring) : ppid[t] < t
  BY KInvFacts DEF ListOK
<1>2. zombies \subseteq Nat
  <2>1. DOMAIN ring \subseteq Nat
    BY <1>1
  <2>2. QED
    BY <2>1
<1>3. \E i \in zombies : \A j \in zombies : i <= j
  BY <1>2, SmallestExists
<1>4. k \in zombies
  BY <1>3
<1>5. /\ found \in Elems(ring)
      /\ state[found] = ZOMBIE
      /\ ppid[found] = current_task
  BY <1>4 DEF Elems
<1>6. QED
  BY <1>1, <1>5, PidProp

\* wait4 unlinks a zombie, never the current task, and clears its slot.
LEMMA Wait4Keeps ==
  ASSUME KInv, NEW pid, NEW wnohang, Wait4(pid, wnohang)
  PROVE  KInv' /\ current_task' # NULL
<1> DEFINE zombies == {i \in Children(pid) : state[ring[i]] = ZOMBIE}
           found == ring[CHOOSE i \in zombies : \A j \in zombies : i <= j]
<1>1. /\ ListOK(ring, state, ppid, next_pid)
      /\ AtMostOne(ring, state)
      /\ current_task \in Elems(ring)
      /\ current_task \in Pid
      /\ Elems(ring) \subseteq Pid
      /\ \A t \in Elems(ring) : state[t] = RUNNING => t = current_task
  BY KInvFacts DEF Wait4
<1>2. CASE zombies # {}
  <2>1. zombies \subseteq {i \in DOMAIN ring : /\ ppid[ring[i]] = current_task
                                               /\ state[ring[i]] = ZOMBIE}
    BY DEF Children
  <2>2. current_task # NULL
    BY DEF Wait4
  <2>3. /\ ring' = remove_task(ring, found)
        /\ state' = [state EXCEPT ![found] = FREE]
        /\ ppid' = [ppid EXCEPT ![found] = NULL]
        /\ exit_code' = [exit_code EXCEPT ![found] = 0]
        /\ img_size' = [img_size EXCEPT ![found] = 0]
        /\ img_snapshot' = [img_snapshot EXCEPT ![found] = << >>]
        /\ prog' = [prog EXCEPT ![found] = NULL]
        /\ current_task' = SyscallReturn(ring', state')
        /\ UNCHANGED <<next_pid, image>>
    BY <1>2 DEF Wait4
  <2> HIDE DEF zombies
  <2>4. /\ found \in Elems(ring)
        /\ found \in Pid
        /\ found # current_task
    BY <1>2, <2>1, <2>2, FoundProp
  <2> HIDE DEF found
  <2>5. /\ ring' \in Seq(Pid)
        /\ Ascending(ring')
        /\ Elems(ring') = Elems(ring) \ {found}
    BY <1>1, <2>3, <2>4, RemoveProp DEF ListOK
  <2>6. /\ state' \in [Pid -> {RUNNING, ZOMBIE, BLOCKED, FREE}]
        /\ state'[found] = FREE
        /\ \A t \in Pid : t # found => state'[t] = state[t]
    BY <2>3, <2>4 DEF KInv, TypeOK
  <2>7. ListOK(ring', state', ppid', next_pid')
    <3>1. \A t \in Pid : t \in Elems(ring') <=> state'[t] # FREE
      BY <1>1, <2>4, <2>5, <2>6 DEF ListOK
    <3>2. \A t \in Elems(ring') : t < next_pid' /\ ppid'[t] < t
      BY <1>1, <2>3, <2>5 DEF ListOK, KInv, TypeOK
    <3>3. QED
      BY <2>5, <3>1, <3>2 DEF ListOK
  <2>8. \A t \in Elems(ring') : state'[t] = RUNNING => t = current_task
    BY <1>1, <2>5, <2>6
  <2>9. current_task' \in Pid
    <3>1. AtMostOne(ring', state')
      BY <2>8 DEF AtMostOne
    <3>2. current_task \in Elems(ring')
      BY <1>1, <2>4, <2>5
    <3>3. schedule(ring', current_task, state') \in Elems(ring')
      BY <2>5, <3>1, <3>2, ScheduleProp
    <3>4. QED
      BY <1>1, <2>3, <2>5, <3>3 DEF SyscallReturn
  <2>10. << >> \in Seq(0 .. Junk) /\ 0 \in 0 .. Pages /\ 0 \in Nat
    BY ProcessAssumption
  <2>11. TypeOK'
    BY <2>3, <2>4, <2>5, <2>6, <2>9, <2>10 DEF KInv, TypeOK
  <2>12. FreeSlotsClear'
    BY <2>3, <2>4, <2>6 DEF KInv, TypeOK, TaskListOK, FreeSlotsClear
  <2>13. QED
    BY <1>1, <2>2, <2>3, <2>4, <2>5, <2>7, <2>8, <2>11, <2>12, ReturnKeeps
<1>3. CASE zombies = {}
  <2>1. /\ UNCHANGED <<ring, state, ppid, exit_code, img_size, img_snapshot,
                       prog, next_pid, image>>
        /\ \/ current_task' = schedule(ring', current_task, state')
           \/ current_task' = SyscallReturn(ring', state')
        /\ current_task # NULL
    BY <1>3 DEF Wait4
  <2>2. current_task' \in Pid
    BY <1>1, <2>1, ScheduleProp DEF SyscallReturn, ListOK
  <2>3. TypeOK'
    BY <2>1, <2>2 DEF KInv, TypeOK
  <2>4. FreeSlotsClear'
    BY <2>1 DEF KInv, TaskListOK, FreeSlotsClear
  <2>5. QED
    BY <1>1, <2>1, <2>3, <2>4, RescheduleKeeps, ReturnKeeps
<1>4. QED
  BY <1>2, <1>3

\* A task that kills itself wakes its parent and nobody else.
LEMMA KillSelfKeeps ==
  ASSUME KInv, NEW sig \in Signals, KillSelf(sig)
  PROVE  KInv' /\ current_task' # NULL
<1>1. /\ ListOK(ring, state, ppid, next_pid)
      /\ current_task \in Elems(ring)
      /\ Elems(ring) \subseteq Pid
  BY KInvFacts DEF KillSelf
<1>2. 128 + sig \in Nat
  BY ProcessAssumption
<1>3. /\ exit_code' \in [Pid -> Nat]
      /\ image' \in [Page -> 0 .. Junk]
      /\ img_snapshot' \in [Pid -> Seq(0 .. Junk)]
      /\ ppid' \in [Pid -> Pid \cup {NULL}]
      /\ \A t \in Elems(ring) : ppid'[t] < t
      /\ \A t \in Pid : state[t] = FREE =>
           ppid'[t] = NULL /\ exit_code'[t] = 0 /\ img_snapshot'[t] = << >>
  BY <1>2, TaskExitProp DEF KillSelf
<1>4. /\ ExitState \in [Pid -> {RUNNING, ZOMBIE, BLOCKED, FREE}]
      /\ \A t \in Elems(ring) : ExitState[t] = RUNNING => t = ppid[current_task]
      /\ \A t \in Pid : ExitState[t] = FREE <=> state[t] = FREE
  BY ExitStateProp DEF KillSelf
<1>5. /\ state' = ExitState
      /\ current_task' = schedule(ring', current_task, state')
      /\ UNCHANGED <<ring, next_pid, img_size, prog>>
  BY DEF KillSelf
<1>6. AtMostOne(ring', state')
  BY <1>4, <1>5 DEF AtMostOne
<1>7. ListOK(ring', state', ppid', next_pid')
  BY <1>1, <1>3, <1>4, <1>5 DEF ListOK
<1>8. current_task' \in Pid
  BY <1>1, <1>5, <1>6, <1>7, ScheduleProp DEF ListOK
<1>9. TypeOK'
  BY <1>3, <1>4, <1>5, <1>8 DEF KInv, TypeOK
<1>10. FreeSlotsClear'
  BY <1>3, <1>4, <1>5 DEF KInv, TaskListOK, FreeSlotsClear
<1>11. QED
  BY <1>1, <1>5, <1>6, <1>7, <1>9, <1>10, RescheduleKeeps

\* Marking another task dead makes nobody runnable.
LEMMA KillOtherKeeps ==
  ASSUME KInv, NEW t \in Pid, NEW sig \in Signals, KillOther(t, sig)
  PROVE  KInv' /\ current_task' # NULL
<1>1. /\ ListOK(ring, state, ppid, next_pid)
      /\ current_task \in Elems(ring)
      /\ Elems(ring) \subseteq Pid
      /\ Queued = Elems(ring)
      /\ \A u \in Elems(ring) : state[u] = RUNNING => u = current_task
  BY KInvFacts DEF KillOther
<1>2. 128 + sig \in Nat
  BY ProcessAssumption
<1>3. /\ state' \in [Pid -> {RUNNING, ZOMBIE, BLOCKED, FREE}]
      /\ state'[t] = ZOMBIE
      /\ \A u \in Pid : u # t => state'[u] = state[u]
      /\ t \in Elems(ring)
      /\ state[t] # FREE
  BY <1>1 DEF KillOther, KInv, TypeOK, ListOK
<1>4. ListOK(ring', state', ppid', next_pid')
  BY <1>1, <1>3 DEF KillOther, ListOK, ZOMBIE, FREE
<1>5. \A u \in Elems(ring') : state'[u] = RUNNING => u = current_task
  BY <1>1, <1>3 DEF KillOther, ZOMBIE, RUNNING
<1>6. current_task' \in Pid
  <2>1. AtMostOne(ring', state')
    BY <1>5 DEF AtMostOne
  <2>2. schedule(ring', current_task, state') \in Elems(ring')
    BY <1>1, <1>4, <2>1, ScheduleProp DEF ListOK, KillOther
  <2>3. QED
    BY <1>1, <2>2 DEF SyscallReturn, KillOther
<1>7. TypeOK'
  BY <1>2, <1>3, <1>6 DEF KillOther, KInv, TypeOK
<1>8. FreeSlotsClear'
  BY <1>3 DEF KillOther, KInv, TypeOK, TaskListOK, FreeSlotsClear, ZOMBIE, FREE
<1>9. QED
  BY <1>1, <1>4, <1>5, <1>7, <1>8, ReturnKeeps DEF KillOther

\* The invariant holds at boot.
LEMMA InitKInv == Init => KInv
<1> SUFFICES ASSUME Init PROVE KInv
  OBVIOUS
<1>1. 1 \in Pid /\ NULL = 0
  BY ProcessAssumption DEF Pid, NULL
<1>2. Queued = {1}
  BY DEF Init, Queued
<1>3. ring \in Seq(Pid)
  BY <1>1 DEF Init
<1>4. 0 \in 0 .. Junk /\ << >> \in Seq(0 .. Junk) /\ 0 \in 0 .. Pages
  BY ProcessAssumption DEF Junk
<1>5. next_pid \in 2 .. MaxPid + 1
  BY ProcessAssumption DEF Init
<1>6. TypeOK
  BY <1>1, <1>3, <1>4, <1>5 DEF Init, TypeOK
<1>7. TaskListOK
  BY <1>1, <1>2 DEF Init, TaskListOK, FreeSlotsClear, RUNNING, FREE
<1>8. OnlyCurrentRuns
  BY DEF Init, OnlyCurrentRuns
<1>9. QED
  BY <1>6, <1>7, <1>8 DEF KInv

\* Every step of every program keeps it.
LEMMA NextKInv == KInv /\ [KillNext]_vars => KInv'
<1> SUFFICES ASSUME KInv, [KillNext]_vars PROVE KInv'
  OBVIOUS
<1>1. CASE TimerTick
  BY <1>1, TickKeeps
<1>2. CASE Fork
  BY <1>2, ForkKeeps
<1>3. CASE \E n \in 1 .. Pages : Execve(n)
  BY <1>3, ExecveKeeps
<1>4. CASE ExecveFails
  BY <1>4, ExecveFailsKeeps
<1>5. CASE \E c \in ExitCodes : Exit(c)
  BY <1>5, DieKeeps, ProcessAssumption DEF Exit
<1>6. CASE Fault
  BY <1>6, DieKeeps DEF Fault
<1>7. CASE \E p \in Pid \cup {-1}, wnohang \in BOOLEAN : Wait4(p, wnohang)
  BY <1>7, Wait4Keeps
<1>8. CASE Kill
  BY <1>8, KillSelfKeeps, KillOtherKeeps DEF Kill
<1>9. CASE UNCHANGED vars
  BY <1>9 DEF vars, KInv, TypeOK, TaskListOK, FreeSlotsClear, OnlyCurrentRuns, Queued
<1>10. QED
  BY <1>1, <1>2, <1>3, <1>4, <1>5, <1>6, <1>7, <1>8, <1>9 DEF KillNext, Next

\* Whatever programs do, kill(2) included, the task structures keep their types.
THEOREM TypeCorrect == KillSpec => []TypeOK
<1>1. KInv => TypeOK
  BY DEF KInv
<1>2. QED
  BY <1>1, InitKInv, NextKInv, PTL DEF KillSpec

\* The circular list stays a list of distinct live task_t's in pid order, the
\* current task is on it, and parents are older than their children.
THEOREM TaskListSound == KillSpec => []TaskListOK
<1>1. KInv => TaskListOK
  BY DEF KInv
<1>2. QED
  BY <1>1, InitKInv, NextKInv, PTL DEF KillSpec

\* No program can make two tasks runnable, or leave a runnable task waiting
\* behind the current one.
THEOREM OneTaskRuns == KillSpec => []OnlyCurrentRuns
<1>1. KInv => OnlyCurrentRuns
  BY DEF KInv
<1>2. QED
  BY <1>1, InitKInv, NextKInv, PTL DEF KillSpec

---------------------------------------------------------------------------
(* Programs that do not call kill: the chain of naps. *)

\* Before the first tick init is ready to be resumed.
BootReady == current_task = NULL => state[1] = RUNNING

\* The inductive invariant of Spec.
SInv == KInv /\ BootReady /\ ResumedIsRunning /\ ForkChain /\ ZombieHasReaper

\* A step that leaves a RUNNING task leaves it in charge of the CPU.
LEMMA RunnerResumed ==
  ASSUME KInv', current_task' # NULL, NEW r \in Queued', state'[r] = RUNNING
  PROVE  BootReady' /\ ResumedIsRunning' /\ current_task' = r
<1>1. r = current_task'
  BY DEF KInv, OnlyCurrentRuns
<1>2. QED
  BY <1>1 DEF BootReady, ResumedIsRunning

\* A step that changes no task and no parent keeps the chain.
LEMMA SameChain ==
  ASSUME SInv, UNCHANGED <<ring, state, ppid>>
  PROVE  ForkChain' /\ ZombieHasReaper'
BY DEF SInv, ForkChain, ZombieHasReaper, Live, Queued

\* The list as sets, as the chain speaks of it.
LEMMA ChainFacts ==
  ASSUME SInv, current_task # NULL
  PROVE  /\ KInv
         /\ state[current_task] = RUNNING
         /\ current_task \in Queued
         /\ current_task \in Live
         /\ Queued \subseteq Pid
         /\ state \in [Pid -> {RUNNING, ZOMBIE, BLOCKED, FREE}]
         /\ ppid \in [Pid -> Pid \cup {NULL}]
         /\ \A t \in Queued : state[t] # FREE /\ t < next_pid /\ ppid[t] < t /\ t \in Nat
         /\ \A t \in Queued : state[t] = RUNNING => t = current_task
         /\ \A t \in Queued : ppid[t] = current_task => state[t] = ZOMBIE
<1>1. /\ KInv
      /\ state[current_task] = RUNNING
  BY DEF SInv, ResumedIsRunning
<1>2. /\ current_task \in Queued
      /\ Queued \subseteq Pid
      /\ \A t \in Queued : state[t] # FREE /\ t < next_pid /\ ppid[t] < t /\ t \in Nat
      /\ \A t \in Queued : state[t] = RUNNING => t = current_task
  BY <1>1, KInvFacts, PidProp DEF ListOK
<1>3. /\ state \in [Pid -> {RUNNING, ZOMBIE, BLOCKED, FREE}]
      /\ ppid \in [Pid -> Pid \cup {NULL}]
  BY <1>1 DEF KInv, TypeOK
<1>4. current_task \in Live
  BY <1>1, <1>2 DEF Live, RUNNING, ZOMBIE
<1>5. \A t \in Queued : ppid[t] = current_task => state[t] = ZOMBIE
  BY <1>1 DEF SInv, ForkChain, Live, RUNNING, BLOCKED
<1>6. QED
  BY <1>1, <1>2, <1>3, <1>4, <1>5

\* add_task of a fresh pid, seen as a set.
LEMMA AddQueued ==
  ASSUME KInv, next_pid \in Pid, ring' = add_task(ring, next_pid)
  PROVE  Queued' = Queued \cup {next_pid} /\ next_pid \notin Queued
<1>1. /\ ring \in Seq(Pid)
      /\ Ascending(ring)
      /\ Elems(ring) = Queued
      /\ \A u \in Elems(ring) : u < next_pid
  BY KInvFacts DEF ListOK
<1>2. Elems(add_task(ring, next_pid)) = Elems(ring) \cup {next_pid}
  BY <1>1, AddProp
<1>3. Queued' = Elems(ring')
  BY DEF Queued, Elems
<1>4. next_pid \notin Queued
  BY <1>1, PidProp
<1>5. QED
  BY <1>1, <1>2, <1>3, <1>4

\* The timer leaves the chain of naps as it is.
LEMMA TickChain ==
  ASSUME SInv, TimerTick
  PROVE  SInv'
<1>1. KInv' /\ current_task' # NULL
  BY TickKeeps DEF SInv
<1>2. UNCHANGED <<ring, state, ppid>>
  BY DEF TimerTick
<1>3. \E r \in Queued' : state'[r] = RUNNING
  <2>1. CASE current_task = NULL
    BY <1>2, <2>1 DEF SInv, KInv, TaskListOK, BootReady, Queued
  <2>2. CASE current_task # NULL
    BY <1>2, <2>2, ChainFacts DEF Queued
  <2>3. QED
    BY <2>1, <2>2
<1>4. QED
  BY <1>1, <1>2, <1>3, RunnerResumed, SameChain DEF SInv

\* fork lengthens the chain of naps by the child.
LEMMA ForkChainKept ==
  ASSUME SInv, Fork
  PROVE  SInv'
<1> DEFINE np == next_pid
           c == current_task
<1>1. KInv' /\ current_task' # NULL
  BY ForkKeeps DEF SInv
<1>2. /\ KInv
      /\ c # NULL
      /\ state[c] = RUNNING
      /\ c \in Queued
      /\ Queued \subseteq Pid
      /\ state \in [Pid -> {RUNNING, ZOMBIE, BLOCKED, FREE}]
      /\ ppid \in [Pid -> Pid \cup {NULL}]
      /\ \A t \in Queued : state[t] # FREE /\ t < np /\ t \in Nat
      /\ \A t \in Queued : state[t] = RUNNING => t = c
      /\ \A t \in Queued : ppid[t] = c => state[t] = ZOMBIE
  BY ChainFacts DEF Fork
<1>3. np \in Pid /\ np \notin Queued
  BY <1>2, ProcessAssumption DEF Fork, KInv, TypeOK, Pid
<1>4. Queued' = Queued \cup {np}
  BY <1>2, <1>3, AddQueued DEF Fork
<1>5. /\ state'[np] = RUNNING
      /\ state'[c] = BLOCKED
      /\ \A t \in Pid : t # np /\ t # c => state'[t] = state[t]
      /\ ppid'[np] = c
      /\ \A t \in Pid : t # np => ppid'[t] = ppid[t]
  BY <1>2, <1>3 DEF Fork, fork_state
<1>6. Live' = Live \cup {np}
  BY <1>2, <1>3, <1>4, <1>5 DEF Live, RUNNING, BLOCKED, ZOMBIE
<1> HIDE DEF np, c
<1>7. ForkChain'
  <2>1. ASSUME NEW t \in Live', ppid'[t] # NULL
        PROVE  ppid'[t] \in Queued' /\ state'[ppid'[t]] = BLOCKED
    <3>1. CASE t = np
      BY <1>2, <1>4, <1>5, <3>1
    <3>2. CASE t \in Live /\ t # np
      <4>1. ppid'[t] = ppid[t]
        BY <1>2, <1>5, <3>2 DEF Live
      <4>2. ppid[t] \in Queued /\ state[ppid[t]] = BLOCKED
        BY <2>1, <3>2, <4>1 DEF SInv, ForkChain
      <4>3. QED
        BY <1>2, <1>3, <1>4, <1>5, <4>1, <4>2
    <3>3. QED
      BY <1>6, <3>1, <3>2
  <2>2. ASSUME NEW t \in Live', NEW u \in Live', ppid'[t] = ppid'[u], ppid'[t] # NULL
        PROVE  t = u
    <3>1. \A x \in Live : ppid'[x] = ppid[x] /\ ppid[x] # c
      BY <1>2, <1>3, <1>5 DEF Live
    <3>2. QED
      BY <1>5, <1>6, <2>2, <3>1 DEF SInv, ForkChain
  <2>3. ASSUME NEW t \in Queued', state'[t] = BLOCKED
        PROVE  \E u \in Live' : ppid'[u] = t
    <3>1. CASE t = c
      BY <1>5, <1>6, <3>1
    <3>2. CASE t # c
      <4>1. t \in Queued /\ state[t] = BLOCKED
        BY <1>2, <1>4, <1>5, <2>3, <3>2 DEF RUNNING, BLOCKED
      <4>2. PICK u \in Live : ppid[u] = t
        BY <4>1 DEF SInv, ForkChain
      <4>3. QED
        BY <1>2, <1>3, <1>5, <1>6, <4>2 DEF Live
    <3>3. QED
      BY <3>1, <3>2
  <2>4. QED
    BY <2>1, <2>2, <2>3 DEF ForkChain
<1>8. ZombieHasReaper'
  <2> SUFFICES ASSUME NEW t \in Queued', state'[t] = ZOMBIE, ppid'[t] # NULL
               PROVE  ppid'[t] \in Live'
    BY DEF ZombieHasReaper
  <2>1. t \in Queued /\ state[t] = ZOMBIE /\ ppid'[t] = ppid[t]
    BY <1>2, <1>3, <1>4, <1>5 DEF RUNNING, BLOCKED, ZOMBIE
  <2>2. QED
    BY <1>6, <2>1 DEF SInv, ZombieHasReaper
<1>9. np \in Queued'
  BY <1>4
<1>10. QED
  BY <1>1, <1>5, <1>7, <1>8, <1>9, RunnerResumed DEF SInv

\* An exec leaves the chain of naps as it is.
LEMMA ExecveChain ==
  ASSUME SInv, NEW n \in 1 .. Pages, Execve(n)
  PROVE  SInv'
<1>1. KInv' /\ current_task' # NULL
  BY ExecveKeeps DEF SInv
<1>2. UNCHANGED <<ring, state, ppid>> /\ current_task # NULL
  BY DEF Execve
<1>3. current_task \in Queued' /\ state'[current_task] = RUNNING
  BY <1>2, ChainFacts DEF Queued
<1>4. QED
  BY <1>1, <1>2, <1>3, RunnerResumed, SameChain DEF SInv

\* A failing exec leaves the chain of naps as it is.
LEMMA ExecveFailsChain ==
  ASSUME SInv, ExecveFails
  PROVE  SInv'
<1>1. KInv' /\ current_task' # NULL
  BY ExecveFailsKeeps DEF SInv
<1>2. UNCHANGED <<ring, state, ppid>> /\ current_task # NULL
  BY DEF ExecveFails
<1>3. current_task \in Queued' /\ state'[current_task] = RUNNING
  BY <1>2, ChainFacts DEF Queued
<1>4. QED
  BY <1>1, <1>2, <1>3, RunnerResumed, SameChain DEF SInv

\* The chain as a dying task finds it.
LEMMA DieFacts ==
  ASSUME SInv, NEW status \in Nat, Die(status)
  PROVE  /\ KInv
         /\ current_task # NULL
         /\ state[current_task] = RUNNING
         /\ current_task \in Queued
         /\ current_task \in Pid
         /\ current_task \in Live
         /\ Queued \subseteq Pid
         /\ ppid \in [Pid -> Pid \cup {NULL}]
         /\ \A t \in Queued : state[t] # FREE /\ t < next_pid /\ t \in Nat
         /\ \A t \in Queued : state[t] = RUNNING => t = current_task
         /\ \A t \in Queued : ppid[t] = current_task => state[t] = ZOMBIE
         /\ ppid[current_task] < current_task
         /\ \A t \in Queued : ppid'[t] = IF ppid[t] = current_task
                                         THEN ppid[current_task] ELSE ppid[t]
         /\ \A t \in Live : ppid[t] # current_task
         /\ ppid[current_task] # NULL =>
              ppid[current_task] \in Queued /\ state[ppid[current_task]] = BLOCKED
         /\ ExitState[current_task] = ZOMBIE
         /\ \A t \in Pid \ {current_task, ppid[current_task]} : ExitState[t] = state[t]
<1> DEFINE c == current_task
           p == ppid[current_task]
<1>1. /\ KInv
      /\ c # NULL
      /\ state[c] = RUNNING
      /\ c \in Queued
      /\ c \in Pid
      /\ c \in Live
      /\ Queued \subseteq Pid
      /\ ppid \in [Pid -> Pid \cup {NULL}]
      /\ \A t \in Queued : state[t] # FREE /\ t < next_pid /\ t \in Nat
      /\ \A t \in Queued : state[t] = RUNNING => t = c
      /\ \A t \in Queued : ppid[t] = c => state[t] = ZOMBIE
      /\ p < c
  BY ChainFacts DEF Die
<1>2. \A t \in Queued : ppid'[t] = IF ppid[t] = c THEN p ELSE ppid[t]
  BY <1>1 DEF Die, task_exit, reparented
<1>3. \A t \in Live : ppid[t] # c
  BY <1>1 DEF Live
<1>4. p # NULL => p \in Queued /\ state[p] = BLOCKED
  BY <1>1 DEF SInv, ForkChain
<1>5. /\ ExitState[c] = ZOMBIE
      /\ \A t \in Pid \ {c, p} : ExitState[t] = state[t]
  BY <1>1, ExitStateProp
<1>6. QED
  BY <1>1, <1>2, <1>3, <1>4, <1>5

\* When init dies a fresh one takes its place.
LEMMA DieRoot ==
  ASSUME SInv, NEW status \in Nat, Die(status), Respawns
  PROVE  /\ ppid[current_task] = NULL
         /\ next_pid \in Pid
         /\ state[next_pid] = FREE
         /\ Queued' = Queued \cup {next_pid} /\ next_pid \notin Queued
         /\ state'[next_pid] = RUNNING
         /\ state'[current_task] = ZOMBIE
         /\ \A t \in Queued \ {current_task} : state'[t] = state[t]
         /\ ppid'[next_pid] = NULL
         /\ Live' = (Live \ {current_task}) \cup {next_pid}
         /\ \A t \in Live \ {current_task} : ppid'[t] = ppid[t]
<1> DEFINE np == next_pid
           c == current_task
<1>1. /\ ppid[c] = NULL
      /\ np \in Pid
      /\ ring' = add_task(ring, np)
      /\ state' = [ExitState EXCEPT ![np] = RUNNING]
  BY DieFacts, ProcessAssumption DEF Respawns, Die, respawn_user_shell, create_user_task, KInv, TypeOK, Pid
<1>2. Queued' = Queued \cup {np} /\ np \notin Queued
  BY DieFacts, <1>1, AddQueued
<1>3. ExitState \in [Pid -> {RUNNING, ZOMBIE, BLOCKED, FREE}]
  BY DieFacts, ExitStateProp
<1>4. /\ state'[np] = RUNNING
      /\ state'[c] = ZOMBIE
      /\ \A t \in Queued \ {c} : state'[t] = state[t]
  <2>1. NULL \notin Pid
    BY PidProp
  <2>2. QED
    BY DieFacts, <1>1, <1>2, <1>3, <2>1
<1>5. state[np] = FREE
  BY DieFacts, <1>1, <1>2 DEF KInv, TaskListOK
<1>6. ppid'[np] = NULL
  BY DieFacts, <1>1, <1>5, TaskExitProp DEF Die
<1>7. Live' = (Live \ {c}) \cup {np}
  BY DieFacts, <1>2, <1>4 DEF Live, RUNNING, ZOMBIE
<1>8. \A t \in Live \ {c} : ppid'[t] = ppid[t]
  BY DieFacts DEF Live
<1>9. QED
  BY <1>1, <1>2, <1>4, <1>5, <1>6, <1>7, <1>8

\* When any other task dies its parent wakes, and nobody else is disturbed.
LEMMA DieChild ==
  ASSUME SInv, NEW status \in Nat, Die(status), ~Respawns
  PROVE  /\ ppid[current_task] # NULL
         /\ Queued' = Queued
         /\ state'[ppid[current_task]] = RUNNING
         /\ state'[current_task] = ZOMBIE
         /\ \A t \in Queued \ {current_task, ppid[current_task]} : state'[t] = state[t]
         /\ ppid[current_task] \in Live
         /\ ppid[current_task] \in Pid
         /\ ppid[current_task] # current_task
         /\ state[ppid[current_task]] = BLOCKED
         /\ Live' = Live \ {current_task}
         /\ \A t \in Live : ppid'[t] = ppid[t]
         /\ \A t \in Live : ppid[t] = ppid[current_task] => t = current_task
<1> DEFINE c == current_task
           p == ppid[current_task]
<1>1. /\ p # NULL
      /\ state' = ExitState
      /\ Queued' = Queued
  BY DEF Respawns, Die, Queued
<1>2. p \in Queued /\ p \in Pid /\ state[p] = BLOCKED /\ p # c
  BY DieFacts, <1>1 DEF RUNNING, BLOCKED
<1>3. ExitState = [[state EXCEPT ![c] = ZOMBIE] EXCEPT ![p] = RUNNING]
  <2>1. [state EXCEPT ![c] = ZOMBIE][p] = BLOCKED
    BY DieFacts, <1>2 DEF KInv, TypeOK
  <2>2. QED
    BY <1>1, <1>2, <2>1 DEF ExitState, unblock_parent_of
<1>4. /\ state'[p] = RUNNING
      /\ state'[c] = ZOMBIE
      /\ \A t \in Queued \ {c, p} : state'[t] = state[t]
  BY DieFacts, <1>1, <1>2, <1>3 DEF KInv, TypeOK
<1>5. p \in Live
  BY <1>2 DEF Live, BLOCKED, ZOMBIE
<1>6. Live' = Live \ {c}
  BY DieFacts, <1>1, <1>2, <1>4 DEF Live, RUNNING, ZOMBIE, BLOCKED
<1>7. \A t \in Live : ppid'[t] = ppid[t]
  BY DieFacts DEF Live
<1>8. \A t \in Live : ppid[t] = p => t = c
  BY DieFacts, <1>1 DEF SInv, ForkChain
<1>9. QED
  BY <1>1, <1>2, <1>4, <1>5, <1>6, <1>7, <1>8

\* The death of a task takes the last link off the chain, or starts a new one.
LEMMA DieChain ==
  ASSUME SInv, NEW status \in Nat, Die(status)
  PROVE  SInv'
<1> DEFINE np == next_pid
           c == current_task
           p == ppid[current_task]
<1>1. KInv' /\ current_task' # NULL
  BY DieKeeps DEF SInv
<1>2. /\ c # NULL /\ c \in Queued /\ c \in Pid /\ c \in Live
      /\ Queued \subseteq Pid
      /\ ppid \in [Pid -> Pid \cup {NULL}]
  BY DieFacts
<1>3. \A t \in Queued : ppid'[t] = IF ppid[t] = c THEN p ELSE ppid[t]
  BY DieFacts
<1>4. \A t \in Live : ppid[t] # c
  BY DieFacts
<1>7. CASE Respawns
  <2>1. p = NULL
    BY <1>7, DieRoot
  <2>2. Queued' = Queued \cup {np} /\ np \notin Queued
    BY <1>7, DieRoot
  <2>4. /\ state'[np] = RUNNING
        /\ state'[c] = ZOMBIE
        /\ \A t \in Queued \ {c} : state'[t] = state[t]
    BY <1>7, DieRoot
  <2>5. ppid'[np] = NULL
    BY <1>7, DieRoot
  <2>6. Live' = (Live \ {c}) \cup {np}
    BY <1>7, DieRoot
  <2>7. \A t \in Live \ {c} : ppid'[t] = ppid[t]
    BY <1>7, DieRoot
  <2> HIDE DEF np, c, p
  <2>8. ForkChain'
    <3>1. ASSUME NEW t \in Live', ppid'[t] # NULL
          PROVE  ppid'[t] \in Queued' /\ state'[ppid'[t]] = BLOCKED
      <4>1. t \in Live \ {c} /\ ppid'[t] = ppid[t]
        BY <2>5, <2>6, <2>7, <3>1
      <4>2. ppid[t] \in Queued /\ state[ppid[t]] = BLOCKED
        BY <3>1, <4>1 DEF SInv, ForkChain
      <4>3. ppid[t] # c
        BY <1>4, <4>1
      <4>4. QED
        BY <2>2, <2>4, <4>1, <4>2, <4>3
    <3>2. ASSUME NEW t \in Live', NEW u \in Live', ppid'[t] = ppid'[u], ppid'[t] # NULL
          PROVE  t = u
      BY <2>5, <2>6, <2>7, <3>2 DEF SInv, ForkChain
    <3>3. ASSUME NEW t \in Queued', state'[t] = BLOCKED
          PROVE  \E u \in Live' : ppid'[u] = t
      <4>1. t \in Queued /\ t # c /\ state[t] = BLOCKED
        BY <2>2, <2>4, <3>3 DEF RUNNING, BLOCKED, ZOMBIE
      <4>2. PICK u \in Live : ppid[u] = t
        BY <4>1 DEF SInv, ForkChain
      <4>3. u # c
        BY <2>1, <4>1, <4>2, <1>2, PidProp DEF c, p
      <4>4. QED
        BY <2>6, <2>7, <4>2, <4>3
    <3>4. QED
      BY <3>1, <3>2, <3>3 DEF ForkChain
  <2>9. ZombieHasReaper'
    <3> SUFFICES ASSUME NEW t \in Queued', state'[t] = ZOMBIE, ppid'[t] # NULL
                 PROVE  ppid'[t] \in Live'
      BY DEF ZombieHasReaper
    <3>1. t \in Queued /\ ppid[t] # c /\ ppid'[t] = ppid[t]
      BY <1>3, <2>1, <2>2, <2>4, <2>5
    <3>2. CASE t = c
      BY <2>1, <3>1, <3>2 DEF c, p
    <3>3. CASE t # c
      BY <2>4, <2>6, <3>1, <3>3 DEF SInv, ZombieHasReaper
    <3>4. QED
      BY <3>2, <3>3
  <2>10. np \in Queued'
    BY <2>2
  <2>11. QED
    BY <1>1, <2>4, <2>8, <2>9, <2>10, RunnerResumed DEF SInv
<1>8. CASE ~Respawns
  <2>1. p # NULL /\ Queued' = Queued
    BY <1>8, DieChild
  <2>2. /\ state'[p] = RUNNING
        /\ state'[c] = ZOMBIE
        /\ \A t \in Queued \ {c, p} : state'[t] = state[t]
        /\ p \in Queued /\ p # c
        /\ state[p] = BLOCKED
    BY <1>8, DieChild DEF Live
  <2>3. Live' = Live \ {c}
    BY <1>8, DieChild
  <2>4. \A t \in Live : ppid'[t] = ppid[t]
    BY <1>8, DieChild
  <2>5. \A t \in Live : ppid[t] = p => t = c
    BY <1>8, DieChild
  <2> HIDE DEF np, c, p
  <2>6. ForkChain'
    <3>1. ASSUME NEW t \in Live', ppid'[t] # NULL
          PROVE  ppid'[t] \in Queued' /\ state'[ppid'[t]] = BLOCKED
      <4>1. t \in Live /\ t # c /\ ppid'[t] = ppid[t]
        BY <2>3, <2>4
      <4>2. ppid[t] \in Queued /\ state[ppid[t]] = BLOCKED
        BY <3>1, <4>1 DEF SInv, ForkChain
      <4>3. ppid[t] # c /\ ppid[t] # p
        BY <1>4, <2>5, <4>1
      <4>4. QED
        BY <2>1, <2>2, <4>1, <4>2, <4>3
    <3>2. ASSUME NEW t \in Live', NEW u \in Live', ppid'[t] = ppid'[u], ppid'[t] # NULL
          PROVE  t = u
      BY <2>3, <2>4, <3>2 DEF SInv, ForkChain
    <3>3. ASSUME NEW t \in Queued', state'[t] = BLOCKED
          PROVE  \E u \in Live' : ppid'[u] = t
      <4>1. t \in Queued /\ t # c /\ t # p /\ state[t] = BLOCKED
        BY <2>1, <2>2, <3>3 DEF RUNNING, BLOCKED, ZOMBIE
      <4>2. PICK u \in Live : ppid[u] = t
        BY <4>1 DEF SInv, ForkChain
      <4>3. u # c
        BY <4>1, <4>2 DEF c, p
      <4>4. QED
        BY <2>3, <2>4, <4>2, <4>3
    <3>4. QED
      BY <3>1, <3>2, <3>3 DEF ForkChain
  <2>7. p \in Live'
    BY <1>2, <2>2, <2>3 DEF Live, BLOCKED, ZOMBIE
  <2>8. ZombieHasReaper'
    <3> SUFFICES ASSUME NEW t \in Queued', state'[t] = ZOMBIE, ppid'[t] # NULL
                 PROVE  ppid'[t] \in Live'
      BY DEF ZombieHasReaper
    <3>1. CASE ppid[t] = c
      BY <1>3, <2>1, <2>7, <3>1
    <3>2. CASE ppid[t] # c /\ t = c
      BY <1>2, <1>3, <2>1, <2>7, <3>2 DEF c, p
    <3>3. CASE ppid[t] # c /\ t # c
      <4>1. t \in Queued /\ state[t] = ZOMBIE /\ ppid'[t] = ppid[t]
        BY <1>3, <2>1, <2>2, <3>3 DEF RUNNING, ZOMBIE
      <4>2. QED
        BY <2>3, <3>3, <4>1 DEF SInv, ZombieHasReaper
    <3>4. QED
      BY <3>1, <3>2, <3>3
  <2>9. p \in Queued'
    BY <2>1, <2>2
  <2>10. QED
    BY <1>1, <2>2, <2>6, <2>8, <2>9, RunnerResumed DEF SInv
<1>9. QED
  BY <1>7, <1>8

\* wait4 changes nothing, or takes one zombie off the list.
LEMMA Wait4Effect ==
  ASSUME KInv, current_task # NULL, NEW pid, NEW wnohang, Wait4(pid, wnohang)
  PROVE  \/ UNCHANGED <<ring, state, ppid, img_size, img_snapshot, prog>>
         \/ \E found \in Queued :
              /\ state[found] = ZOMBIE
              /\ found # current_task
              /\ Queued' = Queued \ {found}
              /\ \A t \in Pid : t # found =>
                   /\ state'[t] = state[t]
                   /\ ppid'[t] = ppid[t]
                   /\ img_size'[t] = img_size[t]
                   /\ img_snapshot'[t] = img_snapshot[t]
                   /\ prog'[t] = prog[t]
<1> DEFINE zombies == {i \in Children(pid) : state[ring[i]] = ZOMBIE}
           found == ring[CHOOSE i \in zombies : \A j \in zombies : i <= j]
<1>1. CASE zombies # {}
  <2>1. zombies \subseteq {i \in DOMAIN ring : /\ ppid[ring[i]] = current_task
                                               /\ state[ring[i]] = ZOMBIE}
    BY DEF Children
  <2>2. /\ ring' = remove_task(ring, found)
        /\ state' = [state EXCEPT ![found] = FREE]
        /\ ppid' = [ppid EXCEPT ![found] = NULL]
        /\ img_size' = [img_size EXCEPT ![found] = 0]
        /\ img_snapshot' = [img_snapshot EXCEPT ![found] = << >>]
        /\ prog' = [prog EXCEPT ![found] = NULL]
    BY <1>1 DEF Wait4
  <2> HIDE DEF zombies
  <2>3. /\ found \in Elems(ring)
        /\ found \in Pid
        /\ found # current_task
        /\ state[found] = ZOMBIE
    BY <1>1, <2>1, FoundProp
  <2> HIDE DEF found
  <2>4. found \in Queued /\ Queued' = Queued \ {found}
    <3>1. ring \in Seq(Pid) /\ Ascending(ring) /\ Elems(ring) = Queued
      BY KInvFacts DEF ListOK
    <3>2. Elems(ring') = Elems(ring) \ {found}
      BY <2>2, <2>3, <3>1, RemoveProp
    <3>3. QED
      BY <2>3, <3>1, <3>2 DEF Queued, Elems
  <2>5. \A t \in Pid : t # found =>
          /\ state'[t] = state[t] /\ ppid'[t] = ppid[t] /\ prog'[t] = prog[t]
          /\ img_size'[t] = img_size[t] /\ img_snapshot'[t] = img_snapshot[t]
    BY <2>2, <2>3 DEF KInv, TypeOK
  <2>6. QED
    BY <2>3, <2>4, <2>5
<1>2. CASE zombies = {}
  BY <1>2 DEF Wait4
<1>3. QED
  BY <1>1, <1>2

\* A reaped zombie is not part of the chain.
LEMMA Wait4Live ==
  ASSUME SInv, NEW pid, NEW wnohang, Wait4(pid, wnohang)
  PROVE  /\ Live' = Live
         /\ \A t \in Live : state'[t] = state[t] /\ ppid'[t] = ppid[t]
         /\ \A t \in Queued' :
              t \in Queued /\ state'[t] = state[t] /\ ppid'[t] = ppid[t]
         /\ \A t \in Queued : state[t] # ZOMBIE => t \in Queued'
<1>1. KInv /\ current_task # NULL /\ Queued \subseteq Pid
  BY ChainFacts DEF Wait4
<1>2. CASE UNCHANGED <<ring, state, ppid, img_size, img_snapshot, prog>>
  BY <1>2 DEF Live, Queued
<1>3. ASSUME NEW found \in Queued, state[found] = ZOMBIE,
             Queued' = Queued \ {found},
             \A t \in Pid : t # found => state'[t] = state[t] /\ ppid'[t] = ppid[t]
      PROVE  /\ Live' = Live
             /\ \A t \in Live : state'[t] = state[t] /\ ppid'[t] = ppid[t]
             /\ \A t \in Queued' :
                  t \in Queued /\ state'[t] = state[t] /\ ppid'[t] = ppid[t]
             /\ \A t \in Queued : state[t] # ZOMBIE => t \in Queued'
  BY <1>1, <1>3 DEF Live
<1>4. QED
  BY <1>1, <1>2, <1>3, Wait4Effect

\* wait4 takes a zombie away, and zombies are not in the chain.
LEMMA Wait4Chain ==
  ASSUME SInv, NEW pid, NEW wnohang, Wait4(pid, wnohang)
  PROVE  SInv'
<1>1. KInv' /\ current_task' # NULL
  BY Wait4Keeps DEF SInv
<1>2. ForkChain'
  BY Wait4Live DEF SInv, ForkChain, Live, BLOCKED, ZOMBIE
<1>3. ZombieHasReaper'
  BY Wait4Live DEF SInv, ZombieHasReaper
<1>4. current_task \in Queued' /\ state'[current_task] = RUNNING
  BY Wait4Live, ChainFacts DEF Wait4, RUNNING, ZOMBIE
<1>5. QED
  BY <1>1, <1>2, <1>3, <1>4, RunnerResumed DEF SInv

\* At boot init is the whole chain.
LEMMA InitSInv == Init => SInv
<1> SUFFICES ASSUME Init PROVE SInv
  OBVIOUS
<1>1. KInv
  BY InitKInv
<1>2. 1 \in Pid
  BY ProcessAssumption DEF Pid
<1>3. Queued = {1} /\ state[1] = RUNNING /\ ppid[1] = NULL
  BY <1>2 DEF Init, Queued
<1>4. QED
  BY <1>1, <1>3 DEF Init, SInv, BootReady, ResumedIsRunning, ForkChain,
     ZombieHasReaper, Live, RUNNING, BLOCKED, ZOMBIE

\* Every step of programs that do not kill keeps the chain of naps.
LEMMA NextSInv == SInv /\ [Next]_vars => SInv'
<1> SUFFICES ASSUME SInv, [Next]_vars PROVE SInv'
  OBVIOUS
<1>1. CASE TimerTick
  BY <1>1, TickChain
<1>2. CASE Fork
  BY <1>2, ForkChainKept
<1>3. CASE \E n \in 1 .. Pages : Execve(n)
  BY <1>3, ExecveChain
<1>4. CASE ExecveFails
  BY <1>4, ExecveFailsChain
<1>5. CASE \E c \in ExitCodes : Exit(c)
  BY <1>5, DieChain, ProcessAssumption DEF Exit
<1>6. CASE Fault
  BY <1>6, DieChain DEF Fault
<1>7. CASE \E p \in Pid \cup {-1}, wnohang \in BOOLEAN : Wait4(p, wnohang)
  BY <1>7, Wait4Chain
<1>8. CASE UNCHANGED vars
  <2>1. KInv'
    BY <1>8, NextKInv DEF SInv
  <2>2. ForkChain' /\ ZombieHasReaper'
    BY <1>8, SameChain DEF vars
  <2>3. BootReady' /\ ResumedIsRunning'
    BY <1>8 DEF vars, SInv, BootReady, ResumedIsRunning
  <2>4. QED
    BY <2>1, <2>2, <2>3 DEF SInv
<1>9. QED
  BY <1>1, <1>2, <1>3, <1>4, <1>5, <1>6, <1>7, <1>8 DEF Next

\* As long as nobody calls kill, schedule never resumes a zombie or a blocked
\* task: its fallback to current_task->next is dead code.
THEOREM NeverResumesAZombie == Spec => []ResumedIsRunning
<1>1. SInv => ResumedIsRunning
  BY DEF SInv
<1>2. QED
  BY <1>1, InitSInv, NextSInv, PTL DEF Spec

\* The live tasks are a chain of blocked parents that ends in the current task.
THEOREM ChainOfNaps == Spec => []ForkChain
<1>1. SInv => ForkChain
  BY DEF SInv
<1>2. QED
  BY <1>1, InitSInv, NextSInv, PTL DEF Spec

\* Nobody's zombie child is lost when he dies: it passes to a live ancestor, or
\* to nobody when he was init.
THEOREM OrphansAreReapable == Spec => []ZombieHasReaper
<1>1. SInv => ZombieHasReaper
  BY DEF SInv
<1>2. QED
  BY <1>1, InitSInv, NextSInv, PTL DEF Spec

\* The rewind of wait4 in syscall_handler never happens without kill.
THEOREM WaitNeverRewinds == Spec => []Wait4NeverSpins
<1>1. SInv => Wait4NeverSpins
  BY ChainFacts DEF Wait4NeverSpins
<1>2. QED
  BY <1>1, InitSInv, NextSInv, PTL DEF Spec

\* A step rewrites no dead child's status before it is reaped.
LEMMA StatusStep ==
  ASSUME SInv, Next
  PROVE  \A t \in Pid : state[t] = ZOMBIE /\ state'[t] = ZOMBIE
           => exit_code'[t] = exit_code[t]
<1> SUFFICES ASSUME NEW t \in Pid, state[t] = ZOMBIE, state'[t] = ZOMBIE
             PROVE  exit_code'[t] = exit_code[t]
  OBVIOUS
<1>1. exit_code \in [Pid -> Nat]
  BY DEF SInv, KInv, TypeOK
<1>2. current_task # NULL => state[current_task] = RUNNING
  BY DEF SInv, ResumedIsRunning
<1>3. CASE TimerTick \/ ExecveFails \/ \E n \in 1 .. Pages : Execve(n)
  BY <1>3 DEF TimerTick, ExecveFails, Execve
<1>4. CASE Fork
  <2>1. state[next_pid] = FREE
    <3>1. next_pid \in Pid
      BY <1>4, ProcessAssumption DEF Fork, SInv, KInv, TypeOK, Pid
    <3>2. next_pid \notin Queued
      BY <1>4, <3>1, ChainFacts, PidProp DEF Fork
    <3>3. QED
      BY <3>1, <3>2 DEF SInv, KInv, TaskListOK
  <2>2. t # next_pid
    BY <2>1 DEF FREE, ZOMBIE
  <2>3. QED
    BY <1>1, <1>4, <2>2 DEF Fork
<1>5. ASSUME NEW s, Die(s) PROVE exit_code'[t] = exit_code[t]
  <2>1. t # current_task
    BY <1>2, <1>5 DEF Die, RUNNING, ZOMBIE
  <2>2. QED
    BY <1>1, <1>5, <2>1 DEF Die, task_exit
<1>6. ASSUME NEW p, NEW w, Wait4(p, w) PROVE exit_code'[t] = exit_code[t]
  <2> DEFINE zombies == {i \in Children(p) : state[ring[i]] = ZOMBIE}
             found == ring[CHOOSE i \in zombies : \A j \in zombies : i <= j]
  <2>1. CASE zombies = {}
    BY <1>6, <2>1 DEF Wait4
  <2>2. CASE zombies # {}
    <3>1. /\ state' = [state EXCEPT ![found] = FREE]
          /\ exit_code' = [exit_code EXCEPT ![found] = 0]
      BY <1>6, <2>2 DEF Wait4
    <3> HIDE DEF found, zombies
    <3>2. t # found
      BY <3>1 DEF SInv, KInv, TypeOK, FREE, ZOMBIE
    <3>3. QED
      BY <1>1, <3>1, <3>2
  <2>3. QED
    BY <2>1, <2>2
<1>7. QED
  BY <1>3, <1>4, <1>5, <1>6 DEF Next, Exit, Fault

\* Without kill, the status a child dies with is the one its parent collects.
THEOREM StatusIsKept == Spec => ExitCodeKept
<1>1. SInv /\ [Next]_vars => [\A t \in Pid : state[t] = ZOMBIE /\ state'[t] = ZOMBIE
                                => exit_code'[t] = exit_code[t]]_vars
  BY StatusStep
<1>2. QED
  BY <1>1, InitSInv, NextSInv, PTL DEF Spec, ExitCodeKept

---------------------------------------------------------------------------
(* The process layer implements CallStack: fork is a call, exit a return. *)

\* The mapped variables of CallStack.
Frames == [t \in Live |-> ppid[t]]
Top == IF current_task = NULL THEN 1 ELSE current_task

\* A finite range of numbers has a largest member in every non-empty subset.
LEMMA LargestPid ==
  ASSUME NEW S \in SUBSET Pid, S # {}
  PROVE  \E i \in S : \A j \in S : j <= i
<1> DEFINE D == {MaxPid - i : i \in S}
<1>1. \A i \in S : i \in Nat /\ MaxPid - i \in Nat
  BY ProcessAssumption DEF Pid
<1>2. D \in SUBSET Nat /\ D # {}
  <2>1. \A d \in D : d \in Nat
    BY <1>1
  <2>2. QED
    BY <2>1
<1>3. PICK d \in D : \A e \in D : d <= e
  <2> HIDE DEF D
  <2>1. QED
    BY <1>2, SmallestExists
<1>4. PICK i \in S : d = MaxPid - i
  BY <1>3
<1>5. ASSUME NEW j \in S PROVE j <= i
  <2>1. MaxPid - i <= MaxPid - j
    BY <1>3, <1>4
  <2>2. QED
    BY <1>1, <2>1, ProcessAssumption
<1>6. QED
  BY <1>5

\* When init has the CPU nobody else lives: the youngest live task besides the
\* current one naps, and only the current task can be the child it waits for.
LEMMA RootAlone ==
  ASSUME SInv, current_task # NULL, ppid[current_task] = NULL
  PROVE  Live = {current_task}
<1>1. /\ KInv /\ current_task \in Live /\ Queued \subseteq Pid
      /\ \A t \in Queued : state[t] = RUNNING => t = current_task
      /\ \A t \in Queued : state[t] # FREE
  BY ChainFacts
<1>2. \A t \in Queued : t \in Pid /\ t \in Nat /\ ppid[t] < t
  BY <1>1, PidProp DEF KInv, TaskListOK
<1>3. ASSUME Live \ {current_task} # {} PROVE FALSE
  <2>1. PICK m \in Live \ {current_task} : \A j \in Live \ {current_task} : j <= m
    <3>1. Live \ {current_task} \in SUBSET Pid
      BY <1>1 DEF Live
    <3>2. QED
      BY <1>3, <3>1, LargestPid
  <2>2. m \in Queued /\ state[m] = BLOCKED
    BY <1>1, <1>2, <2>1 DEF Live, KInv, TypeOK
  <2>3. PICK u \in Live : ppid[u] = m
    BY <2>2 DEF SInv, ForkChain
  <2>4. u # current_task
    BY <1>2, <2>2, <2>3, PidProp
  <2>5. u <= m /\ m < u /\ u \in Nat /\ m \in Nat
    BY <1>2, <2>1, <2>2, <2>3, <2>4 DEF Live
  <2>6. QED
    BY <2>5
<1>4. QED
  BY <1>1, <1>3

\* Steps that leave the list alone and the current task on the CPU.
LEMMA Stutters ==
  ASSUME SInv, SInv', current_task # NULL, current_task' # NULL,
         Live' = Live, \A t \in Live : ppid'[t] = ppid[t]
  PROVE  Frames' = Frames /\ Top' = Top
<1>1. state[current_task] = RUNNING /\ current_task \in Live
  BY ChainFacts
<1>2. state'[current_task'] = RUNNING /\ current_task' \in Live'
  BY DEF SInv, ResumedIsRunning, KInv, TaskListOK, Live, RUNNING, ZOMBIE
<1>3. current_task' = current_task
  <2>1. ASSUME current_task' # current_task PROVE FALSE
    <3>1. PICK u \in Live : ppid[u] = current_task'
      <4>1. current_task' \in Queued /\ current_task' \in Live
        BY <1>2 DEF Live
      <4>2. state[current_task'] = BLOCKED
        BY <2>1, <4>1, ChainFacts DEF Live, KInv, TypeOK
      <4>3. QED
        BY <4>1, <4>2 DEF SInv, ForkChain
    <3>2. u \in Live' /\ ppid'[u] = current_task'
      BY <3>1
    <3>3. state'[current_task'] = BLOCKED
      BY <3>2, <1>2 DEF SInv, ForkChain, KInv, TaskListOK, TypeOK, NULL, Pid, Live
    <3>4. QED
      BY <1>2, <3>3 DEF RUNNING, BLOCKED
  <2>2. QED
    BY <2>1
<1>4. QED
  BY <1>3 DEF Frames, Top

\* The state kernel_main leaves is the stack with init as its only frame.
LEMMA InitCalls == Init => Calls!Init
<1> SUFFICES ASSUME Init PROVE Calls!Init
  OBVIOUS
<1>1. 1 \in Pid
  BY ProcessAssumption DEF Pid
<1>2. Live = {1} /\ ppid[1] = NULL /\ current_task = NULL
  BY <1>1 DEF Init, Live, Queued, RUNNING, ZOMBIE
<1>3. QED
  BY <1>2 DEF Calls!Init

\* The timer never moves the CPU off the top of the stack.
LEMMA TickCalls ==
  ASSUME SInv, TimerTick
  PROVE  Frames' = Frames /\ Top' = Top
<1>1. SInv' /\ current_task' # NULL
  BY TickChain, TickKeeps DEF SInv
<1>2. UNCHANGED <<ring, state, ppid>> /\ Live' = Live
  BY DEF TimerTick, Live, Queued
<1>3. CASE current_task = NULL
  <2>1. current_task' = 1
    BY <1>3 DEF TimerTick, schedule, SInv, KInv, TaskListOK
  <2>2. QED
    BY <1>2, <1>3, <2>1 DEF Frames, Top, NULL
<1>4. CASE current_task # NULL
  BY <1>1, <1>2, <1>4, Stutters
<1>5. QED
  BY <1>3, <1>4

\* An exec, successful or not, replaces a program and leaves the stack alone.
LEMMA ExecCalls ==
  ASSUME SInv, ExecveFails \/ \E n \in 1 .. Pages : Execve(n)
  PROVE  Frames' = Frames /\ Top' = Top
<1>1. SInv'
  BY ExecveFailsChain, ExecveChain
<1>2. current_task' # NULL
  BY ExecveFailsKeeps, ExecveKeeps DEF SInv
<1>3. UNCHANGED <<ring, state, ppid>> /\ current_task # NULL /\ Live' = Live
  BY DEF Execve, ExecveFails, Live, Queued
<1>4. QED
  BY <1>1, <1>2, <1>3, Stutters

\* fork pushes a frame: the child is on top and its parent waits.
LEMMA ForkCalls ==
  ASSUME SInv, Fork
  PROVE  \E t \in Pid : Calls!Call(t)
<1> DEFINE np == next_pid
           c == current_task
<1>1. SInv'
  BY ForkChainKept
<1>2. /\ KInv /\ c # NULL /\ c \in Pid /\ c \in Live /\ c \in Queued
      /\ Queued \subseteq Pid
  BY ChainFacts DEF Fork
<1>3. np \in Pid
  BY <1>2, ProcessAssumption DEF Fork, KInv, TypeOK, Pid
<1>4. Queued' = Queued \cup {np} /\ np \notin Queued
  BY <1>2, <1>3, AddQueued DEF Fork
<1>5. /\ state'[np] = RUNNING /\ ppid'[np] = c /\ state'[c] = BLOCKED
      /\ \A t \in Pid : t # np => ppid'[t] = ppid[t]
      /\ \A t \in Pid : t # np /\ t # c => state'[t] = state[t]
  BY <1>2, <1>3, <1>4 DEF Fork, fork_state, KInv, TypeOK
<1>6. Live' = Live \cup {np}
  BY <1>2, <1>3, <1>4, <1>5 DEF Live, RUNNING, BLOCKED, ZOMBIE
<1>7. current_task' = np
  <2>1. current_task' # NULL
    BY ForkKeeps DEF SInv
  <2>2. QED
    BY <1>1, <1>4, <1>5, <2>1, RunnerResumed DEF SInv
<1>8. np \in Pid \ DOMAIN Frames
  BY <1>3, <1>4 DEF Frames, Live
<1>9. Frames' = [u \in DOMAIN Frames \cup {np} |->
                   IF u = np THEN c ELSE Frames[u]]
  <2>1. \A t \in Live : t \in Pid /\ t # np
    BY <1>2, <1>4 DEF Live
  <2>2. QED
    BY <1>5, <1>6, <2>1 DEF Frames
<1>10. Top = c /\ Top' = np
  BY <1>2, <1>3, <1>7, PidProp DEF Top
<1>11. PICK t \in Pid : t = np
  BY <1>3
<1>12. Calls!Call(t)
  BY <1>8, <1>9, <1>10, <1>11 DEF Calls!Call, Frames, Top
<1>13. QED
  BY <1>12

\* The death of a task is a return, or a restart when init was alone.
LEMMA DieCalls ==
  ASSUME SInv, NEW status \in Nat, Die(status)
  PROVE  Calls!Return \/ \E t \in Pid : Calls!Restart(t)
<1> DEFINE np == next_pid
           c == current_task
           p == ppid[current_task]
<1>1. SInv' /\ current_task' # NULL
  BY DieChain, DieKeeps DEF SInv
<1>2. c # NULL /\ c \in Live /\ c \in Queued /\ Top = c
  BY DieFacts DEF Top
<1>3. CASE Respawns
  <2>1. /\ p = NULL /\ np \in Pid /\ np \notin Queued
        /\ state'[np] = RUNNING /\ ppid'[np] = NULL
        /\ np \in Queued'
        /\ Live' = (Live \ {c}) \cup {np}
    BY <1>3, DieRoot
  <2>2. Live = {c}
    BY <1>2, <2>1, RootAlone
  <2>3. current_task' = np
    BY <1>1, <2>1, RunnerResumed DEF SInv
  <2>4. Live' = {np}
    BY <2>1, <2>2
  <2>5. Frames' = [u \in {np} |-> NULL] /\ DOMAIN Frames = {c}
    BY <2>1, <2>2, <2>4 DEF Frames
  <2>6. Top' = np /\ np # c
    BY <1>1, <1>2, <2>1, <2>3 DEF Top
  <2>7. PICK t \in Pid : t = np
    BY <2>1
  <2>8. Calls!Restart(t)
    BY <1>2, <2>1, <2>5, <2>6, <2>7 DEF Calls!Restart, Frames, Top
  <2>9. QED
    BY <2>8
<1>4. CASE ~Respawns
  <2>1. /\ p # NULL /\ p \in Live /\ state'[p] = RUNNING /\ p \in Queued'
        /\ Live' = Live \ {c}
        /\ \A t \in Live : ppid'[t] = ppid[t]
    BY <1>4, DieChild DEF Live
  <2>2. current_task' = p
    BY <1>1, <2>1, RunnerResumed DEF SInv
  <2>3. Frames' = [u \in DOMAIN Frames \ {c} |-> Frames[u]]
    BY <2>1 DEF Frames
  <2>4. Frames[c] = p /\ Top' = p
    BY <1>1, <1>2, <2>2 DEF Frames, Top
  <2>5. Calls!Return
    BY <1>2, <2>1, <2>3, <2>4 DEF Calls!Return, Frames, Top
  <2>6. QED
    BY <2>5
<1>5. QED
  BY <1>3, <1>4

\* wait4 frees zombies only, which are frames no longer.
LEMMA Wait4Calls ==
  ASSUME SInv, NEW pid, NEW wnohang, Wait4(pid, wnohang)
  PROVE  Frames' = Frames /\ Top' = Top
<1>1. SInv' /\ current_task' # NULL /\ current_task # NULL
  BY Wait4Chain, Wait4Keeps DEF SInv, Wait4
<1>2. Live' = Live /\ \A t \in Live : ppid'[t] = ppid[t]
  BY Wait4Live
<1>3. QED
  BY <1>1, <1>2, Stutters

\* Every step of Process is a step of the call stack or a stutter.
LEMMA NextCalls == SInv /\ [Next]_vars => [Calls!Next]_(Calls!vars)
<1> SUFFICES ASSUME SInv, [Next]_vars PROVE [Calls!Next]_(Calls!vars)
  OBVIOUS
<1>1. ASSUME Frames' = Frames /\ Top' = Top PROVE UNCHANGED Calls!vars
  BY <1>1 DEF Calls!vars, Frames, Top
<1>2. CASE TimerTick
  BY <1>1, <1>2, TickCalls
<1>3. CASE Fork
  BY <1>3, ForkCalls DEF Calls!Next
<1>4. CASE ExecveFails \/ \E n \in 1 .. Pages : Execve(n)
  BY <1>1, <1>4, ExecCalls
<1>5. ASSUME NEW status \in Nat, Die(status) PROVE Calls!Next
  BY <1>5, DieCalls DEF Calls!Next
<1>6. ASSUME NEW k \in ExitCodes, Exit(k) PROVE Calls!Next
  BY <1>5, <1>6, ProcessAssumption DEF Exit
<1>7. CASE Fault
  <2>1. 128 + 11 \in Nat
    OBVIOUS
  <2>2. QED
    BY <1>5, <1>7, <2>1 DEF Fault
<1>8. ASSUME NEW q \in Pid \cup {-1}, NEW w \in BOOLEAN, Wait4(q, w)
      PROVE  UNCHANGED Calls!vars
  BY <1>1, <1>8, Wait4Calls
<1>9. CASE UNCHANGED vars
  <2>1. Frames' = Frames /\ Top' = Top
    BY <1>9 DEF vars, Frames, Top, Live, Queued
  <2>2. QED
    BY <1>1, <2>1
<1>10. QED
  BY <1>2, <1>3, <1>4, <1>6, <1>7, <1>8, <1>9 DEF Next

\* The process layer implements the call stack: every step of every handler
\* is a call, a return, the restart of the shell, or no change of the stack.
THEOREM ProcessIsCallStack == Spec => ImplementsCalls
<1>1. QED
  BY InitSInv, NextSInv, InitCalls, NextCalls, PTL DEF Spec, ImplementsCalls, Calls!Spec

============================================================================
