----------------------------- MODULE FilesProof -----------------------------
(* Proofs about Files, for every number of tasks, fds, files, pipes and     *)
(* sockets, and every size of a pipe.                                       *)
EXTENDS Files, ProcessProof, FiniteSetTheorems

---------------------------------------------------------------------------
(* Free slots *)

\* Slots are numbers, and finite in number.
LEMMA SlotProp ==
  /\ Fd \subseteq Nat /\ IsFiniteSet(Fd)
  /\ File \subseteq Nat /\ IsFiniteSet(File) /\ NULL \notin File
  /\ Pipe \subseteq Nat /\ IsFiniteSet(Pipe) /\ NULL \notin Pipe
  /\ Socket \subseteq Nat /\ IsFiniteSet(Socket) /\ NULL \notin Socket
  /\ IsFiniteSet(Pid)
<1>1. MAX_FDS \in Nat /\ MAX_FDS - 1 \in Int /\ MaxFiles \in Nat /\ MaxPipes \in Nat
      /\ MAX_SOCKETS \in Nat /\ MaxPid \in Nat /\ 0 \in Int /\ 1 \in Int
  BY FilesAssumption, ProcessAssumption
<1>2. Fd \subseteq Nat /\ File \subseteq Nat /\ Pipe \subseteq Nat /\ Socket \subseteq Nat
      /\ NULL \notin File /\ NULL \notin Pipe /\ NULL \notin Socket
  BY <1>1 DEF Fd, File, Pipe, Socket, NULL
<1>3. IsFiniteSet(0 .. MAX_FDS - 1)
  BY <1>1, FS_Interval
<1>4. IsFiniteSet(1 .. MaxFiles) /\ IsFiniteSet(1 .. MaxPipes)
      /\ IsFiniteSet(1 .. MAX_SOCKETS) /\ IsFiniteSet(1 .. MaxPid)
  BY <1>1, FS_Interval
<1>5. QED
  BY <1>2, <1>3, <1>4 DEF Fd, File, Pipe, Socket, Pid

\* The elements of S below x.
Under(S, x) == {y \in S : y < x}

\* A finite nonempty set of numbers has a largest element.
LEMMA LargestExists ==
  ASSUME NEW S \in SUBSET Nat, NEW n \in Nat, \A x \in S : x <= n, S # {}
  PROVE  \E i \in S : \A j \in S : j <= i
<1> DEFINE U == {m \in Nat : \A j \in S : j <= m}
<1>1. n \in U /\ U \in SUBSET Nat
  OBVIOUS
<1>2. PICK m \in U : \A k \in U : m <= k
  BY <1>1, SmallestExists
<1>3. m \in Nat /\ \A j \in S : j <= m /\ j \in Nat
  BY <1>2
<1>4. CASE m \in S
  BY <1>3, <1>4
<1>5. CASE m \notin S
  <2>1. \A j \in S : j < m
    BY <1>3, <1>5
  <2>2. m > 0
    <3>1. PICK j \in S : TRUE
      OBVIOUS
    <3>2. QED
      BY <3>1, <2>1, <1>3
  <2>3. m - 1 \in Nat /\ \A j \in S : j <= m - 1
    BY <2>1, <2>2, <1>3
  <2>4. m - 1 \in U
    BY <2>3
  <2>5. m <= m - 1
    BY <2>4, <1>2
  <2>6. QED
    BY <2>5, <1>3
<1>6. QED
  BY <1>4, <1>5

\* Nth finds its element, and as many smaller ones as it should.
LEMMA NthProp ==
  ASSUME NEW n \in Nat, NEW S \in SUBSET (0 .. n), NEW k \in 1 .. Cardinality(S)
  PROVE  Nth(S, k) \in S /\ Cardinality(Under(S, Nth(S, k))) = k - 1
<1>1. IsFiniteSet(0 .. n)
  BY FS_Interval
<1>2. IsFiniteSet(S) /\ Cardinality(S) \in Nat /\ S \in SUBSET Nat /\ \A x \in S : x <= n /\ x \in Nat
  <2>1. IsFiniteSet(S)
    BY <1>1, FS_Subset
  <2>2. Cardinality(S) \in Nat
    BY <2>1, FS_CardinalityType
  <2>3. S \in SUBSET Nat /\ \A x \in S : x <= n /\ x \in Nat
    OBVIOUS
  <2>4. QED
    BY <2>1, <2>2, <2>3
<1>3. \A x : IsFiniteSet(Under(S, x)) /\ Cardinality(Under(S, x)) \in Nat
  <2>1. \A x : Under(S, x) \in SUBSET S
    BY DEF Under
  <2>2. QED
    BY <2>1, <1>2, FS_Subset, FS_CardinalityType
<1>4. k \in Nat /\ k >= 1 /\ k <= Cardinality(S)
  BY <1>2
<1>5. S # {}
  BY <1>4, FS_EmptySet
<1> DEFINE T == {x \in S : Cardinality(Under(S, x)) >= k - 1}
<1>6. T # {}
  <2>1. PICK m \in S : \A j \in S : j <= m
    BY <1>2, <1>5, LargestExists
  <2>2. Under(S, m) = S \ {m}
    <3>1. m \in Nat
      BY <2>1, <1>2
    <3>2. ASSUME NEW y \in S PROVE y < m <=> y # m
      <4>1. y \in Nat /\ y <= m
        BY <2>1, <1>2
      <4>2. QED
        BY <3>1, <4>1
    <3>3. QED
      BY <3>2 DEF Under
  <2>3. Cardinality(S \ {m}) = Cardinality(S) - 1
    BY <1>2, <2>1, FS_RemoveElement
  <2>4. Cardinality(Under(S, m)) >= k - 1
    BY <2>2, <2>3, <1>2, <1>4
  <2>5. QED
    BY <2>1, <2>4
<1>7. PICK x \in T : \A y \in T : x <= y
  <2>1. T \in SUBSET Nat
    BY <1>2
  <2>2. QED
    BY <2>1, <1>6, SmallestExists
<1>8. x \in S /\ x \in Nat /\ Cardinality(Under(S, x)) >= k - 1
  BY <1>7, <1>2
<1>9. Cardinality(Under(S, x)) = k - 1
  <2> SUFFICES ASSUME Cardinality(Under(S, x)) > k - 1 PROVE FALSE
    BY <1>8, <1>3, <1>4
  <2>1. Under(S, x) # {}
    <3>1. Cardinality(Under(S, x)) # 0
      BY <1>3, <1>4
    <3>2. QED
      BY <3>1, FS_EmptySet
  <2>2. PICK z \in Under(S, x) : \A j \in Under(S, x) : j <= z
    <3>1. Under(S, x) \in SUBSET Nat /\ \A y \in Under(S, x) : y <= n
      BY <1>2 DEF Under
    <3>2. QED
      BY <3>1, <2>1, LargestExists
  <2>3. z \in S /\ z \in Nat /\ z < x
    BY <2>2, <1>2 DEF Under
  <2>4. Under(S, z) = Under(S, x) \ {z}
    <3>1. \A y \in S : y < z <=> y < x /\ y # z
      <4>1. SUFFICES ASSUME NEW y \in S PROVE y < z <=> y < x /\ y # z
        OBVIOUS
      <4>2. y \in Nat /\ (y < x => y <= z)
        BY <1>2, <2>2 DEF Under
      <4>3. QED
        BY <4>2, <2>3, <1>8
    <3>2. QED
      BY <3>1 DEF Under
  <2>5. Cardinality(Under(S, z)) = Cardinality(Under(S, x)) - 1
    BY <2>4, <2>2, <1>3, FS_RemoveElement
  <2>6. Cardinality(Under(S, z)) >= k - 1
    BY <2>5, <1>3, <1>4
  <2>7. x <= z
    BY <2>6, <2>3, <1>7
  <2>8. QED
    BY <2>7, <2>3, <1>8
<1>10. \E y \in S : Cardinality(Under(S, y)) = k - 1
  BY <1>8, <1>9
<1>11. Nth(S, k) = CHOOSE y \in S : Cardinality(Under(S, y)) = k - 1
  BY DEF Nth, Under
<1>12. QED
  BY <1>10, <1>11

---------------------------------------------------------------------------
(* Counting references *)

\* What a table may hold.
Tables == [Fd -> File \cup {NULL}]

\* The fds of one table, and of all tables, that point at f.
Row(x, f) == {fd \in Fd : x[fd] = f}
Refs(d, f) == {r \in Pid \X Fd : d[r[1]][r[2]] = f}

\* Both are finite.
LEMMA RowFinite ==
  ASSUME NEW x, NEW f
  PROVE  IsFiniteSet(Row(x, f)) /\ Cardinality(Row(x, f)) \in Nat
<1>1. IsFiniteSet(Row(x, f))
  BY SlotProp, FS_Subset DEF Row
<1>2. QED
  BY <1>1, FS_CardinalityType

\* The tables are counted one by one: changing one table changes the count by
\* what that table gains and loses.
LEMMA RowChange ==
  ASSUME NEW d, NEW e, NEW t \in Pid, \A u \in Pid : u # t => e[u] = d[u], NEW f
  PROVE  /\ Cardinality(Refs(d, f)) \in Nat
         /\ Cardinality(Refs(e, f)) \in Nat
         /\ Cardinality(Row(d[t], f)) <= Cardinality(Refs(d, f))
         /\ Cardinality(Refs(e, f)) + Cardinality(Row(d[t], f))
              = Cardinality(Refs(d, f)) + Cardinality(Row(e[t], f))
<1> DEFINE Rest == {r \in Pid \X Fd : r[1] # t /\ d[r[1]][r[2]] = f}
<1>1. IsFiniteSet(Pid \X Fd)
  BY SlotProp, FS_Product
<1>2. IsFiniteSet(Rest) /\ Cardinality(Rest) \in Nat
  <2>1. IsFiniteSet(Rest)
    BY <1>1, FS_Subset
  <2>2. QED
    BY <2>1, FS_CardinalityType
<1>3. ASSUME NEW b, \A u \in Pid : u # t => b[u] = d[u]
      PROVE  /\ Cardinality(Refs(b, f)) = Cardinality(Rest) + Cardinality(Row(b[t], f))
             /\ Cardinality(Row(b[t], f)) \in Nat
  <2>1. Refs(b, f) = Rest \cup ({t} \X Row(b[t], f))
    <3>1. ASSUME NEW r \in Pid \X Fd
          PROVE  b[r[1]][r[2]] = f <=>
                   \/ r[1] # t /\ d[r[1]][r[2]] = f
                   \/ r \in {t} \X Row(b[t], f)
      <4>1. r[1] \in Pid /\ r[2] \in Fd /\ r = <<r[1], r[2]>>
        OBVIOUS
      <4>2. r \in {t} \X Row(b[t], f) <=> r[1] = t /\ b[t][r[2]] = f
        BY <4>1 DEF Row
      <4>3. QED
        BY <4>1, <4>2, <1>3
    <3>2. {t} \X Row(b[t], f) \subseteq Pid \X Fd
      BY DEF Row
    <3>3. QED
      BY <3>1, <3>2 DEF Refs
  <2>2. Rest \cap ({t} \X Row(b[t], f)) = {}
    OBVIOUS
  <2>3. IsFiniteSet(Row(b[t], f)) /\ Cardinality(Row(b[t], f)) \in Nat
    BY RowFinite
  <2>4. IsFiniteSet({t}) /\ Cardinality({t}) = 1
    BY FS_Singleton
  <2>5. IsFiniteSet({t} \X Row(b[t], f))
        /\ Cardinality({t} \X Row(b[t], f)) = Cardinality(Row(b[t], f))
    <3>1. IsFiniteSet({t} \X Row(b[t], f))
        /\ Cardinality({t} \X Row(b[t], f)) = Cardinality({t}) * Cardinality(Row(b[t], f))
      BY <2>3, <2>4, FS_Product
    <3>2. QED
      BY <3>1, <2>3, <2>4
  <2>6. Cardinality(Refs(b, f)) = Cardinality(Rest) + Cardinality({t} \X Row(b[t], f))
               - Cardinality(Rest \cap ({t} \X Row(b[t], f)))
    <3> HIDE DEF Rest
    <3> QED BY <2>1, <1>2, <2>5, FS_Union
  <2>7. Cardinality({}) = 0
    BY FS_EmptySet
  <2>8. Cardinality(Rest \cap ({t} \X Row(b[t], f))) = 0
    BY <2>2, <2>7
  <2>9. QED
    <3> HIDE DEF Rest
    <3> QED BY <2>6, <2>8, <2>5, <1>2, <2>3
<1> HIDE DEF Rest
<1>4. /\ Cardinality(Refs(d, f)) = Cardinality(Rest) + Cardinality(Row(d[t], f))
      /\ Cardinality(Row(d[t], f)) \in Nat
  BY <1>3
<1>5. /\ Cardinality(Refs(e, f)) = Cardinality(Rest) + Cardinality(Row(e[t], f))
      /\ Cardinality(Row(e[t], f)) \in Nat
  BY <1>3
<1>6. QED
  BY <1>2, <1>4, <1>5

\* 1 where two values are the same.
Hit(a, b) == IF a = b THEN 1 ELSE 0

\* Assigning one fd.
Put(x, fd, g) == [x EXCEPT ![fd] = g]

\* It counts what was there out and what comes in.
LEMMA CellChange ==
  ASSUME NEW x \in Tables, NEW fd \in Fd, NEW g, NEW f
  PROVE  /\ Cardinality(Row(Put(x, fd, g), f)) \in Nat
         /\ Cardinality(Row(Put(x, fd, g), f)) + Hit(x[fd], f)
              = Cardinality(Row(x, f)) + Hit(g, f)
<1>0. x \in [Fd -> File \cup {NULL}]
  BY DEF Tables
<1> DEFINE Base == {h \in Fd : h # fd /\ x[h] = f}
<1>1. IsFiniteSet(Base)
  BY SlotProp, FS_Subset
<1>2. Cardinality(Base) \in Nat /\ fd \notin Base
  BY <1>1, FS_CardinalityType
<1>3. Cardinality(Base \cup {fd}) = Cardinality(Base) + 1
  BY <1>1, <1>2, FS_AddElement
<1>4. Cardinality(Row(x, f)) = Cardinality(Base) + Hit(x[fd], f)
  <2>1. CASE x[fd] = f
    <3>1. Row(x, f) = Base \cup {fd}
      BY <2>1 DEF Row
    <3>2. QED
      BY <2>1, <3>1, <1>3 DEF Hit
  <2>2. CASE x[fd] # f
    <3>1. Row(x, f) = Base
      BY <2>2 DEF Row
    <3>2. QED
      BY <2>2, <3>1, <1>2 DEF Hit
  <2>3. QED
    BY <2>1, <2>2
<1>5. Cardinality(Row(Put(x, fd, g), f)) = Cardinality(Base) + Hit(g, f)
  <2>1. CASE g = f
    <3>1. Row(Put(x, fd, g), f) = Base \cup {fd}
      BY <1>0, <2>1 DEF Row, Put
    <3>2. QED
      BY <2>1, <3>1, <1>3 DEF Hit
  <2>2. CASE g # f
    <3>1. Row(Put(x, fd, g), f) = Base
      <4>1. \A h \in Fd : Put(x, fd, g)[h] = IF h = fd THEN g ELSE x[h]
        BY <1>0 DEF Put
      <4>2. QED
        BY <2>2, <4>1 DEF Row
    <3>2. Hit(g, f) = 0
      BY <2>2 DEF Hit
    <3> HIDE DEF Base
    <3>3. QED
      BY <3>1, <3>2, <1>2
  <2>3. QED
    BY <2>1, <2>2
<1> HIDE DEF Base
<1>6. QED
  BY <1>2, <1>4, <1>5 DEF Hit

\* An empty table points at no file.
LEMMA NoRow ==
  ASSUME NEW f \in File
  PROVE  Row(NoFds, f) = {} /\ Cardinality(Row(NoFds, f)) = 0
<1>1. Row(NoFds, f) = {}
  BY SlotProp DEF Row, NoFds
<1>2. QED
  BY <1>1, FS_EmptySet

---------------------------------------------------------------------------
(* The inductive invariant *)

\* A task_t that is not allocated holds no fd.
FreeTasksHoldNone == \A t \in Pid : state[t] = FREE => fds[t] = NoFds

\* A block that is free stands for no pipe.
FreeFilesClear == \A f \in File : ref_count[f] = 0 => object[f] = Console

\* A task waits in a pipe or not at all.
SpinsOK == \A t \in Pid : spins[t] = NoWait \/ spins[t].pipe \in Pipe

FilesInv ==
  /\ KInv
  /\ FilesTypeOK
  /\ RefCountExact
  /\ PipeEndsCounted
  /\ FreeTasksHoldNone
  /\ FreeFilesClear
  /\ SpinsOK

\* References are the fds of all tables.
LEMMA ExactRefs ==
  /\ RefCountExact <=>
       \A f \in File : IF f \in lost THEN ref_count[f] > Cardinality(Refs(fds, f))
                                     ELSE ref_count[f] = Cardinality(Refs(fds, f))
  /\ RefCountExact' <=>
       \A f \in File : IF f \in lost' THEN ref_count'[f] > Cardinality(Refs(fds', f))
                                      ELSE ref_count'[f] = Cardinality(Refs(fds', f))
<1>1. RefCountExact <=>
       \A f \in File : IF f \in lost THEN ref_count[f] > Cardinality(Refs(fds, f))
                                     ELSE ref_count[f] = Cardinality(Refs(fds, f))
  BY DEF RefCountExact, References, Refs
<1>2. RefCountExact' <=>
       \A f \in File : IF f \in lost' THEN ref_count'[f] > Cardinality(Refs(fds', f))
                                      ELSE ref_count'[f] = Cardinality(Refs(fds', f))
  BY DEF RefCountExact, References, Refs
<1>3. QED
  BY <1>1, <1>2

\* A count covers the fds of each table.
LEMMA RowBound ==
  ASSUME FilesTypeOK, RefCountExact, NEW t \in Pid, NEW f \in File
  PROVE  /\ ref_count[f] \in Nat
         /\ Cardinality(Row(fds[t], f)) \in Nat
         /\ Cardinality(Row(fds[t], f)) <= ref_count[f]
         /\ f \in lost => Cardinality(Row(fds[t], f)) < ref_count[f]
<1>1. ref_count[f] \in Nat
  BY DEF FilesTypeOK
<1>2. IF f \in lost THEN ref_count[f] > Cardinality(Refs(fds, f))
                    ELSE ref_count[f] = Cardinality(Refs(fds, f))
  BY ExactRefs, Zenon
<1>3. /\ Cardinality(Refs(fds, f)) \in Nat
      /\ Cardinality(Row(fds[t], f)) <= Cardinality(Refs(fds, f))
  BY RowChange
<1>4. Cardinality(Row(fds[t], f)) \in Nat
  BY RowFinite
<1>5. QED
  BY <1>1, <1>2, <1>3, <1>4

\* A step that changes one table, and every count by what the table gains and
\* loses.
LEMMA RefStep ==
  ASSUME FilesTypeOK, RefCountExact, NEW t \in Pid,
         \A u \in Pid : u # t => fds'[u] = fds[u],
         \A f \in File :
           /\ ref_count'[f] \in Int
           /\ ref_count'[f] + Cardinality(Row(fds[t], f))
                = ref_count[f] + Cardinality(Row(fds'[t], f)),
         lost' = lost
  PROVE  RefCountExact' /\ \A f \in File : ref_count'[f] \in Nat
<1>1. ASSUME NEW f \in File
      PROVE  /\ ref_count'[f] \in Nat
             /\ IF f \in lost' THEN ref_count'[f] > Cardinality(Refs(fds', f))
                               ELSE ref_count'[f] = Cardinality(Refs(fds', f))
  <2>1. ref_count[f] \in Nat /\ ref_count'[f] \in Int
        /\ ref_count'[f] + Cardinality(Row(fds[t], f))
                = ref_count[f] + Cardinality(Row(fds'[t], f))
    BY DEF FilesTypeOK
  <2>2. IF f \in lost THEN ref_count[f] > Cardinality(Refs(fds, f))
                      ELSE ref_count[f] = Cardinality(Refs(fds, f))
    BY ExactRefs, Zenon
  <2>3. /\ Cardinality(Refs(fds, f)) \in Nat
        /\ Cardinality(Refs(fds', f)) \in Nat
        /\ Cardinality(Refs(fds', f)) + Cardinality(Row(fds[t], f))
              = Cardinality(Refs(fds, f)) + Cardinality(Row(fds'[t], f))
    BY RowChange
  <2>4. Cardinality(Row(fds[t], f)) \in Nat /\ Cardinality(Row(fds'[t], f)) \in Nat
    BY RowFinite
  <2>5. f \in lost' <=> f \in lost
    OBVIOUS
  <2>6. CASE f \in lost
    BY <2>1, <2>2, <2>3, <2>4, <2>5, <2>6
  <2>7. CASE f \notin lost
    BY <2>1, <2>2, <2>3, <2>4, <2>5, <2>7
  <2>8. QED
    BY <2>6, <2>7
<1>2. QED
  BY <1>1, ExactRefs, Zenon

\* Counts once the current task has released one fd, or all.
LEMMA ReleasedProp ==
  ASSUME FilesTypeOK, RefCountExact, current_task \in Pid, NEW f \in File
  PROVE  /\ Released(Fd)[f] \in Nat
         /\ Released(Fd)[f] = ref_count[f] - Cardinality(Row(fds[current_task], f))
         /\ \A fd \in Fd : Released({fd})[f] \in Nat
         /\ \A fd \in Fd : Released({fd})[f] = ref_count[f] - Hit(fds[current_task][fd], f)
         /\ f \in lost => Released(Fd)[f] > 0
<1>1. /\ ref_count[f] \in Nat
      /\ Cardinality(Row(fds[current_task], f)) \in Nat
      /\ Cardinality(Row(fds[current_task], f)) <= ref_count[f]
      /\ f \in lost => Cardinality(Row(fds[current_task], f)) < ref_count[f]
  BY RowBound
<1>2. Released(Fd)[f] = ref_count[f] - Cardinality(Row(fds[current_task], f))
  BY DEF Released, Row
<1>3. ASSUME NEW fd \in Fd
      PROVE  /\ Released({fd})[f] \in Nat
             /\ Released({fd})[f] = ref_count[f] - Hit(fds[current_task][fd], f)
  <2> DEFINE D == {x \in {fd} : fds[current_task][x] = f}
  <2>1. Released({fd})[f] = ref_count[f] - Cardinality(D)
    BY DEF Released
  <2>2. Cardinality(D) = Hit(fds[current_task][fd], f)
    <3>1. CASE fds[current_task][fd] = f
      <4>1. D = {fd}
        BY <3>1
      <4>2. QED
        BY <3>1, <4>1, FS_Singleton DEF Hit
    <3>2. CASE fds[current_task][fd] # f
      <4>1. D = {}
        BY <3>2
      <4>2. QED
        BY <3>2, <4>1, FS_EmptySet DEF Hit
    <3>3. QED
      BY <3>1, <3>2
  <2> HIDE DEF D
  <2>3. fds[current_task][fd] = f => ref_count[f] > 0
    <3>1. SUFFICES ASSUME fds[current_task][fd] = f PROVE ref_count[f] > 0
      OBVIOUS
    <3>2. Row(fds[current_task], f) # {}
      BY <3>1 DEF Row
    <3>3. Cardinality(Row(fds[current_task], f)) # 0
      BY <3>2, RowFinite, FS_EmptySet
    <3>4. QED
      BY <3>3, <1>1
  <2>4. QED
    BY <1>1, <2>1, <2>2, <2>3 DEF Hit
<1>4. QED
  BY <1>1, <1>2, <1>3

---------------------------------------------------------------------------
(* Counting the ends of pipes *)

\* The files that are that end of that pipe.
EndSet(ref, obj, p, end) == {f \in File : ref[f] > 0 /\ obj[f] = PipeEnd(p, end)}

LEMMA EndsCounted ==
  /\ PipeEndsCounted <=>
       \A p \in Pipe : /\ read_ref[p] = Cardinality(EndSet(ref_count, object, p, 0))
                       /\ write_ref[p] = Cardinality(EndSet(ref_count, object, p, 1))
  /\ PipeEndsCounted' <=>
       \A p \in Pipe : /\ read_ref'[p] = Cardinality(EndSet(ref_count', object', p, 0))
                       /\ write_ref'[p] = Cardinality(EndSet(ref_count', object', p, 1))
<1>1. ASSUME NEW ref, NEW obj, NEW p, NEW end
      PROVE  {f \in {h \in File : ref[h] > 0} : obj[f] = PipeEnd(p, end)} = EndSet(ref, obj, p, end)
  BY DEF EndSet
<1>2. PipeEndsCounted <=>
       \A p \in Pipe : /\ read_ref[p] = Cardinality(EndSet(ref_count, object, p, 0))
                       /\ write_ref[p] = Cardinality(EndSet(ref_count, object, p, 1))
  BY <1>1, Zenon DEF PipeEndsCounted, Ends
<1>3. PipeEndsCounted' <=>
       \A p \in Pipe : /\ read_ref'[p] = Cardinality(EndSet(ref_count', object', p, 0))
                       /\ write_ref'[p] = Cardinality(EndSet(ref_count', object', p, 1))
  BY <1>1, Zenon DEF PipeEndsCounted, Ends
<1>4. QED
  BY <1>2, <1>3

LEMMA EndsFinite ==
  ASSUME NEW ref, NEW obj, NEW p, NEW end
  PROVE  IsFiniteSet(EndSet(ref, obj, p, end)) /\ Cardinality(EndSet(ref, obj, p, end)) \in Nat
<1>1. IsFiniteSet(EndSet(ref, obj, p, end))
  BY SlotProp, FS_Subset DEF EndSet
<1>2. QED
  BY <1>1, FS_CardinalityType

\* A step that opens and closes no end of a pipe.
LEMMA EndsKept ==
  ASSUME PipeEndsCounted, UNCHANGED <<read_ref, write_ref>>,
         \A f \in File, p \in Pipe, end \in {0, 1} :
           ref_count'[f] > 0 /\ object'[f] = PipeEnd(p, end)
             <=> ref_count[f] > 0 /\ object[f] = PipeEnd(p, end)
  PROVE  PipeEndsCounted'
<1>1. \A p \in Pipe, end \in {0, 1} :
         EndSet(ref_count', object', p, end) = EndSet(ref_count, object, p, end)
  BY DEF EndSet
<1>2. QED
  BY <1>1, EndsCounted

\* Closing files takes off the ends they are; the files N that are handed out
\* in the same step are no pipes.
LEMMA EndsClosed ==
  ASSUME PipeEndsCounted, NEW C, NEW N,
         read_ref' = [p \in Pipe |-> read_ref[p] - Ends(C, p, 0)],
         write_ref' = [p \in Pipe |-> write_ref[p] - Ends(C, p, 1)],
         object' = [f \in File |-> IF f \in C THEN Console ELSE object[f]],
         \A f \in C : f \in File /\ ref_count[f] > 0,
         \A f \in N : f \in File /\ object'[f] = Console,
         \A f \in File : ref_count'[f] > 0 <=> f \in N \/ (ref_count[f] > 0 /\ f \notin C)
  PROVE  PipeEndsCounted'
<1>1. ASSUME NEW p \in Pipe, NEW end \in {0, 1}
      PROVE  /\ Cardinality(EndSet(ref_count', object', p, end))
                  = Cardinality(EndSet(ref_count, object, p, end)) - Ends(C, p, end)
  <2> DEFINE E == EndSet(ref_count, object, p, end)
             X == {f \in C : object[f] = PipeEnd(p, end)}
  <2>1. PipeEnd(p, end) # Console
    BY SlotProp DEF PipeEnd, Console
  <2>2. EndSet(ref_count', object', p, end) = E \ X
    <3>1. ASSUME NEW f \in File
          PROVE  ref_count'[f] > 0 /\ object'[f] = PipeEnd(p, end)
                   <=> (ref_count[f] > 0 /\ object[f] = PipeEnd(p, end)) /\ f \notin X
      <4>1. object'[f] = IF f \in C THEN Console ELSE object[f]
        OBVIOUS
      <4>2. ref_count'[f] > 0 <=> f \in N \/ (ref_count[f] > 0 /\ f \notin C)
        OBVIOUS
      <4>3. f \in N => object'[f] = Console
        OBVIOUS
      <4>4. QED
        BY <2>1, <4>1, <4>2, <4>3, Zenon
    <3>2. QED
      BY <3>1 DEF EndSet
  <2>3. E \cap X = X
    BY DEF EndSet
  <2>4. IsFiniteSet(E)
    BY EndsFinite
  <2>5. Cardinality(X) = Ends(C, p, end)
    BY DEF Ends
  <2> HIDE DEF E, X
  <2>6. Cardinality(E \ X) = Cardinality(E) - Cardinality(E \cap X)
    BY <2>4, FS_Difference
  <2>7. QED
    BY <2>2, <2>3, <2>5, <2>6 DEF E
<1>2. ASSUME NEW p \in Pipe
      PROVE  /\ read_ref'[p] = Cardinality(EndSet(ref_count', object', p, 0))
             /\ write_ref'[p] = Cardinality(EndSet(ref_count', object', p, 1))
  <2>1. read_ref'[p] = read_ref[p] - Ends(C, p, 0) /\ write_ref'[p] = write_ref[p] - Ends(C, p, 1)
    OBVIOUS
  <2>2. /\ read_ref[p] = Cardinality(EndSet(ref_count, object, p, 0))
        /\ write_ref[p] = Cardinality(EndSet(ref_count, object, p, 1))
    BY EndsCounted, Zenon
  <2>3. QED
    BY <1>1, <2>1, <2>2
<1>3. QED
  BY <1>2, EndsCounted, Zenon

\* A count of ends is a number.
LEMMA EndsTyped ==
  ASSUME PipeEndsCounted', NEW p \in Pipe
  PROVE  read_ref'[p] \in Nat /\ write_ref'[p] \in Nat
<1>1. /\ read_ref'[p] = Cardinality(EndSet(ref_count', object', p, 0))
      /\ write_ref'[p] = Cardinality(EndSet(ref_count', object', p, 1))
  BY EndsCounted, Zenon
<1>2. QED
  BY <1>1, EndsFinite

---------------------------------------------------------------------------
(* What the calls have in common *)

\* The first free slot is one.
LEMMA FirstProp ==
  ASSUME NEW n \in Nat, NEW S \in SUBSET (0 .. n), S # {}
  PROVE  Nth(S, 1) \in S
<1>1. IsFiniteSet(0 .. n)
  BY FS_Interval
<1>2. IsFiniteSet(S)
  BY <1>1, FS_Subset
<1>3. Cardinality(S) \in Nat /\ Cardinality(S) # 0
  BY <1>2, FS_CardinalityType, FS_EmptySet
<1>4. 1 \in 1 .. Cardinality(S)
  BY <1>3
<1>5. QED
  BY <1>4, NthProp

\* Different ranks are different slots.
LEMMA NthDiffer ==
  ASSUME NEW n \in Nat, NEW S \in SUBSET (0 .. n),
         NEW j \in 1 .. Cardinality(S), NEW k \in 1 .. Cardinality(S), j # k
  PROVE  Nth(S, j) # Nth(S, k)
<1>1. Cardinality(Under(S, Nth(S, j))) = j - 1 /\ Cardinality(Under(S, Nth(S, k))) = k - 1
  BY NthProp
<1>2. IsFiniteSet(0 .. n)
  BY FS_Interval
<1>3. IsFiniteSet(S)
  BY <1>2, FS_Subset
<1>4. Cardinality(S) \in Nat
  BY <1>3, FS_CardinalityType
<1>5. j \in Nat /\ k \in Nat
  BY <1>4
<1>6. QED
  BY <1>1, <1>5

\* Slots that are free, as sets of numbers.
LEMMA FreeSets ==
  /\ MAX_FDS \in Nat /\ MaxFiles \in Nat /\ MaxPipes \in Nat /\ MAX_SOCKETS \in Nat
  /\ FreeFds \in SUBSET (0 .. MAX_FDS)
  /\ \A ref : FreeFiles(ref) \in SUBSET (0 .. MaxFiles)
  /\ FreePipes \in SUBSET (0 .. MaxPipes)
  /\ Socket \ open_socks \in SUBSET (0 .. MAX_SOCKETS)
BY FilesAssumption DEF FreeFds, FreeFiles, FreePipes, Fd, File, Pipe, Socket

\* The first free fd, file and socket.
LEMMA FirstFree ==
  /\ FreeFds # {} => /\ Nth(FreeFds, 1) \in Fd
                     /\ fds[current_task][Nth(FreeFds, 1)] = NULL
  /\ FreeFiles(ref_count) # {} => /\ Nth(FreeFiles(ref_count), 1) \in File
                                  /\ ref_count[Nth(FreeFiles(ref_count), 1)] = 0
  /\ Socket \ open_socks # {} => Nth(Socket \ open_socks, 1) \in Socket
<1>1. FreeFds # {} => Nth(FreeFds, 1) \in FreeFds
  BY FreeSets, FirstProp
<1>2. FreeFiles(ref_count) # {} => Nth(FreeFiles(ref_count), 1) \in FreeFiles(ref_count)
  BY FreeSets, FirstProp
<1>3. Socket \ open_socks # {} => Nth(Socket \ open_socks, 1) \in Socket \ open_socks
  BY FreeSets, FirstProp
<1>4. QED
  BY <1>1, <1>2, <1>3 DEF FreeFds, FreeFiles

\* The parts of the type invariant.
LEMMA FilesTyped ==
  ASSUME FilesInv, current_task # NULL
  PROVE  /\ current_task \in Pid
         /\ state[current_task] # FREE
         /\ fds \in [Pid -> Tables] /\ fds[current_task] \in Tables
         /\ ref_count \in [File -> Nat]
         /\ FilesTypeOK /\ RefCountExact
<1>1. current_task \in Pid /\ current_task \in Queued
  BY KInvFacts DEF FilesInv
<1>2. state[current_task] # FREE
  BY <1>1 DEF FilesInv, KInv, TaskListOK
<1>3. fds \in [Pid -> Tables] /\ ref_count \in [File -> Nat]
  BY DEF FilesInv, FilesTypeOK, Tables
<1>4. QED
  BY <1>1, <1>2, <1>3 DEF FilesInv

\* An fd call leaves the task list sound.
LEMMA CallStep ==
  ASSUME FilesInv, FdCall
  PROVE  KInv' /\ state' = state /\ current_task # NULL /\ killed' = killed
<1>1. ExecveFails /\ state' = state /\ current_task # NULL /\ killed' = killed
  BY DEF FdCall, InProgram, ExecveFails
<1>2. QED
  BY <1>1, ExecveFailsKeeps DEF FilesInv

\* The current task assigns one of its fds, and the counts follow.
LEMMA AssignFd ==
  ASSUME FilesInv, current_task # NULL, state' = state,
         NEW fd \in Fd, NEW g \in File \cup {NULL},
         fds' = [fds EXCEPT ![current_task][fd] = g],
         \A h \in File : ref_count'[h] = ref_count[h] - Hit(fds[current_task][fd], h) + Hit(g, h),
         lost' = lost
  PROVE  /\ RefCountExact'
         /\ fds' \in [Pid -> Tables]
         /\ \A h \in File : ref_count'[h] \in Nat
         /\ FreeTasksHoldNone'
<1>0. /\ current_task \in Pid
      /\ state[current_task] # FREE
      /\ fds \in [Pid -> Tables] /\ fds[current_task] \in Tables
      /\ ref_count \in [File -> Nat]
      /\ FilesTypeOK /\ RefCountExact
  BY FilesTyped
<1>1. fds'[current_task] = Put(fds[current_task], fd, g)
  BY <1>0 DEF Put
<1>2. \A u \in Pid : u # current_task => fds'[u] = fds[u]
  BY <1>0
<1>3. fds' \in [Pid -> Tables]
  BY <1>0 DEF Tables
<1>4. ASSUME NEW h \in File
      PROVE  /\ ref_count'[h] \in Int
             /\ ref_count'[h] + Cardinality(Row(fds[current_task], h))
                  = ref_count[h] + Cardinality(Row(fds'[current_task], h))
  <2>1. /\ Cardinality(Row(fds'[current_task], h)) \in Nat
        /\ Cardinality(Row(fds'[current_task], h)) + Hit(fds[current_task][fd], h)
              = Cardinality(Row(fds[current_task], h)) + Hit(g, h)
    <3>1. /\ Cardinality(Row(Put(fds[current_task], fd, g), h)) \in Nat
          /\ Cardinality(Row(Put(fds[current_task], fd, g), h)) + Hit(fds[current_task][fd], h)
               = Cardinality(Row(fds[current_task], h)) + Hit(g, h)
      BY <1>0, CellChange
    <3>2. QED
      BY <3>1, <1>1
  <2>2. ref_count'[h] = ref_count[h] - Hit(fds[current_task][fd], h) + Hit(g, h)
    OBVIOUS
  <2>3. ref_count[h] \in Nat
    BY <1>0
  <2>4. Hit(fds[current_task][fd], h) \in Nat /\ Hit(g, h) \in Nat
    BY DEF Hit
  <2>5. Cardinality(Row(fds[current_task], h)) \in Nat
    BY RowFinite
  <2>6. QED
    BY <2>1, <2>2, <2>3, <2>4, <2>5
<1>5. RefCountExact' /\ \A f \in File : ref_count'[f] \in Nat
  BY <1>0, <1>2, <1>4, RefStep
<1>6. FreeTasksHoldNone'
  <2>1. FreeTasksHoldNone
    BY DEF FilesInv
  <2>2. QED
    BY <2>1, <1>0, <1>2 DEF FreeTasksHoldNone, NoFds
<1>7. QED
  BY <1>3, <1>5, <1>6

\* What goes away when fds are released takes its ends of pipes along.
LEMMA CloseStep ==
  ASSUME FilesInv, current_task # NULL, NEW S, NEW N,
         close_files(Closed(S)),
         \A f \in File : Released(S)[f] \in Nat /\ Released(S)[f] <= ref_count[f],
         \A f \in N : f \in File /\ Released(S)[f] = 0,
         \A f \in File : ref_count'[f] \in Nat /\ (ref_count'[f] > 0 <=> f \in N \/ Released(S)[f] > 0)
  PROVE  /\ PipeEndsCounted'
         /\ FreeFilesClear'
         /\ object' \in [File -> [node : BOOLEAN, pipe : Pipe \cup {NULL}, pipe_end : {0, 1}]]
         /\ read_ref' \in [Pipe -> Nat] /\ write_ref' \in [Pipe -> Nat]
         /\ filled' \in [Pipe -> 0 .. PIPE_SIZE]
         /\ nonblocking' \in [Pipe -> BOOLEAN]
         /\ open_socks' \subseteq Socket
         /\ spins' = spins
<1> DEFINE C == Closed(S)
<1>1. /\ read_ref' = [p \in Pipe |-> read_ref[p] - Ends(C, p, 0)]
      /\ write_ref' = [p \in Pipe |-> write_ref[p] - Ends(C, p, 1)]
      /\ object' = [f \in File |-> IF f \in C THEN Console ELSE object[f]]
      /\ spins' = spins
  BY DEF close_files
<1>2. ref_count \in [File -> Nat]
  BY FilesTyped
<1>3. \A f : f \in C <=> f \in File /\ ref_count[f] > 0 /\ Released(S)[f] = 0
  BY DEF Closed
<1> HIDE DEF C
<1>4. \A f \in File : Released(S)[f] = 0 => object'[f] = Console
  <2>1. SUFFICES ASSUME NEW f \in File, Released(S)[f] = 0, f \notin C PROVE object'[f] = Console
    BY <1>1
  <2>2. ref_count[f] = 0
    BY <2>1, <1>2, <1>3
  <2>3. object[f] = Console
    BY <2>2 DEF FilesInv, FreeFilesClear
  <2>4. QED
    BY <2>1, <2>3, <1>1
<1>5. PipeEndsCounted'
  <2>1. \A f \in C : f \in File /\ ref_count[f] > 0
    BY <1>3
  <2>2. \A f \in N : f \in File /\ object'[f] = Console
    BY <1>4
  <2>3. \A f \in File : ref_count'[f] > 0 <=> f \in N \/ (ref_count[f] > 0 /\ f \notin C)
    BY <1>2, <1>3
  <2>4. PipeEndsCounted
    BY DEF FilesInv
  <2>5. QED
    BY <1>1, <2>1, <2>2, <2>3, <2>4, EndsClosed
<1>6. FreeFilesClear'
  <2>1. \A f \in File : ref_count'[f] = 0 => Released(S)[f] = 0
    OBVIOUS
  <2>2. QED
    BY <2>1, <1>4 DEF FreeFilesClear
<1>7. object' \in [File -> [node : BOOLEAN, pipe : Pipe \cup {NULL}, pipe_end : {0, 1}]]
  BY <1>1 DEF FilesInv, FilesTypeOK, Console
<1>8. read_ref' \in [Pipe -> Nat] /\ write_ref' \in [Pipe -> Nat]
  BY <1>1, <1>5, EndsTyped
<1>9. filled' \in [Pipe -> 0 .. PIPE_SIZE]
  <2>1. filled \in [Pipe -> 0 .. PIPE_SIZE] /\ 0 \in 0 .. PIPE_SIZE
    BY FilesAssumption DEF FilesInv, FilesTypeOK
  <2>2. QED
    BY <2>1 DEF close_files
<1>10. nonblocking' \in [Pipe -> BOOLEAN]
  BY DEF close_files
<1>11. open_socks' \subseteq Socket
  BY DEF close_files, FilesInv, FilesTypeOK
<1>12. QED
  BY <1>1, <1>5, <1>6, <1>7, <1>8, <1>9, <1>10, <1>11

---------------------------------------------------------------------------
(* The fd calls *)

Objects == [node : BOOLEAN, pipe : Pipe \cup {NULL}, pipe_end : {0, 1}]

\* The type invariant in parts.
LEMMA TypeParts ==
  ASSUME FilesInv
  PROVE  /\ fds \in [Pid -> Tables]
         /\ ref_count \in [File -> Nat]
         /\ object \in [File -> Objects]
         /\ sock \in [File -> Socket \cup {NULL}]
         /\ read_ref \in [Pipe -> Nat]
         /\ write_ref \in [Pipe -> Nat]
         /\ filled \in [Pipe -> 0 .. PIPE_SIZE]
         /\ nonblocking \in [Pipe -> BOOLEAN]
         /\ spins \in [Pid -> [pipe : Pipe \cup {NULL}, pipe_end : {0, 1}, left : 0 .. PIPE_SIZE + 1]]
         /\ open_socks \subseteq Socket
         /\ lost \subseteq File
         /\ killed \in BOOLEAN
BY DEF FilesInv, FilesTypeOK, Tables, Objects

\* Open files keep their objects, and a block that is handed out is no pipe.
LEMMA FreshFile ==
  ASSUME FilesInv, NEW f \in File, ref_count[f] = 0, NEW o \in Objects, o.pipe = NULL,
         object' = [object EXCEPT ![f] = o],
         \A h \in File : h # f => ref_count'[h] = ref_count[h],
         ref_count'[f] = 1,
         UNCHANGED <<read_ref, write_ref>>
  PROVE  PipeEndsCounted' /\ FreeFilesClear' /\ object' \in [File -> Objects]
<1>1. object \in [File -> Objects] /\ ref_count \in [File -> Nat]
  BY TypeParts
<1>2. \A h \in File : object'[h] = IF h = f THEN o ELSE object[h]
  BY <1>1
<1>3. \A p \in Pipe, end \in {0, 1} : o # PipeEnd(p, end)
  BY SlotProp DEF PipeEnd
<1>4. \A h \in File, p \in Pipe, end \in {0, 1} :
           ref_count'[h] > 0 /\ object'[h] = PipeEnd(p, end)
             <=> ref_count[h] > 0 /\ object[h] = PipeEnd(p, end)
  <2>1. SUFFICES ASSUME NEW h \in File, NEW p \in Pipe, NEW end \in {0, 1}
                 PROVE  ref_count'[h] > 0 /\ object'[h] = PipeEnd(p, end)
                          <=> ref_count[h] > 0 /\ object[h] = PipeEnd(p, end)
    OBVIOUS
  <2>2. CASE h = f
    BY <2>2, <1>2, <1>3
  <2>3. CASE h # f
    BY <2>3, <1>2
  <2>4. QED
    BY <2>2, <2>3
<1>5. PipeEndsCounted'
  <2>1. PipeEndsCounted
    BY DEF FilesInv
  <2>2. QED
    BY <2>1, <1>4, EndsKept
<1>6. FreeFilesClear'
  BY <1>2 DEF FilesInv, FreeFilesClear
<1>7. QED
  BY <1>1, <1>5, <1>6

\* open and socket hand out a block and an fd.
LEMMA OpenKeeps ==
  ASSUME FilesInv, Open
  PROVE  FilesInv'
<1> DEFINE f == Nth(FreeFiles(ref_count), 1)
           fd == Nth(FreeFds, 1)
<1>1. KInv' /\ state' = state /\ current_task # NULL /\ killed' = killed
  BY CallStep DEF Open
<1>2. f \in File /\ ref_count[f] = 0 /\ fd \in Fd /\ fds[current_task][fd] = NULL
  BY FirstFree DEF Open
<1>3. /\ fds' = [fds EXCEPT ![current_task][fd] = f]
      /\ ref_count' = [ref_count EXCEPT ![f] = 1]
      /\ object' = [object EXCEPT ![f] = Vnode]
      /\ UNCHANGED <<sock, read_ref, write_ref, open_socks, lost, pipeVars>>
  BY DEF Open
<1> HIDE DEF f, fd
<1>4. ref_count \in [File -> Nat] /\ NULL \notin File
  BY TypeParts, SlotProp
<1>5. \A h \in File : ref_count'[h] = ref_count[h] - Hit(fds[current_task][fd], h) + Hit(f, h)
  BY <1>2, <1>3, <1>4 DEF Hit
<1>6. /\ RefCountExact'
      /\ fds' \in [Pid -> Tables]
      /\ FreeTasksHoldNone'
  BY <1>1, <1>2, <1>3, <1>5, AssignFd
<1>7. Vnode \in Objects /\ Vnode.pipe = NULL
  BY DEF Vnode, Objects
<1>8. PipeEndsCounted' /\ FreeFilesClear' /\ object' \in [File -> Objects]
  BY <1>2, <1>3, <1>4, <1>7, FreshFile
<1>9. SpinsOK'
  BY <1>3 DEF FilesInv, SpinsOK, pipeVars
<1>10. FilesTypeOK'
  BY <1>1, <1>3, <1>4, <1>6, <1>8, TypeParts DEF FilesTypeOK, Tables, Objects, pipeVars
<1>11. QED
  BY <1>1, <1>6, <1>8, <1>9, <1>10 DEF FilesInv

LEMMA SocketKeeps ==
  ASSUME FilesInv, SocketCall
  PROVE  FilesInv'
<1> DEFINE f == Nth(FreeFiles(ref_count), 1)
           fd == Nth(FreeFds, 1)
           s == Nth(Socket \ open_socks, 1)
<1>1. KInv' /\ state' = state /\ current_task # NULL /\ killed' = killed
  BY CallStep DEF SocketCall
<1>2. f \in File /\ ref_count[f] = 0 /\ fd \in Fd /\ fds[current_task][fd] = NULL /\ s \in Socket
  BY FirstFree DEF SocketCall
<1>3. /\ fds' = [fds EXCEPT ![current_task][fd] = f]
      /\ ref_count' = [ref_count EXCEPT ![f] = 1]
      /\ object' = [object EXCEPT ![f] = Console]
      /\ sock' = [sock EXCEPT ![f] = s]
      /\ open_socks' = open_socks \cup {s}
      /\ UNCHANGED <<read_ref, write_ref, lost, pipeVars>>
  BY DEF SocketCall
<1> HIDE DEF f, fd, s
<1>4. ref_count \in [File -> Nat] /\ NULL \notin File
  BY TypeParts, SlotProp
<1>5. \A h \in File : ref_count'[h] = ref_count[h] - Hit(fds[current_task][fd], h) + Hit(f, h)
  BY <1>2, <1>3, <1>4 DEF Hit
<1>6. /\ RefCountExact'
      /\ fds' \in [Pid -> Tables]
      /\ FreeTasksHoldNone'
  BY <1>1, <1>2, <1>3, <1>5, AssignFd
<1>7. Console \in Objects /\ Console.pipe = NULL
  BY DEF Console, Objects
<1>8. PipeEndsCounted' /\ FreeFilesClear' /\ object' \in [File -> Objects]
  BY <1>2, <1>3, <1>4, <1>7, FreshFile
<1>9. SpinsOK'
  BY <1>3 DEF FilesInv, SpinsOK, pipeVars
<1>10. FilesTypeOK'
  BY <1>1, <1>2, <1>3, <1>4, <1>6, <1>8, TypeParts DEF FilesTypeOK, Tables, Objects, pipeVars
<1>11. QED
  BY <1>1, <1>6, <1>8, <1>9, <1>10 DEF FilesInv

\* A file an fd points at is open.
LEMMA HeldOpen ==
  ASSUME FilesInv, current_task # NULL, NEW fd \in Fd, fds[current_task][fd] # NULL
  PROVE  fds[current_task][fd] \in File /\ ref_count[fds[current_task][fd]] > 0
<1>1. /\ current_task \in Pid /\ fds[current_task] \in Tables
      /\ FilesTypeOK /\ RefCountExact
  BY FilesTyped
<1>2. fds[current_task][fd] \in File
  BY <1>1 DEF Tables
<1>3. PICK f \in File : f = fds[current_task][fd]
  BY <1>2
<1>4. ref_count[f] \in Nat /\ ref_count[f] - Hit(fds[current_task][fd], f) \in Nat
  <2>1. Released({fd})[f] \in Nat /\ Released({fd})[f] = ref_count[f] - Hit(fds[current_task][fd], f)
    BY <1>1, ReleasedProp
  <2>2. QED
    BY <2>1, <1>1 DEF FilesTypeOK
<1>5. QED
  BY <1>3, <1>4 DEF Hit

\* dup makes one more reference.
LEMMA DupKeeps ==
  ASSUME FilesInv, NEW fd \in Fd, Dup(fd)
  PROVE  FilesInv'
<1> DEFINE f == fds[current_task][fd]
           n == Nth(FreeFds, 1)
<1>1. KInv' /\ state' = state /\ current_task # NULL /\ killed' = killed
  BY CallStep DEF Dup
<1>2. n \in Fd /\ fds[current_task][n] = NULL
  BY FirstFree DEF Dup
<1>3. /\ f # NULL
      /\ fds' = [fds EXCEPT ![current_task][n] = f]
      /\ ref_count' = [ref_count EXCEPT ![f] = @ + 1]
      /\ UNCHANGED <<object, sock, read_ref, write_ref, open_socks, lost, pipeVars>>
  BY DEF Dup
<1>4. f \in File /\ ref_count[f] > 0
  BY <1>1, <1>3, HeldOpen
<1> HIDE DEF f, n
<1>5. ref_count \in [File -> Nat] /\ NULL \notin File
  BY TypeParts, SlotProp
<1>6. \A h \in File : ref_count'[h] = ref_count[h] - Hit(fds[current_task][n], h) + Hit(f, h)
  BY <1>2, <1>3, <1>4, <1>5 DEF Hit
<1>7. /\ RefCountExact'
      /\ fds' \in [Pid -> Tables]
      /\ FreeTasksHoldNone'
  BY <1>1, <1>2, <1>3, <1>4, <1>6, AssignFd
<1>8. \A h \in File : (ref_count'[h] > 0 <=> ref_count[h] > 0) /\ ref_count'[h] \in Nat
  BY <1>3, <1>4, <1>5
<1>9. PipeEndsCounted'
  <2>1. PipeEndsCounted
    BY DEF FilesInv
  <2>2. QED
    BY <1>3, <1>8, <2>1, EndsKept
<1>10. FreeFilesClear'
  BY <1>3, <1>5, <1>8 DEF FilesInv, FreeFilesClear
<1>11. SpinsOK'
  BY <1>3 DEF FilesInv, SpinsOK, pipeVars
<1>12. FilesTypeOK'
  BY <1>1, <1>3, <1>5, <1>7, <1>8, TypeParts DEF FilesTypeOK, Tables, Objects, pipeVars
<1>13. QED
  BY <1>1, <1>7, <1>9, <1>10, <1>11, <1>12 DEF FilesInv

\* The current task releases an fd, and may point it at a file that stays open.
LEMMA DropKeeps ==
  ASSUME FilesInv, FdCall, NEW fd \in Fd, NEW g \in File \cup {NULL},
         close_files(Closed({fd})),
         fds' = [fds EXCEPT ![current_task][fd] = g],
         ref_count' = [h \in File |-> Released({fd})[h] + Hit(g, h)],
         g # NULL => Released({fd})[g] > 0,
         UNCHANGED <<sock, lost>>
  PROVE  FilesInv'
<1>1. KInv' /\ state' = state /\ current_task # NULL /\ killed' = killed
  BY CallStep
<1>2. /\ current_task \in Pid /\ ref_count \in [File -> Nat]
      /\ FilesTypeOK /\ RefCountExact
  BY <1>1, FilesTyped
<1>3. ASSUME NEW h \in File
      PROVE  /\ ref_count[h] \in Nat
             /\ Released({fd})[h] \in Nat
             /\ Released({fd})[h] = ref_count[h] - Hit(fds[current_task][fd], h)
             /\ Released({fd})[h] <= ref_count[h]
  <2>1. /\ Released({fd})[h] \in Nat
        /\ Released({fd})[h] = ref_count[h] - Hit(fds[current_task][fd], h)
    BY <1>2, ReleasedProp
  <2>2. ref_count[h] \in Nat
    BY <1>2
  <2>3. QED
    BY <2>1, <2>2 DEF Hit
<1>4. ASSUME NEW h \in File
      PROVE  /\ ref_count'[h] = Released({fd})[h] + Hit(g, h)
             /\ ref_count'[h] \in Nat
             /\ ref_count'[h] > 0 <=> Released({fd})[h] > 0
  <2>1. ref_count'[h] = Released({fd})[h] + Hit(g, h)
    OBVIOUS
  <2>2. g = h => Released({fd})[h] > 0
    BY SlotProp
  <2>3. Released({fd})[h] \in Nat
    BY <1>3
  <2>4. CASE g = h
    <3>1. Hit(g, h) = 1
      BY <2>4 DEF Hit
    <3>2. QED
      BY <2>1, <2>2, <2>3, <2>4, <3>1
  <2>5. CASE g # h
    <3>1. Hit(g, h) = 0
      BY <2>5 DEF Hit
    <3>2. QED
      BY <2>1, <2>3, <3>1
  <2>6. QED
    BY <2>4, <2>5
<1>5. \A h \in File : ref_count'[h] = ref_count[h] - Hit(fds[current_task][fd], h) + Hit(g, h)
  BY <1>3, <1>4
<1>6. /\ RefCountExact'
      /\ fds' \in [Pid -> Tables]
      /\ FreeTasksHoldNone'
  BY <1>1, <1>5, AssignFd
<1>7. /\ PipeEndsCounted'
      /\ FreeFilesClear'
      /\ object' \in [File -> [node : BOOLEAN, pipe : Pipe \cup {NULL}, pipe_end : {0, 1}]]
      /\ read_ref' \in [Pipe -> Nat] /\ write_ref' \in [Pipe -> Nat]
      /\ filled' \in [Pipe -> 0 .. PIPE_SIZE]
      /\ nonblocking' \in [Pipe -> BOOLEAN]
      /\ open_socks' \subseteq Socket
      /\ spins' = spins
  <2>1. PICK N : N = {}
    OBVIOUS
  <2>2. \A f \in N : f \in File /\ Released({fd})[f] = 0
    BY <2>1
  <2>3. \A f \in File : ref_count'[f] \in Nat /\ (ref_count'[f] > 0 <=> f \in N \/ Released({fd})[f] > 0)
    BY <1>4, <2>1
  <2>4. \A f \in File : Released({fd})[f] \in Nat /\ Released({fd})[f] <= ref_count[f]
    BY <1>3
  <2>5. QED
    BY <1>1, <2>2, <2>3, <2>4, CloseStep
<1>8. SpinsOK'
  BY <1>7 DEF FilesInv, SpinsOK
<1>9. FilesTypeOK'
  <2>1. ref_count' \in [File -> Nat]
    BY <1>4
  <2>2. QED
    BY <1>1, <1>6, <1>7, <2>1, TypeParts DEF FilesTypeOK, Tables
<1>10. QED
  BY <1>1, <1>6, <1>7, <1>8, <1>9 DEF FilesInv

LEMMA CloseKeeps ==
  ASSUME FilesInv, NEW fd \in Fd, Close(fd)
  PROVE  FilesInv'
<1>1. /\ FdCall
      /\ close_files(Closed({fd}))
      /\ fds' = [fds EXCEPT ![current_task][fd] = NULL]
      /\ ref_count' = Released({fd})
      /\ UNCHANGED <<sock, lost>>
  BY DEF Close
<1>2. current_task # NULL
  BY <1>1, CallStep
<1>3. current_task \in Pid /\ FilesTypeOK /\ RefCountExact
  BY <1>2, FilesTyped
<1>4. ref_count' = [h \in File |-> Released({fd})[h] + Hit(NULL, h)]
  <2>1. \A h \in File : Released({fd})[h] + Hit(NULL, h) = Released({fd})[h]
    <3>1. SUFFICES ASSUME NEW h \in File PROVE Released({fd})[h] + Hit(NULL, h) = Released({fd})[h]
      OBVIOUS
    <3>2. Released({fd})[h] \in Nat
      BY <1>3, ReleasedProp
    <3>3. Hit(NULL, h) = 0
      BY SlotProp DEF Hit
    <3>4. QED
      BY <3>2, <3>3
  <2>2. Released({fd}) = [h \in File |-> Released({fd})[h]]
    BY DEF Released
  <2>3. QED
    BY <1>1, <2>1, <2>2
<1>5. NULL \in File \cup {NULL}
  OBVIOUS
<1>6. QED
  BY <1>1, <1>4, <1>5, DropKeeps

\* dup2 releases newfd first; the file of oldfd stays open, for oldfd holds it.
LEMMA Dup2Keeps ==
  ASSUME FilesInv, NEW oldfd \in Fd, NEW newfd \in Fd, Dup2(oldfd, newfd)
  PROVE  FilesInv'
<1> DEFINE f == fds[current_task][oldfd]
           g == IF oldfd = newfd THEN NULL ELSE f
<1>1. /\ FdCall
      /\ f # NULL
      /\ close_files(Closed({newfd}))
      /\ fds' = [fds EXCEPT ![current_task][newfd] = g]
      /\ ref_count' = [h \in File |-> Released({newfd})[h] + IF h = g THEN 1 ELSE 0]
      /\ UNCHANGED <<sock, lost>>
  BY DEF Dup2, dup2_drops
<1>2. current_task # NULL
  BY <1>1, CallStep
<1>3. current_task \in Pid /\ FilesTypeOK /\ RefCountExact
  BY <1>2, FilesTyped
<1>4. f \in File /\ ref_count[f] > 0
  BY <1>1, <1>2, HeldOpen
<1>5. oldfd # newfd => Released({newfd})[f] > 0
  <2>1. SUFFICES ASSUME oldfd # newfd PROVE Released({newfd})[f] > 0
    OBVIOUS
  <2>2. PICK h \in File : h = f
    BY <1>4
  <2>3. Released({newfd})[h] = ref_count[h] - Hit(fds[current_task][newfd], h)
    BY <1>3, ReleasedProp
  <2>4. /\ ref_count[h] \in Nat
        /\ Cardinality(Row(fds[current_task], h)) \in Nat
        /\ Cardinality(Row(fds[current_task], h)) <= ref_count[h]
    BY <1>3, RowBound
  <2>5. CASE fds[current_task][newfd] # h
    BY <2>2, <2>3, <2>4, <2>5, <1>4 DEF Hit
  <2>6. CASE fds[current_task][newfd] = h
    <3> DEFINE R == Row(fds[current_task], h)
    <3>1. newfd \in R /\ oldfd \in R \ {newfd}
      BY <2>1, <2>2, <2>6 DEF Row
    <3>2. IsFiniteSet(R)
      BY RowFinite
    <3> HIDE DEF R
    <3>3. Cardinality(R \ {newfd}) = Cardinality(R) - 1 /\ IsFiniteSet(R \ {newfd})
      BY <3>1, <3>2, FS_RemoveElement
    <3>4. Cardinality(R \ {newfd}) # 0 /\ Cardinality(R \ {newfd}) \in Nat
      BY <3>1, <3>3, FS_EmptySet, FS_CardinalityType
    <3>5. Cardinality(R) \in Nat /\ Cardinality(R) <= ref_count[h]
      BY <2>4 DEF R
    <3>6. ref_count[h] >= 2
      BY <3>3, <3>4, <3>5, <2>4
    <3>7. QED
      BY <2>2, <2>3, <2>4, <2>6, <3>6 DEF Hit
  <2>7. QED
    BY <2>5, <2>6
<1>6. g \in File \cup {NULL} /\ (g # NULL => Released({newfd})[g] > 0)
  BY <1>4, <1>5
<1> HIDE DEF g
<1>7. ref_count' = [h \in File |-> Released({newfd})[h] + Hit(g, h)]
  BY <1>1 DEF Hit
<1>8. QED
  BY <1>1, <1>6, <1>7, DropKeeps

\* FIONBIO changes a flag.
LEMMA FionbioKeeps ==
  ASSUME FilesInv, NEW fd \in Fd, NEW nb \in BOOLEAN, Fionbio(fd, nb)
  PROVE  FilesInv'
<1>1. KInv' /\ state' = state /\ current_task # NULL /\ killed' = killed
  BY CallStep DEF Fionbio
<1>2. /\ nonblocking' = [nonblocking EXCEPT ![PipeOf(fd)] = nb]
      /\ UNCHANGED <<fds, ref_count, object, sock, read_ref, write_ref, open_socks,
                     lost, filled, spins>>
  BY DEF Fionbio
<1>3. nonblocking' \in [Pipe -> BOOLEAN]
  BY <1>2, TypeParts
<1>4. FilesTypeOK'
  BY <1>1, <1>2, <1>3, TypeParts DEF FilesTypeOK, Tables, Objects
<1>5. RefCountExact' /\ PipeEndsCounted'
  BY <1>2 DEF FilesInv, RefCountExact, References, PipeEndsCounted, Ends
<1>6. FreeTasksHoldNone' /\ FreeFilesClear' /\ SpinsOK'
  BY <1>1, <1>2 DEF FilesInv, FreeTasksHoldNone, FreeFilesClear, SpinsOK
<1>7. QED
  BY <1>1, <1>4, <1>5, <1>6 DEF FilesInv

\* The two ends of a new pipe; `one' says that the reading end is closed again.
LEMMA NewEnds ==
  ASSUME FilesInv, NEW r \in File, NEW w \in File, r # w, ref_count[r] = 0, ref_count[w] = 0,
         NEW p \in Pipe, read_ref[p] = 0, write_ref[p] = 0, NEW one \in BOOLEAN,
         object' = [object EXCEPT ![r] = IF one THEN Console ELSE PipeEnd(p, 0),
                                  ![w] = PipeEnd(p, 1)],
         ref_count' = [ref_count EXCEPT ![r] = IF one THEN 0 ELSE 1, ![w] = 1],
         read_ref' = [read_ref EXCEPT ![p] = IF one THEN 0 ELSE 1],
         write_ref' = [write_ref EXCEPT ![p] = 1]
  PROVE  /\ PipeEndsCounted' /\ FreeFilesClear'
         /\ object' \in [File -> Objects] /\ ref_count' \in [File -> Nat]
         /\ read_ref' \in [Pipe -> Nat] /\ write_ref' \in [Pipe -> Nat]
<1>1. object \in [File -> Objects] /\ ref_count \in [File -> Nat]
      /\ read_ref \in [Pipe -> Nat] /\ write_ref \in [Pipe -> Nat]
  BY TypeParts
<1>2. Console \in Objects /\ PipeEnd(p, 0) \in Objects /\ PipeEnd(p, 1) \in Objects
  BY DEF Console, PipeEnd, Objects
<1>3. \A q \in Pipe, e \in {0, 1} : PipeEnd(q, e) # Console
  BY SlotProp DEF PipeEnd, Console
<1>4. \A q \in Pipe, e, d \in {0, 1} : PipeEnd(q, e) = PipeEnd(p, d) <=> q = p /\ e = d
  BY DEF PipeEnd
<1>5. /\ object'[w] = PipeEnd(p, 1) /\ object'[r] = IF one THEN Console ELSE PipeEnd(p, 0)
      /\ ref_count'[w] = 1 /\ ref_count'[r] = IF one THEN 0 ELSE 1
      /\ \A h \in File : h # r /\ h # w => object'[h] = object[h] /\ ref_count'[h] = ref_count[h]
      /\ object' \in [File -> Objects] /\ ref_count' \in [File -> Nat]
  BY <1>1, <1>2
<1>6. \A q \in Pipe : /\ read_ref[q] = Cardinality(EndSet(ref_count, object, q, 0))
                      /\ write_ref[q] = Cardinality(EndSet(ref_count, object, q, 1))
  BY EndsCounted, Zenon DEF FilesInv
<1>7. \A e \in {0, 1} : EndSet(ref_count, object, p, e) = {}
  <2>1. \A e : IsFiniteSet(EndSet(ref_count, object, p, e))
    BY EndsFinite
  <2>2. QED
    BY <1>6, <2>1, FS_EmptySet
<1>8. EndSet(ref_count', object', p, 1) = {w}
  <2>1. ASSUME NEW h \in File PROVE ref_count'[h] > 0 /\ object'[h] = PipeEnd(p, 1) <=> h = w
    <3>1. CASE h = w
      BY <3>1, <1>5
    <3>2. CASE h = r
      <4>1. PipeEnd(p, 0) # PipeEnd(p, 1) /\ Console # PipeEnd(p, 1)
        BY <1>3, <1>4
      <4>2. QED
        BY <3>2, <4>1, <1>5
    <3>3. CASE h # w /\ h # r
      <4>1. ~(ref_count[h] > 0 /\ object[h] = PipeEnd(p, 1))
        BY <1>7 DEF EndSet
      <4>2. QED
        BY <3>3, <4>1, <1>5
    <3>4. QED
      BY <3>1, <3>2, <3>3
  <2>2. QED
    BY <2>1 DEF EndSet
<1>9. EndSet(ref_count', object', p, 0) = IF one THEN {} ELSE {r}
  <2>1. ASSUME NEW h \in File PROVE ref_count'[h] > 0 /\ object'[h] = PipeEnd(p, 0) <=> ~one /\ h = r
    <3>0. PipeEnd(p, 0) # PipeEnd(p, 1) /\ Console # PipeEnd(p, 0)
      BY <1>3, <1>4
    <3>1. CASE h = w
      BY <3>0, <3>1, <1>5
    <3>2. CASE h = r
      BY <3>0, <3>2, <1>5
    <3>3. CASE h # w /\ h # r
      <4>1. ~(ref_count[h] > 0 /\ object[h] = PipeEnd(p, 0))
        BY <1>7 DEF EndSet
      <4>2. QED
        BY <3>3, <4>1, <1>5
    <3>4. QED
      BY <3>1, <3>2, <3>3
  <2>2. CASE one
    BY <2>1, <2>2 DEF EndSet
  <2>3. CASE ~one
    BY <2>1, <2>3 DEF EndSet
  <2>4. QED
    BY <2>2, <2>3
<1>10. ASSUME NEW q \in Pipe, q # p, NEW e \in {0, 1}
       PROVE  EndSet(ref_count', object', q, e) = EndSet(ref_count, object, q, e)
  <2>0. PipeEnd(q, e) # PipeEnd(p, 0) /\ PipeEnd(q, e) # PipeEnd(p, 1) /\ PipeEnd(q, e) # Console
    BY <1>3, <1>4, <1>10
  <2>1. ASSUME NEW h \in File
        PROVE  ref_count'[h] > 0 /\ object'[h] = PipeEnd(q, e)
                 <=> ref_count[h] > 0 /\ object[h] = PipeEnd(q, e)
    <3>1. CASE h = w
      BY <3>1, <2>0, <1>5
    <3>2. CASE h = r
      BY <3>2, <2>0, <1>5
    <3>3. CASE h # w /\ h # r
      BY <3>3, <1>5
    <3>4. QED
      BY <3>1, <3>2, <3>3
  <2>2. QED
    BY <2>1 DEF EndSet
<1>11. ASSUME NEW q \in Pipe
       PROVE  /\ read_ref'[q] = Cardinality(EndSet(ref_count', object', q, 0))
              /\ write_ref'[q] = Cardinality(EndSet(ref_count', object', q, 1))
  <2>1. CASE q = p
    <3>1. read_ref'[p] = (IF one THEN 0 ELSE 1) /\ write_ref'[p] = 1
      BY <1>1
    <3>2. Cardinality({}) = 0 /\ Cardinality({r}) = 1 /\ Cardinality({w}) = 1
      BY FS_EmptySet, FS_Singleton
    <3>3. Cardinality(EndSet(ref_count', object', p, 0)) = IF one THEN 0 ELSE 1
      BY <1>9, <3>2
    <3>4. QED
      BY <2>1, <1>8, <3>1, <3>2, <3>3
  <2>2. CASE q # p
    <3>1. read_ref'[q] = read_ref[q] /\ write_ref'[q] = write_ref[q]
      BY <1>1, <2>2
    <3>2. QED
      BY <3>1, <1>6, <1>10, <2>2
  <2>3. QED
    BY <2>1, <2>2
<1>12. PipeEndsCounted'
  BY <1>11, EndsCounted, Zenon
<1>13. FreeFilesClear'
  <2>1. ASSUME NEW h \in File, ref_count'[h] = 0 PROVE object'[h] = Console
    <3>1. CASE h = r
      BY <3>1, <2>1, <1>5
    <3>2. CASE h # r
      <4>1. h # w
        BY <2>1, <1>5
      <4>2. QED
        BY <2>1, <3>2, <4>1, <1>5 DEF FilesInv, FreeFilesClear
    <3>3. QED
      BY <3>1, <3>2
  <2>2. QED
    BY <2>1 DEF FreeFilesClear
<1>14. read_ref' \in [Pipe -> Nat] /\ write_ref' \in [Pipe -> Nat]
  BY <1>1
<1>15. QED
  BY <1>5, <1>12, <1>13, <1>14

\* Two fds are assigned at once.
LEMMA TwoCells ==
  ASSUME NEW x \in Tables, NEW a \in Fd, NEW b \in Fd, a # b, x[a] = NULL, x[b] = NULL,
         NEW r \in File, NEW w \in File, NEW h \in File,
         NEW y, y = [x EXCEPT ![a] = r, ![b] = w]
  PROVE  /\ y \in Tables
         /\ Cardinality(Row(y, h)) = Cardinality(Row(x, h)) + Hit(r, h) + Hit(w, h)
<1>0. x \in [Fd -> File \cup {NULL}]
  BY DEF Tables
<1>1. PICK z : z = Put(x, a, r)
  OBVIOUS
<1>2. z \in [Fd -> File \cup {NULL}] /\ z[b] = NULL /\ y = Put(z, b, w)
  BY <1>0, <1>1 DEF Put
<1>3. z \in Tables
  BY <1>2 DEF Tables
<1>4. Cardinality(Row(z, h)) + Hit(x[a], h) = Cardinality(Row(x, h)) + Hit(r, h)
  BY <1>1, CellChange
<1>5. Cardinality(Row(y, h)) + Hit(z[b], h) = Cardinality(Row(z, h)) + Hit(w, h)
  <2>1. Cardinality(Row(Put(z, b, w), h)) + Hit(z[b], h) = Cardinality(Row(z, h)) + Hit(w, h)
    BY <1>3, CellChange
  <2>2. QED
    BY <1>2, <2>1
<1>6. Hit(x[a], h) = 0 /\ Hit(z[b], h) = 0
  BY <1>2, SlotProp DEF Hit
<1>7. Hit(r, h) \in Nat /\ Hit(w, h) \in Nat
  BY DEF Hit
<1>8. Cardinality(Row(z, h)) \in Nat /\ Cardinality(Row(y, h)) \in Nat /\ Cardinality(Row(x, h)) \in Nat
  BY RowFinite
<1>9. Cardinality(Row(y, h)) = Cardinality(Row(x, h)) + Hit(r, h) + Hit(w, h)
  BY <1>4, <1>5, <1>6, <1>7, <1>8
<1>10. y \in Tables
  BY <1>2 DEF Tables
<1>11. QED
  BY <1>9, <1>10

\* A file that is free is not lost, and nobody points at it.
LEMMA FreeFile ==
  ASSUME FilesInv, NEW f \in File, ref_count[f] = 0
  PROVE  f \notin lost /\ Cardinality(Refs(fds, f)) = 0
<1>1. IF f \in lost THEN ref_count[f] > Cardinality(Refs(fds, f))
                    ELSE ref_count[f] = Cardinality(Refs(fds, f))
  BY ExactRefs, Zenon DEF FilesInv
<1>2. 1 \in Pid
  BY ProcessAssumption DEF Pid
<1>3. Cardinality(Refs(fds, f)) \in Nat
  BY <1>2, RowChange
<1>4. QED
  BY <1>1, <1>3

\* pipe: with two fds both ends are reachable, with fewer what got none is lost.
LEMMA PipeCallKeeps ==
  ASSUME FilesInv, PipeCall
  PROVE  FilesInv'
<1> DEFINE r == Nth(FreeFiles(ref_count), 1)
           w == Nth(FreeFiles(ref_count), 2)
           p == Nth(FreePipes, 1)
           n == Cardinality(FreeFds)
           a == Nth(FreeFds, 1)
           b == Nth(FreeFds, 2)
<1>1. KInv' /\ state' = state /\ current_task # NULL /\ killed' = killed
  BY CallStep DEF PipeCall
<1>2. /\ Cardinality(FreeFiles(ref_count)) >= 2 /\ FreePipes # {}
      /\ object' = [object EXCEPT ![r] = IF n = 1 THEN Console ELSE PipeEnd(p, 0),
                                  ![w] = PipeEnd(p, 1)]
      /\ IF n >= 2
         THEN fds' = [fds EXCEPT ![current_task][a] = r, ![current_task][b] = w]
         ELSE UNCHANGED fds
      /\ ref_count' = [ref_count EXCEPT ![r] = IF n = 1 THEN 0 ELSE 1, ![w] = 1]
      /\ read_ref' = [read_ref EXCEPT ![p] = IF n = 1 THEN 0 ELSE 1]
      /\ write_ref' = [write_ref EXCEPT ![p] = 1]
      /\ lost' = lost \cup (IF n = 0 THEN {r, w} ELSE IF n = 1 THEN {w} ELSE {})
      /\ UNCHANGED <<sock, open_socks, pipeVars>>
  BY DEF PipeCall
<1>3. r \in File /\ w \in File /\ r # w /\ ref_count[r] = 0 /\ ref_count[w] = 0
  <2> DEFINE S == FreeFiles(ref_count)
  <2>1. MaxFiles \in Nat /\ S \in SUBSET (0 .. MaxFiles)
    BY FreeSets
  <2>2. IsFiniteSet(S)
    BY SlotProp, FS_Subset DEF FreeFiles
  <2>3. Cardinality(S) \in Nat /\ Cardinality(S) >= 2
    BY <2>2, <1>2, FS_CardinalityType
  <2>4. 1 \in 1 .. Cardinality(S) /\ 2 \in 1 .. Cardinality(S)
    BY <2>3
  <2> HIDE DEF S
  <2>5. Nth(S, 1) \in S /\ Nth(S, 2) \in S
    BY <2>1, <2>4, NthProp
  <2>6. Nth(S, 1) # Nth(S, 2)
    BY <2>1, <2>4, NthDiffer
  <2>7. QED
    BY <2>5, <2>6 DEF S, FreeFiles
<1>4. p \in Pipe /\ read_ref[p] = 0 /\ write_ref[p] = 0
  <2>1. p \in FreePipes
    BY <1>2, FreeSets, FirstProp
  <2>2. QED
    BY <2>1 DEF FreePipes
<1>5. n \in Nat
  <2>1. IsFiniteSet(FreeFds)
    BY SlotProp, FS_Subset DEF FreeFds
  <2>2. QED
    BY <2>1, FS_CardinalityType
<1>6. n >= 2 => /\ a \in Fd /\ b \in Fd /\ a # b
                /\ fds[current_task][a] = NULL /\ fds[current_task][b] = NULL
  <2>1. SUFFICES ASSUME n >= 2
                 PROVE  /\ a \in Fd /\ b \in Fd /\ a # b
                        /\ fds[current_task][a] = NULL /\ fds[current_task][b] = NULL
    OBVIOUS
  <2>2. MAX_FDS \in Nat /\ FreeFds \in SUBSET (0 .. MAX_FDS)
    BY FreeSets
  <2>3. 1 \in 1 .. Cardinality(FreeFds) /\ 2 \in 1 .. Cardinality(FreeFds)
    BY <2>1, <1>5
  <2>4. a \in FreeFds /\ b \in FreeFds
    BY <2>2, <2>3, NthProp
  <2>5. a # b
    BY <2>2, <2>3, NthDiffer
  <2>6. QED
    BY <2>4, <2>5 DEF FreeFds
<1> HIDE DEF r, w, p, n, a, b
<1>7. /\ PipeEndsCounted' /\ FreeFilesClear'
      /\ object' \in [File -> Objects] /\ ref_count' \in [File -> Nat]
      /\ read_ref' \in [Pipe -> Nat] /\ write_ref' \in [Pipe -> Nat]
  <2>1. PICK one \in BOOLEAN : one <=> n = 1
    OBVIOUS
  <2>2. /\ object' = [object EXCEPT ![r] = IF one THEN Console ELSE PipeEnd(p, 0),
                                    ![w] = PipeEnd(p, 1)]
        /\ ref_count' = [ref_count EXCEPT ![r] = IF one THEN 0 ELSE 1, ![w] = 1]
        /\ read_ref' = [read_ref EXCEPT ![p] = IF one THEN 0 ELSE 1]
    BY <1>2, <2>1
  <2>3. QED
    BY <1>2, <1>3, <1>4, <2>2, NewEnds
<1>8. /\ current_task \in Pid
      /\ state[current_task] # FREE
      /\ fds \in [Pid -> Tables] /\ fds[current_task] \in Tables
      /\ ref_count \in [File -> Nat]
      /\ FilesTypeOK /\ RefCountExact
  BY <1>1, FilesTyped
<1>9. /\ ref_count'[w] = 1 /\ ref_count'[r] = IF n = 1 THEN 0 ELSE 1
      /\ \A h \in File : h # r /\ h # w => ref_count'[h] = ref_count[h]
  BY <1>2, <1>3, <1>8
<1>10. /\ RefCountExact'
       /\ fds' \in [Pid -> Tables]
       /\ lost' \subseteq File
       /\ FreeTasksHoldNone'
  <2>0. lost \subseteq File /\ FreeTasksHoldNone
    BY TypeParts DEF FilesInv
  <2>1. CASE n >= 2
    <3>1. lost' = lost /\ n # 0 /\ n # 1
      BY <1>2, <1>5, <2>1
    <3>2. fds' = [fds EXCEPT ![current_task][a] = r, ![current_task][b] = w]
      BY <1>2, <2>1
    <3>3. fds'[current_task] = [fds[current_task] EXCEPT ![a] = r, ![b] = w]
          /\ \A u \in Pid : u # current_task => fds'[u] = fds[u]
      BY <3>2, <1>8
    <3>4. ASSUME NEW h \in File
          PROVE  /\ fds'[current_task] \in Tables
                 /\ Cardinality(Row(fds'[current_task], h))
                     = Cardinality(Row(fds[current_task], h)) + Hit(r, h) + Hit(w, h)
      BY <1>3, <1>6, <1>8, <2>1, <3>3, TwoCells
    <3>5. ASSUME NEW h \in File
          PROVE  /\ ref_count'[h] \in Int
                 /\ ref_count'[h] + Cardinality(Row(fds[current_task], h))
                      = ref_count[h] + Cardinality(Row(fds'[current_task], h))
      <4>1. ref_count'[h] = ref_count[h] + Hit(r, h) + Hit(w, h) /\ ref_count[h] \in Nat
        BY <1>3, <1>8, <1>9, <3>1 DEF Hit
      <4>2. Hit(r, h) \in Nat /\ Hit(w, h) \in Nat
        BY DEF Hit
      <4>3. Cardinality(Row(fds[current_task], h)) \in Nat
        BY RowFinite
      <4>4. QED
        BY <4>1, <4>2, <4>3, <3>4
    <3>6. RefCountExact'
      BY <1>8, <3>1, <3>3, <3>5, RefStep
    <3>7. fds' \in [Pid -> Tables]
      BY <1>3, <3>2, <3>3, <3>4, <1>8
    <3>8. FreeTasksHoldNone'
      BY <1>1, <1>8, <2>0, <3>3 DEF FreeTasksHoldNone, NoFds
    <3>9. QED
      BY <2>0, <3>1, <3>6, <3>7, <3>8
  <2>2. CASE ~(n >= 2)
    <3>1. fds' = fds /\ (n = 0 \/ n = 1)
      BY <1>2, <1>5, <2>2
    <3>2. lost' = lost \cup (IF n = 0 THEN {r, w} ELSE {w})
      BY <1>2, <3>1
    <3>3. r \notin lost /\ w \notin lost /\ Cardinality(Refs(fds, r)) = 0 /\ Cardinality(Refs(fds, w)) = 0
      BY <1>3, FreeFile
    <3>4. ASSUME NEW f \in File
          PROVE  IF f \in lost' THEN ref_count'[f] > Cardinality(Refs(fds', f))
                                ELSE ref_count'[f] = Cardinality(Refs(fds', f))
      <4>1. CASE f = w
        BY <4>1, <1>9, <3>1, <3>2, <3>3
      <4>2. CASE f = r
        BY <4>2, <1>3, <1>9, <3>1, <3>2, <3>3
      <4>3. CASE f # r /\ f # w
        <5>1. IF f \in lost THEN ref_count[f] > Cardinality(Refs(fds, f))
                            ELSE ref_count[f] = Cardinality(Refs(fds, f))
          BY ExactRefs, Zenon DEF FilesInv
        <5>2. f \in lost' <=> f \in lost
          BY <4>3, <3>2
        <5>3. QED
          BY <4>3, <5>1, <5>2, <1>9, <3>1
      <4>4. QED
        BY <4>1, <4>2, <4>3
    <3>5. RefCountExact'
      BY <3>4, ExactRefs, Zenon
    <3>6. QED
      BY <2>0, <3>1, <3>2, <3>5, <1>1, <1>3, <1>8 DEF FreeTasksHoldNone
  <2>3. QED
    BY <2>1, <2>2
<1>11. SpinsOK'
  BY <1>2 DEF FilesInv, SpinsOK, pipeVars
<1>12. FilesTypeOK'
  BY <1>1, <1>2, <1>7, <1>10, TypeParts DEF FilesTypeOK, Tables, Objects, pipeVars
<1>13. QED
  BY <1>1, <1>7, <1>10, <1>11, <1>12 DEF FilesInv

---------------------------------------------------------------------------
(* Reading and writing pipes *)

LEMMA MinProp ==
  ASSUME NEW a \in Int, NEW b \in Int
  PROVE  /\ Min({a, b}) \in {a, b}
         /\ Min({a, b}) <= a /\ Min({a, b}) <= b
<1>1. \E x \in {a, b} : \A y \in {a, b} : x <= y
  <2>1. CASE a <= b
    BY <2>1
  <2>2. CASE b <= a
    BY <2>2
  <2>3. QED
    BY <2>1, <2>2
<1>2. QED
  BY <1>1 DEF Min

\* What a task may wait for.
Waits == [pipe : Pipe \cup {NULL}, pipe_end : {0, 1}, left : 0 .. PIPE_SIZE + 1]

\* A step of a pipe call keeps what it does not touch.
LEMMA IOStep ==
  ASSUME FilesInv, current_task # NULL, PipeStep,
         filled' \in [Pipe -> 0 .. PIPE_SIZE],
         spins' \in [Pid -> Waits],
         SpinsOK'
  PROVE  FilesInv'
<1>1. /\ ring' = ring /\ next_pid' = next_pid /\ state' = state /\ ppid' = ppid
      /\ exit_code' = exit_code /\ img_size' = img_size
      /\ img_snapshot' = img_snapshot /\ image' = image /\ prog' = prog
  BY DEF PipeStep
<1>2. current_task' = SyscallReturn(ring, state) \/ current_task' = current_task
  BY DEF PipeStep
<1>3. KInv'
  <2>1. KInv
    BY DEF FilesInv
  <2>2. CASE current_task' = SyscallReturn(ring, state)
    <3>1. ExecveFails
      BY <1>1, <2>2 DEF ExecveFails
    <3>2. QED
      BY <2>1, <3>1, ExecveFailsKeeps
  <2>3. CASE current_task' = current_task
    <3>1. [KillNext]_vars
      BY <1>1, <2>3 DEF vars
    <3>2. QED
      BY <2>1, <3>1, NextKInv
  <2>4. QED
    BY <1>2, <2>2, <2>3
<1>4. UNCHANGED <<fds, ref_count, object, sock, read_ref, write_ref, open_socks,
                 lost, nonblocking, killed>>
  BY DEF PipeStep
<1>5. FilesTypeOK'
  BY <1>4, TypeParts DEF FilesTypeOK, Tables, Objects, Waits
<1>6. RefCountExact' /\ PipeEndsCounted'
  BY <1>4 DEF FilesInv, RefCountExact, References, PipeEndsCounted, Ends
<1>7. FreeTasksHoldNone' /\ FreeFilesClear'
  BY <1>1, <1>4 DEF FilesInv, FreeTasksHoldNone, FreeFilesClear
<1>8. QED
  BY <1>3, <1>5, <1>6, <1>7 DEF FilesInv

\* A pipe call moves as much as it can, and waits with the rest or is done.
LEMMA MoveProp ==
  ASSUME FilesInv, current_task # NULL, NEW p \in Pipe, NEW left \in 0 .. PIPE_SIZE + 1,
         pipe_write(p, left) \/ pipe_read(p, left)
  PROVE  /\ filled' \in [Pipe -> 0 .. PIPE_SIZE]
         /\ spins' \in [Pid -> Waits]
         /\ SpinsOK'
<1>1. current_task \in Pid
  BY FilesTyped
<1>2. /\ filled \in [Pipe -> 0 .. PIPE_SIZE] /\ spins \in [Pid -> Waits]
      /\ filled[p] \in Nat /\ filled[p] <= PIPE_SIZE /\ PIPE_SIZE \in Nat
      /\ left \in Nat /\ left <= PIPE_SIZE + 1
  BY TypeParts, FilesAssumption DEF Waits
<1>3. NoWait \in Waits
  BY <1>2 DEF NoWait, Waits
<1>4. ASSUME NEW x \in Nat, x <= PIPE_SIZE, filled' = [filled EXCEPT ![p] = x],
             NEW v, v = NoWait \/ \E end \in {0, 1}, m \in 0 .. left :
                                    v = [pipe |-> p, pipe_end |-> end, left |-> m],
             spins' = [spins EXCEPT ![current_task] = v]
      PROVE  /\ filled' \in [Pipe -> 0 .. PIPE_SIZE]
             /\ spins' \in [Pid -> Waits]
             /\ SpinsOK'
  <2>1. x \in 0 .. PIPE_SIZE
    BY <1>2, <1>4
  <2>2. filled' \in [Pipe -> 0 .. PIPE_SIZE]
    BY <1>2, <1>4, <2>1
  <2>3. v \in Waits /\ (v = NoWait \/ v.pipe \in Pipe)
    <3>1. CASE v = NoWait
      BY <3>1, <1>3
    <3>2. ASSUME NEW end \in {0, 1}, NEW m \in 0 .. left,
                 v = [pipe |-> p, pipe_end |-> end, left |-> m]
          PROVE  v \in Waits /\ v.pipe \in Pipe
      <4>1. m \in 0 .. PIPE_SIZE + 1
        BY <1>2
      <4>2. QED
        BY <3>2, <4>1 DEF Waits
    <3>3. QED
      BY <3>1, <3>2, <1>4
  <2>4. spins' \in [Pid -> Waits] /\ \A t \in Pid : spins'[t] = IF t = current_task THEN v ELSE spins[t]
    BY <1>1, <1>2, <1>4, <2>3
  <2>5. SpinsOK'
    BY <2>3, <2>4 DEF FilesInv, SpinsOK, NoWait
  <2>6. QED
    BY <2>2, <2>4, <2>5
<1>5. CASE pipe_write(p, left)
  <2> DEFINE n == Min({left, PIPE_SIZE - filled[p]})
  <2>1. PIPE_SIZE - filled[p] \in Int /\ left \in Int
    BY <1>2
  <2>2. n \in {left, PIPE_SIZE - filled[p]} /\ n <= left /\ n <= PIPE_SIZE - filled[p]
    BY <2>1, MinProp
  <2>3. /\ filled' = [filled EXCEPT ![p] = @ + n]
        /\ spins' = [spins EXCEPT ![current_task] =
                     IF n = left \/ nonblocking[p] THEN NoWait
                     ELSE [pipe |-> p, pipe_end |-> 1, left |-> left - n]]
    BY <1>5 DEF pipe_write
  <2> HIDE DEF n
  <2>4. n \in Nat /\ filled[p] + n \in Nat /\ filled[p] + n <= PIPE_SIZE /\ left - n \in 0 .. left
    BY <1>2, <2>2
  <2>5. filled' = [filled EXCEPT ![p] = filled[p] + n]
    BY <1>2, <2>3
  <2>6. PICK v : v = IF n = left \/ nonblocking[p] THEN NoWait
                     ELSE [pipe |-> p, pipe_end |-> 1, left |-> left - n]
    OBVIOUS
  <2>7. v = NoWait \/ \E end \in {0, 1}, m \in 0 .. left :
                                    v = [pipe |-> p, pipe_end |-> end, left |-> m]
    BY <2>4, <2>6
  <2>8. spins' = [spins EXCEPT ![current_task] = v]
    BY <2>3, <2>6, Zenon
  <2>9. QED
    BY <1>4, <2>4, <2>5, <2>7, <2>8
<1>6. CASE pipe_read(p, left)
  <2> DEFINE n == Min({left, filled[p]})
  <2>1. filled[p] \in Int /\ left \in Int
    BY <1>2
  <2>2. n \in {left, filled[p]} /\ n <= left /\ n <= filled[p]
    BY <2>1, MinProp
  <2>3. /\ filled' = [filled EXCEPT ![p] = @ - n]
        /\ spins' = [spins EXCEPT ![current_task] =
                     IF n = left \/ ~reader_waits(p) THEN NoWait
                     ELSE [pipe |-> p, pipe_end |-> 0, left |-> left - n]]
    BY <1>6 DEF pipe_read
  <2> HIDE DEF n
  <2>4. n \in Nat /\ filled[p] - n \in Nat /\ filled[p] - n <= PIPE_SIZE /\ left - n \in 0 .. left
    BY <1>2, <2>2
  <2>5. filled' = [filled EXCEPT ![p] = filled[p] - n]
    BY <1>2, <2>3
  <2>6. PICK v : v = IF n = left \/ ~reader_waits(p) THEN NoWait
                     ELSE [pipe |-> p, pipe_end |-> 0, left |-> left - n]
    OBVIOUS
  <2>7. v = NoWait \/ \E end \in {0, 1}, m \in 0 .. left :
                                    v = [pipe |-> p, pipe_end |-> end, left |-> m]
    BY <2>4, <2>6
  <2>8. spins' = [spins EXCEPT ![current_task] = v]
    BY <2>3, <2>6, Zenon
  <2>9. QED
    BY <1>4, <2>4, <2>5, <2>7, <2>8
<1>7. QED
  BY <1>5, <1>6

\* An fd that leads to a pipe leads to one that exists.
LEMMA PipeOfProp ==
  ASSUME FilesInv, current_task # NULL, NEW fd \in Fd, PipeOf(fd) # NULL
  PROVE  PipeOf(fd) \in Pipe
<1>1. fds[current_task] \in Tables /\ object \in [File -> Objects]
  BY FilesTyped, TypeParts
<1>2. fds[current_task][fd] \in File /\ PipeOf(fd) = object[fds[current_task][fd]].pipe
  BY <1>1 DEF PipeOf, Tables
<1>3. QED
  BY <1>1, <1>2 DEF Objects

LEMMA PipeIOKeeps ==
  ASSUME FilesInv,
         \/ \E fd \in Fd, n \in 1 .. PIPE_SIZE + 1 : PipeWrite(fd, n) \/ PipeRead(fd, n)
         \/ PipeRetry
  PROVE  FilesInv'
<1>1. ASSUME NEW fd \in Fd, NEW n \in 1 .. PIPE_SIZE + 1, PipeWrite(fd, n) \/ PipeRead(fd, n)
      PROVE  FilesInv'
  <2>1. /\ current_task # NULL /\ PipeOf(fd) # NULL /\ PipeStep
        /\ pipe_write(PipeOf(fd), n) \/ pipe_read(PipeOf(fd), n)
    BY <1>1, Zenon DEF PipeWrite, PipeRead, InProgram
  <2>2. PipeOf(fd) \in Pipe
    BY <2>1, PipeOfProp
  <2>3. n \in 0 .. PIPE_SIZE + 1
    BY FilesAssumption
  <2>4. QED
    BY <2>1, <2>2, <2>3, MoveProp, IOStep
<1>2. CASE PipeRetry
  <2>1. /\ current_task # NULL /\ spins[current_task] # NoWait /\ PipeStep
        /\ \/ pipe_write(spins[current_task].pipe, spins[current_task].left)
           \/ pipe_read(spins[current_task].pipe, spins[current_task].left)
    BY <1>2 DEF PipeRetry
  <2>2. current_task \in Pid /\ spins \in [Pid -> Waits]
    BY <2>1, FilesTyped, TypeParts DEF Waits
  <2>3. spins[current_task].pipe \in Pipe /\ spins[current_task].left \in 0 .. PIPE_SIZE + 1
    BY <2>1, <2>2 DEF FilesInv, SpinsOK, Waits
  <2>4. QED
    BY <2>1, <2>3, MoveProp, IOStep
<1>3. QED
  BY <1>1, <1>2

---------------------------------------------------------------------------
(* The process handlers *)

\* A handler that touches no file.
LEMMA FilesUntouched ==
  ASSUME FilesInv, KInv',
         UNCHANGED <<fds, ref_count, object, sock, read_ref, write_ref, open_socks, lost, pipeVars>>,
         killed' \in BOOLEAN,
         \A t \in Pid : state'[t] = FREE => state[t] = FREE
  PROVE  FilesInv'
<1>1. /\ fds' = fds /\ ref_count' = ref_count /\ object' = object /\ sock' = sock
      /\ read_ref' = read_ref /\ write_ref' = write_ref /\ open_socks' = open_socks
      /\ lost' = lost /\ filled' = filled /\ nonblocking' = nonblocking /\ spins' = spins
  BY DEF pipeVars
<1>2. FilesTypeOK'
  BY <1>1, TypeParts DEF FilesTypeOK, Tables, Objects
<1>3. RefCountExact' /\ PipeEndsCounted'
  BY <1>1, SMTT(40) DEF FilesInv, RefCountExact, References, PipeEndsCounted, Ends
<1>4. FreeTasksHoldNone' /\ FreeFilesClear' /\ SpinsOK'
  BY <1>1 DEF FilesInv, FreeTasksHoldNone, FreeFilesClear, SpinsOK
<1>5. QED
  BY <1>2, <1>3, <1>4 DEF FilesInv

\* The next pid has no task, and its table is empty.
LEMMA NextPidFree ==
  ASSUME FilesInv, current_task # NULL, next_pid <= MaxPid
  PROVE  /\ next_pid \in Pid /\ next_pid # current_task
         /\ state[next_pid] = FREE /\ fds[next_pid] = NoFds
<1>1. next_pid \in 2 .. MaxPid + 1 /\ MaxPid \in Nat
  BY ProcessAssumption DEF FilesInv, KInv, TypeOK
<1>2. next_pid \in Pid /\ next_pid \in Nat
  BY <1>1 DEF Pid
<1>3. next_pid \notin Queued
  <2>1. \A t \in Queued : t < next_pid
    BY DEF FilesInv, KInv, TaskListOK
  <2>2. QED
    BY <2>1, <1>2
<1>4. state[next_pid] = FREE
  BY <1>2, <1>3 DEF FilesInv, KInv, TaskListOK
<1>5. QED
  BY <1>2, <1>4, FilesTyped DEF FilesInv, FreeTasksHoldNone

LEMMA KeepFdsKeeps ==
  ASSUME FilesInv, KeepFds
  PROVE  FilesInv'
<1>1. KInv
  BY DEF FilesInv
<1>2. KInv' /\ state' = state
  <2>1. CASE TimerTick
    BY <1>1, <2>1, TickKeeps DEF TimerTick
  <2>2. CASE ExecveFails
    BY <1>1, <2>2, ExecveFailsKeeps DEF ExecveFails
  <2>3. ASSUME NEW n \in 1 .. Pages, Execve(n) PROVE KInv' /\ state' = state
    BY <1>1, <2>3, ExecveKeeps DEF Execve
  <2>4. QED
    BY <2>1, <2>2, <2>3 DEF KeepFds
<1>3. UNCHANGED <<fds, ref_count, object, sock, read_ref, write_ref, open_socks, lost, pipeVars>>
      /\ killed' = killed
  BY DEF KeepFds, fileVars, pipeVars
<1>4. QED
  BY <1>2, <1>3, FilesUntouched, TypeParts

LEMMA KillOtherFdsKeeps ==
  ASSUME FilesInv, NEW t \in Pid, KillOtherFds(t)
  PROVE  FilesInv'
<1>1. PICK sig \in Signals : KillOther(t, sig)
  BY DEF KillOtherFds
<1>2. KInv'
  BY <1>1, KillOtherKeeps DEF FilesInv
<1>3. state' = [state EXCEPT ![t] = ZOMBIE]
  BY <1>1 DEF KillOther
<1>4. state \in [Pid -> {RUNNING, ZOMBIE, BLOCKED, FREE}]
  BY DEF FilesInv, KInv, TypeOK
<1>5. \A u \in Pid : state'[u] = FREE => state[u] = FREE
  BY <1>3, <1>4 DEF ZOMBIE, FREE
<1>6. UNCHANGED <<fds, ref_count, object, sock, read_ref, write_ref, open_socks, lost, pipeVars>>
      /\ killed' = TRUE
  BY DEF KillOtherFds
<1>7. QED
  BY <1>2, <1>5, <1>6, FilesUntouched

\* fork counts the child's fds.
LEMMA ForkFdsKeeps ==
  ASSUME FilesInv, ForkFds
  PROVE  FilesInv'
<1>1. /\ Fork /\ current_task # NULL /\ killed' = killed
      /\ fds' = [fds EXCEPT ![next_pid] = fds[current_task]]
      /\ ref_count' = fork_counts
      /\ UNCHANGED <<object, sock, read_ref, write_ref, open_socks, lost, pipeVars>>
  BY DEF ForkFds, InProgram
<1>2. KInv'
  BY <1>1, ForkKeeps DEF FilesInv
<1>3. next_pid <= MaxPid /\ state' = fork_state
  BY <1>1 DEF Fork
<1>4. /\ next_pid \in Pid /\ next_pid # current_task
      /\ state[next_pid] = FREE /\ fds[next_pid] = NoFds
  BY <1>1, <1>3, NextPidFree
<1>5. /\ current_task \in Pid /\ state[current_task] # FREE
      /\ fds \in [Pid -> Tables] /\ fds[current_task] \in Tables
      /\ ref_count \in [File -> Nat]
      /\ FilesTypeOK /\ RefCountExact
  BY <1>1, FilesTyped
<1>6. /\ fds'[next_pid] = fds[current_task]
      /\ \A u \in Pid : u # next_pid => fds'[u] = fds[u]
      /\ fds' \in [Pid -> Tables]
  BY <1>1, <1>4, <1>5
<1>7. ASSUME NEW f \in File
      PROVE  /\ ref_count'[f] = ref_count[f] + Cardinality(Row(fds[current_task], f))
             /\ ref_count[f] \in Nat
             /\ Cardinality(Row(fds[current_task], f)) \in Nat
             /\ Cardinality(Row(fds[current_task], f)) <= ref_count[f]
  <2>1. ref_count'[f] = ref_count[f] + Cardinality(Row(fds[current_task], f))
    BY <1>1 DEF fork_counts, Row
  <2>2. QED
    BY <2>1, <1>5, RowBound
<1>8. RefCountExact' /\ \A f \in File : ref_count'[f] \in Nat
  <2>1. ASSUME NEW f \in File
        PROVE  /\ ref_count'[f] \in Int
               /\ ref_count'[f] + Cardinality(Row(fds[next_pid], f))
                    = ref_count[f] + Cardinality(Row(fds'[next_pid], f))
    <3>1. Cardinality(Row(fds[next_pid], f)) = 0
      BY <1>4, NoRow
    <3>2. Cardinality(Row(fds'[next_pid], f)) = Cardinality(Row(fds[current_task], f))
      BY <1>6
    <3>3. QED
      BY <3>1, <3>2, <1>7
  <2>2. QED
    BY <2>1, <1>1, <1>4, <1>5, <1>6, RefStep
<1>9. \A f \in File : ref_count'[f] > 0 <=> ref_count[f] > 0
  <2>1. SUFFICES ASSUME NEW f \in File PROVE ref_count'[f] > 0 <=> ref_count[f] > 0
    OBVIOUS
  <2>2. QED
    BY <1>7
<1>10. PipeEndsCounted'
  <2>1. PipeEndsCounted
    BY DEF FilesInv
  <2>2. QED
    BY <2>1, <1>1, <1>9, EndsKept
<1>11. FreeFilesClear'
  <2>1. ASSUME NEW f \in File, ref_count'[f] = 0 PROVE ref_count[f] = 0
    BY <1>7, <2>1
  <2>2. QED
    BY <2>1, <1>1 DEF FilesInv, FreeFilesClear
<1>12. FreeTasksHoldNone'
  <2>1. state \in [Pid -> {RUNNING, ZOMBIE, BLOCKED, FREE}]
    BY DEF FilesInv, KInv, TypeOK
  <2>2. \A u \in Pid : state'[u] = FREE => state[u] = FREE /\ u # next_pid
    BY <2>1, <1>3, <1>4, <1>5 DEF fork_state, RUNNING, BLOCKED, FREE
  <2>3. QED
    BY <2>2, <1>6 DEF FilesInv, FreeTasksHoldNone, NoFds
<1>13. SpinsOK'
  BY <1>1 DEF FilesInv, SpinsOK, pipeVars
<1>14. FilesTypeOK'
  <2>1. ref_count' \in [File -> Nat]
    BY <1>1, <1>8 DEF fork_counts
  <2>2. QED
    BY <2>1, <1>1, <1>6, TypeParts DEF FilesTypeOK, Tables, Objects, pipeVars
<1>15. QED
  BY <1>2, <1>8, <1>10, <1>11, <1>12, <1>13, <1>14 DEF FilesInv

\* A task that dies releases all its fds.
LEMMA ExitFdsKeeps ==
  ASSUME FilesInv, current_task # NULL, KInv', ExitFds, killed' \in BOOLEAN,
         \A t \in Pid : state'[t] = FREE => state[t] = FREE
  PROVE  FilesInv'
<1>1. /\ close_files(Closed(Fd))
      /\ fds' = [fds EXCEPT ![current_task] = NoFds]
      /\ ref_count' = Released(Fd)
      /\ UNCHANGED <<sock, lost>>
  BY DEF ExitFds
<1>2. /\ current_task \in Pid /\ state[current_task] # FREE
      /\ fds \in [Pid -> Tables]
      /\ ref_count \in [File -> Nat]
      /\ FilesTypeOK /\ RefCountExact
  BY FilesTyped
<1>3. ASSUME NEW f \in File
      PROVE  /\ Released(Fd)[f] \in Nat
             /\ Released(Fd)[f] = ref_count[f] - Cardinality(Row(fds[current_task], f))
             /\ Released(Fd)[f] <= ref_count[f]
             /\ ref_count[f] \in Nat
             /\ Cardinality(Row(fds[current_task], f)) \in Nat
  <2>1. /\ Released(Fd)[f] \in Nat
        /\ Released(Fd)[f] = ref_count[f] - Cardinality(Row(fds[current_task], f))
    BY <1>2, ReleasedProp
  <2>2. ref_count[f] \in Nat /\ Cardinality(Row(fds[current_task], f)) \in Nat
    BY <1>2, RowBound
  <2>3. QED
    BY <2>1, <2>2
<1>4. NoFds \in Tables
  BY DEF NoFds, Tables
<1>5. /\ fds'[current_task] = NoFds
      /\ \A u \in Pid : u # current_task => fds'[u] = fds[u]
      /\ fds' \in [Pid -> Tables]
  BY <1>1, <1>2, <1>4
<1>6. RefCountExact'
  <2>1. ASSUME NEW f \in File
        PROVE  /\ ref_count'[f] \in Int
               /\ ref_count'[f] + Cardinality(Row(fds[current_task], f))
                    = ref_count[f] + Cardinality(Row(fds'[current_task], f))
    <3>1. Cardinality(Row(fds'[current_task], f)) = 0
      BY <1>5, NoRow
    <3>2. QED
      BY <3>1, <1>1, <1>3
  <2>2. QED
    BY <2>1, <1>1, <1>2, <1>5, RefStep
<1>7. /\ PipeEndsCounted'
      /\ FreeFilesClear'
      /\ object' \in [File -> [node : BOOLEAN, pipe : Pipe \cup {NULL}, pipe_end : {0, 1}]]
      /\ read_ref' \in [Pipe -> Nat] /\ write_ref' \in [Pipe -> Nat]
      /\ filled' \in [Pipe -> 0 .. PIPE_SIZE]
      /\ nonblocking' \in [Pipe -> BOOLEAN]
      /\ open_socks' \subseteq Socket
      /\ spins' = spins
  <2>1. PICK N : N = {}
    OBVIOUS
  <2>2. \A f \in N : f \in File /\ Released(Fd)[f] = 0
    BY <2>1
  <2>3. \A f \in File : ref_count'[f] \in Nat /\ (ref_count'[f] > 0 <=> f \in N \/ Released(Fd)[f] > 0)
    BY <1>1, <1>3, <2>1
  <2>4. \A f \in File : Released(Fd)[f] \in Nat /\ Released(Fd)[f] <= ref_count[f]
    BY <1>3
  <2>5. QED
    BY <1>1, <2>2, <2>3, <2>4, CloseStep
<1>8. FreeTasksHoldNone'
  BY <1>2, <1>5 DEF FilesInv, FreeTasksHoldNone, NoFds
<1>9. SpinsOK'
  BY <1>7 DEF FilesInv, SpinsOK
<1>10. FilesTypeOK'
  <2>1. ref_count' \in [File -> Nat]
    BY <1>1, <1>3 DEF Released
  <2>2. QED
    BY <1>1, <1>5, <1>7, <2>1, TypeParts DEF FilesTypeOK, Tables
<1>11. QED
  BY <1>6, <1>7, <1>8, <1>9, <1>10 DEF FilesInv

LEMMA KillSelfFdsKeeps ==
  ASSUME FilesInv, KillSelfFds
  PROVE  FilesInv'
<1>1. PICK sig \in Signals : KillSelf(sig)
  BY DEF KillSelfFds
<1>2. KInv' /\ current_task # NULL /\ state' = ExitState
  BY <1>1, KillSelfKeeps DEF FilesInv, KillSelf
<1>3. \A t \in Pid : state'[t] = FREE => state[t] = FREE
  BY <1>2, ExitStateProp DEF FilesInv
<1>4. ExitFds /\ killed' \in BOOLEAN
  BY DEF KillSelfFds
<1>5. QED
  BY <1>2, <1>3, <1>4, ExitFdsKeeps

\* The console files of a fresh init, out of the free blocks of S, and its table.
StdFiles(S) == {Nth(S, fd + 1) : fd \in 0 .. FirstFd - 1}
StdTable(S) == [fd \in Fd |-> IF fd < FirstFd THEN Nth(S, fd + 1) ELSE NULL]

\* They are different blocks.
LEMMA StdRow ==
  ASSUME NEW S \in SUBSET File, Cardinality(S) >= FirstFd
  PROVE  /\ StdTable(S) \in Tables
         /\ StdFiles(S) \in SUBSET S
         /\ \A f \in File : Cardinality(Row(StdTable(S), f)) = IF f \in StdFiles(S) THEN 1 ELSE 0
<1>0. PICK x, new : x = StdTable(S) /\ new = StdFiles(S)
  OBVIOUS
<1>11. /\ x = [fd \in Fd |-> IF fd < FirstFd THEN Nth(S, fd + 1) ELSE NULL]
      /\ new = {Nth(S, fd + 1) : fd \in 0 .. FirstFd - 1}
  BY <1>0, Zenon DEF StdTable, StdFiles
<1>1. MAX_FDS \in Nat /\ FirstFd \in Nat /\ FirstFd <= MAX_FDS /\ MaxFiles \in Nat
  BY FilesAssumption
<1>2. S \in SUBSET (0 .. MaxFiles)
  BY <1>1 DEF File
<1>3. IsFiniteSet(S)
  BY SlotProp, FS_Subset
<1>4. Cardinality(S) \in Nat
  BY <1>3, FS_CardinalityType
<1>5. ASSUME NEW fd \in 0 .. FirstFd - 1
      PROVE  fd \in Fd /\ fd < FirstFd /\ fd + 1 \in 1 .. Cardinality(S) /\ Nth(S, fd + 1) \in S
  <2>1. fd \in Nat /\ fd < FirstFd /\ fd \in Fd
    BY <1>1 DEF Fd
  <2>2. fd + 1 \in 1 .. Cardinality(S)
    BY <2>1, <1>1, <1>4
  <2>3. QED
    BY <2>1, <2>2, <1>1, <1>2, NthProp
<1>6. ASSUME NEW fd \in Fd PROVE fd < FirstFd => fd \in 0 .. FirstFd - 1
  BY <1>1 DEF Fd
<1>7. x \in Tables
  BY <1>11, <1>5, <1>6 DEF Tables
<1>8. new \in SUBSET S
  BY <1>11, <1>5
<1>9. ASSUME NEW f \in File PROVE Cardinality(Row(x, f)) = IF f \in new THEN 1 ELSE 0
  <2>1. CASE f \in new
    <3>1. PICK a \in 0 .. FirstFd - 1 : f = Nth(S, a + 1)
      BY <1>11, <2>1
    <3>2. ASSUME NEW b \in Fd PROVE x[b] = f <=> b = a
      <4>1. CASE b = a
        BY <1>11, <4>1, <3>1, <1>5
      <4>2. CASE b # a /\ b < FirstFd
        <5>1. b + 1 \in 1 .. Cardinality(S) /\ a + 1 \in 1 .. Cardinality(S) /\ a \in Nat /\ b \in Nat
          BY <4>2, <1>5, <1>6, SlotProp
        <5>2. a + 1 # b + 1
          BY <5>1, <4>2
        <5>3. Nth(S, a + 1) # Nth(S, b + 1)
          BY <5>1, <5>2, <1>1, <1>2, NthDiffer
        <5>4. QED
          BY <1>11, <5>3, <4>2, <3>1
      <4>3. CASE ~(b < FirstFd)
        <5>1. x[b] = NULL /\ f # NULL
          BY <1>11, <4>3, SlotProp
        <5>2. b # a
          BY <4>3, <1>5
        <5>3. QED
          BY <5>1, <5>2
      <4>4. QED
        BY <4>1, <4>2, <4>3
    <3>3. Row(x, f) = {a}
      <4>1. a \in Fd
        BY <1>5
      <4>2. QED
        BY <3>2, <4>1 DEF Row
    <3>4. QED
      BY <2>1, <3>3, FS_Singleton
  <2>2. CASE f \notin new
    <3>1. Row(x, f) = {}
      <4>1. ASSUME NEW b \in Fd PROVE x[b] # f
        <5>1. CASE b < FirstFd
          BY <1>11, <5>1, <2>2, <1>6
        <5>2. CASE ~(b < FirstFd)
          BY <1>11, <5>2, SlotProp
        <5>3. QED
          BY <5>1, <5>2
      <4>2. QED
        BY <4>1 DEF Row
    <3>2. QED
      BY <2>2, <3>1, FS_EmptySet
  <2>3. QED
    BY <2>1, <2>2
<1>10. QED
  BY <1>0, <1>7, <1>8, <1>9

\* When init dies its fds are released, and the new init gets files of its own.
LEMMA RespawnFdsKeeps ==
  ASSUME FilesInv, current_task # NULL, KInv', RespawnFds, killed' = killed,
         next_pid <= MaxPid,
         \A t \in Pid : state'[t] = FREE => state[t] = FREE /\ t # next_pid
  PROVE  FilesInv'
<1> DEFINE S == FreeFiles(Released(Fd))
           x == StdTable(S)
           new == StdFiles(S)
<1>1. /\ Cardinality(S) >= FirstFd
      /\ close_files(Closed(Fd))
      /\ fds' = [fds EXCEPT ![current_task] = NoFds, ![next_pid] = x]
      /\ ref_count' = [f \in File |-> IF f \in new THEN 1 ELSE Released(Fd)[f]]
      /\ UNCHANGED <<sock, lost>>
  <2>1. \A fd \in Fd : fd < FirstFd => fd \in 0 .. FirstFd - 1
    BY FilesAssumption DEF Fd
  <2>2. StdTable(S) = [fd \in Fd |-> IF fd < FirstFd
                           THEN [a \in 0 .. FirstFd - 1 |-> Nth(S, a + 1)][fd] ELSE NULL]
    BY <2>1 DEF StdTable
  <2>3. StdFiles(S) = {[a \in 0 .. FirstFd - 1 |-> Nth(S, a + 1)][fd] : fd \in 0 .. FirstFd - 1}
    BY DEF StdFiles
  <2>4. QED
    BY <2>2, <2>3 DEF RespawnFds
<1>2. S \in SUBSET File /\ \A f \in S : Released(Fd)[f] = 0
  BY DEF FreeFiles
<1> HIDE DEF S
<1>3. /\ x \in Tables
      /\ new \in SUBSET S
      /\ \A f \in File : Cardinality(Row(x, f)) = IF f \in new THEN 1 ELSE 0
  BY <1>1, <1>2, StdRow
<1> HIDE DEF x, new
<1>4. /\ current_task \in Pid /\ state[current_task] # FREE
      /\ fds \in [Pid -> Tables]
      /\ ref_count \in [File -> Nat]
      /\ FilesTypeOK /\ RefCountExact
  BY FilesTyped
<1>5. /\ next_pid \in Pid /\ next_pid # current_task
      /\ state[next_pid] = FREE /\ fds[next_pid] = NoFds
  BY NextPidFree
<1>6. ASSUME NEW f \in File
      PROVE  /\ Released(Fd)[f] \in Nat
             /\ Released(Fd)[f] = ref_count[f] - Cardinality(Row(fds[current_task], f))
             /\ Released(Fd)[f] <= ref_count[f]
             /\ f \in lost => Released(Fd)[f] > 0
             /\ ref_count[f] \in Nat
             /\ Cardinality(Row(fds[current_task], f)) \in Nat
  <2>1. /\ Released(Fd)[f] \in Nat
        /\ Released(Fd)[f] = ref_count[f] - Cardinality(Row(fds[current_task], f))
        /\ f \in lost => Released(Fd)[f] > 0
    BY <1>4, ReleasedProp
  <2>2. ref_count[f] \in Nat /\ Cardinality(Row(fds[current_task], f)) \in Nat
    BY <1>4, RowBound
  <2>3. QED
    BY <2>1, <2>2
<1>7. NoFds \in Tables
  BY DEF NoFds, Tables
<1>8. PICK m : m = [fds EXCEPT ![current_task] = NoFds]
  OBVIOUS
<1>9. /\ m[current_task] = NoFds /\ m[next_pid] = NoFds
      /\ \A u \in Pid : u # current_task => m[u] = fds[u]
      /\ fds'[next_pid] = x /\ fds'[current_task] = NoFds
      /\ \A u \in Pid : u # next_pid => fds'[u] = m[u]
      /\ fds' \in [Pid -> Tables]
  BY <1>1, <1>3, <1>4, <1>5, <1>7, <1>8
<1>10. ASSUME NEW f \in File
       PROVE  /\ ref_count'[f] \in Nat
              /\ ref_count'[f] > 0 <=> f \in new \/ Released(Fd)[f] > 0
              /\ f \in new => Released(Fd)[f] = 0
              /\ ref_count'[f] = IF f \in new THEN 1 ELSE Released(Fd)[f]
  <2>1. ref_count'[f] = IF f \in new THEN 1 ELSE Released(Fd)[f]
    BY <1>1
  <2>2. f \in new => Released(Fd)[f] = 0
    BY <1>2, <1>3
  <2>3. QED
    BY <2>1, <2>2, <1>6
<1>11. RefCountExact'
  <2>1. ASSUME NEW f \in File
        PROVE  IF f \in lost' THEN ref_count'[f] > Cardinality(Refs(fds', f))
                              ELSE ref_count'[f] = Cardinality(Refs(fds', f))
    <3>1. /\ Cardinality(Refs(fds, f)) \in Nat
          /\ Cardinality(Refs(m, f)) \in Nat
          /\ Cardinality(Refs(m, f)) + Cardinality(Row(fds[current_task], f))
               = Cardinality(Refs(fds, f)) + Cardinality(Row(m[current_task], f))
      BY <1>4, <1>9, RowChange, SMTT(40)
    <3>2. /\ Cardinality(Refs(fds', f)) \in Nat
          /\ Cardinality(Refs(fds', f)) + Cardinality(Row(m[next_pid], f))
               = Cardinality(Refs(m, f)) + Cardinality(Row(fds'[next_pid], f))
      BY <1>5, <1>9, RowChange
    <3>3. Cardinality(Row(m[current_task], f)) = 0 /\ Cardinality(Row(m[next_pid], f)) = 0
      BY <1>9, NoRow
    <3>4. Cardinality(Row(fds'[next_pid], f)) = IF f \in new THEN 1 ELSE 0
      BY <1>3, <1>9
    <3>5. IF f \in lost THEN ref_count[f] > Cardinality(Refs(fds, f))
                        ELSE ref_count[f] = Cardinality(Refs(fds, f))
      BY ExactRefs, Zenon DEF FilesInv
    <3>6. lost' = lost
      BY <1>1
    <3>7. CASE f \in new
      <4>1. Released(Fd)[f] = 0 /\ ref_count'[f] = 1
        BY <3>7, <1>10
      <4>2. f \notin lost
        BY <4>1, <1>6
      <4>3. Cardinality(Refs(fds, f)) = Cardinality(Row(fds[current_task], f))
        BY <4>1, <4>2, <3>5, <1>6
      <4>4. QED
        BY <3>1, <3>2, <3>3, <3>4, <3>6, <3>7, <4>1, <4>2, <4>3, <1>6
    <3>8. CASE f \notin new
      <4>1. ref_count'[f] = Released(Fd)[f]
        BY <3>8, <1>10
      <4>2. Cardinality(Refs(fds', f)) = Cardinality(Refs(fds, f)) - Cardinality(Row(fds[current_task], f))
        BY <3>1, <3>2, <3>3, <3>4, <3>8, <1>6
      <4>3. f \in lost' <=> f \in lost
        BY <3>6
      <4>4. CASE f \in lost
        BY <4>1, <4>2, <4>3, <4>4, <3>1, <3>2, <3>5, <1>6
      <4>5. CASE f \notin lost
        BY <4>1, <4>2, <4>3, <4>5, <3>1, <3>2, <3>5, <1>6
      <4>6. QED
        BY <4>4, <4>5
    <3>9. QED
      BY <3>7, <3>8
  <2>2. QED
    BY <2>1, ExactRefs, Zenon
<1>12. /\ PipeEndsCounted'
       /\ FreeFilesClear'
       /\ object' \in [File -> [node : BOOLEAN, pipe : Pipe \cup {NULL}, pipe_end : {0, 1}]]
       /\ read_ref' \in [Pipe -> Nat] /\ write_ref' \in [Pipe -> Nat]
       /\ filled' \in [Pipe -> 0 .. PIPE_SIZE]
       /\ nonblocking' \in [Pipe -> BOOLEAN]
       /\ open_socks' \subseteq Socket
       /\ spins' = spins
  <2>1. \A f \in new : f \in File /\ Released(Fd)[f] = 0
    BY <1>2, <1>3
  <2>2. \A f \in File : ref_count'[f] \in Nat /\ (ref_count'[f] > 0 <=> f \in new \/ Released(Fd)[f] > 0)
    BY <1>10
  <2>3. \A f \in File : Released(Fd)[f] \in Nat /\ Released(Fd)[f] <= ref_count[f]
    BY <1>6
  <2>4. QED
    BY <1>1, <2>1, <2>2, <2>3, CloseStep
<1>13. FreeTasksHoldNone'
  <2>1. ASSUME NEW t \in Pid, state'[t] = FREE PROVE fds'[t] = NoFds
    <3>1. state[t] = FREE /\ t # next_pid /\ t # current_task
      BY <2>1, <1>4
    <3>2. QED
      BY <3>1, <1>9 DEF FilesInv, FreeTasksHoldNone
  <2>2. NoFds' = NoFds
    BY DEF NoFds
  <2>3. QED
    BY <2>1, <2>2 DEF FreeTasksHoldNone
<1>14. SpinsOK'
  BY <1>12 DEF FilesInv, SpinsOK
<1>15. FilesTypeOK'
  <2>1. ref_count' \in [File -> Nat]
    BY <1>1, <1>10
  <2>2. QED
    BY <1>1, <1>9, <1>12, <2>1, TypeParts DEF FilesTypeOK, Tables
<1>16. QED
  BY <1>11, <1>12, <1>13, <1>14, <1>15 DEF FilesInv

LEMMA DieFdsKeeps ==
  ASSUME FilesInv, DieFds
  PROVE  FilesInv'
<1>1. PICK status \in Nat : Die(status)
  <2>1. CASE Fault
    <3>1. Die(128 + 11) /\ 128 + 11 \in Nat
      BY <2>1 DEF Fault
    <3>2. QED
      BY <3>1
  <2>2. ASSUME NEW c \in ExitCodes, Exit(c) PROVE \E s \in Nat : Die(s)
    <3>1. c \in Nat
      BY ProcessAssumption
    <3>2. QED
      BY <2>2, <3>1 DEF Exit
  <2>3. QED
    BY <2>1, <2>2 DEF DieFds
<1>2. KInv' /\ current_task # NULL
  BY <1>1, DieKeeps DEF FilesInv, Die
<1>3. killed' = killed /\ killed' \in BOOLEAN
  BY TypeParts DEF DieFds
<1>4. \A t \in Pid : ExitState[t] = FREE <=> state[t] = FREE
  BY <1>2, ExitStateProp DEF FilesInv
<1>5. CASE Respawns
  <2>1. RespawnFds
    BY <1>5 DEF DieFds
  <2>2. next_pid <= MaxPid /\ state' = [ExitState EXCEPT ![next_pid] = RUNNING]
    BY <1>1, <1>5 DEF Die, respawn_user_shell, create_user_task
  <2>3. next_pid \in Pid
    BY <1>2, <2>2, NextPidFree
  <2>4. ExitState \in [Pid -> {RUNNING, ZOMBIE, BLOCKED, FREE}]
    BY <1>2, ExitStateProp DEF FilesInv
  <2>5. \A t \in Pid : state'[t] = FREE => state[t] = FREE /\ t # next_pid
    BY <1>4, <2>2, <2>3, <2>4 DEF RUNNING, FREE
  <2>6. QED
    BY <1>2, <1>3, <2>1, <2>2, <2>5, RespawnFdsKeeps
<1>6. CASE ~Respawns
  <2>1. ExitFds
    BY <1>6 DEF DieFds
  <2>2. state' = ExitState
    BY <1>1, <1>6 DEF Die
  <2>3. QED
    BY <1>2, <1>3, <1>4, <2>1, <2>2, ExitFdsKeeps
<1>7. QED
  BY <1>5, <1>6

\* A table that goes away with its task leaves its files behind.
LEMMA LostTable ==
  ASSUME FilesInv, NEW found \in Pid,
         \A u \in Pid : u # found => fds'[u] = fds[u],
         fds'[found] = NoFds,
         ref_count' = ref_count,
         \A f \in File : f \in lost' <=> f \in lost \/ f \in Files(found)
  PROVE  RefCountExact'
<1>1. ASSUME NEW f \in File
      PROVE  IF f \in lost' THEN ref_count'[f] > Cardinality(Refs(fds', f))
                            ELSE ref_count'[f] = Cardinality(Refs(fds', f))
  <2>1. /\ Cardinality(Refs(fds, f)) \in Nat
        /\ Cardinality(Refs(fds', f)) \in Nat
        /\ Cardinality(Refs(fds', f)) + Cardinality(Row(fds[found], f))
              = Cardinality(Refs(fds, f)) + Cardinality(Row(fds'[found], f))
    BY RowChange
  <2>2. Cardinality(Row(fds'[found], f)) = 0
    BY NoRow
  <2>3. IF f \in lost THEN ref_count[f] > Cardinality(Refs(fds, f))
                      ELSE ref_count[f] = Cardinality(Refs(fds, f))
    BY ExactRefs, Zenon DEF FilesInv
  <2>4. IsFiniteSet(Row(fds[found], f)) /\ Cardinality(Row(fds[found], f)) \in Nat
    BY RowFinite
  <2>5. f \in Files(found) <=> Row(fds[found], f) # {}
    BY SlotProp DEF Files, Row
  <2>6. f \in Files(found) <=> Cardinality(Row(fds[found], f)) # 0
    BY <2>4, <2>5, FS_EmptySet
  <2>7. ref_count'[f] = ref_count[f] /\ ref_count[f] \in Nat
    BY TypeParts
  <2>8. CASE f \in Files(found)
    <3>1. f \in lost'
      BY <2>8
    <3>2. Cardinality(Refs(fds, f)) <= ref_count[f]
      BY <2>1, <2>3, <2>7
    <3>3. Cardinality(Refs(fds', f)) < Cardinality(Refs(fds, f))
      BY <2>1, <2>2, <2>4, <2>6, <2>8
    <3>4. QED
      BY <3>1, <3>2, <3>3, <2>1, <2>7
  <2>9. CASE f \notin Files(found)
    <3>1. f \in lost' <=> f \in lost
      BY <2>9
    <3>2. Cardinality(Refs(fds', f)) = Cardinality(Refs(fds, f))
      BY <2>1, <2>2, <2>4, <2>6, <2>9
    <3>3. QED
      BY <3>1, <3>2, <2>3, <2>7
  <2>10. QED
    BY <2>8, <2>9
<1>2. QED
  BY <1>1, ExactRefs, Zenon

\* wait4 frees one task at most, and forgets the files that are left in it.
LEMMA Wait4FdsKeeps ==
  ASSUME FilesInv, Wait4Fds
  PROVE  FilesInv'
<1>1. PICK pid \in Pid \cup {-1}, wnohang \in BOOLEAN : Wait4(pid, wnohang)
  BY DEF Wait4Fds
<1>2. KInv /\ current_task # NULL
  BY DEF FilesInv, Wait4Fds, InProgram
<1>3. KInv'
  BY <1>1, <1>2, Wait4Keeps
<1>4. /\ fds' = [t \in Pid |-> IF state'[t] = FREE THEN NoFds ELSE fds[t]]
      /\ lost' = lost \cup UNION {Files(t) : t \in {u \in Pid : state'[u] = FREE}}
      /\ UNCHANGED <<killed, ref_count, object, sock, read_ref, write_ref, open_socks, pipeVars>>
  BY DEF Wait4Fds
<1>5. fds \in [Pid -> Tables] /\ ref_count \in [File -> Nat] /\ lost \subseteq File
  BY TypeParts
<1>6. \A t \in Pid : state[t] = FREE => fds[t] = NoFds /\ Files(t) = {}
  BY DEF FilesInv, FreeTasksHoldNone, Files, NoFds
<1>7. \A t \in Pid : Files(t) \subseteq File
  BY <1>5 DEF Files, Tables
<1>8. NoFds \in Tables
  BY DEF NoFds, Tables
<1>9. fds' \in [Pid -> Tables] /\ lost' \subseteq File
  BY <1>4, <1>5, <1>7, <1>8
<1>10. FreeTasksHoldNone'
  BY <1>4 DEF FreeTasksHoldNone, NoFds
<1>11. RefCountExact'
  <2>1. CASE UNCHANGED <<ring, state, ppid, img_size, img_snapshot, prog>>
    <3>1. state' = state
      BY <2>1
    <3>2. fds' = fds
      BY <3>1, <1>4, <1>5, <1>6
    <3>3. lost' = lost
      BY <3>1, <1>4, <1>6
    <3>4. QED
      BY <1>4, <3>2, <3>3 DEF FilesInv, RefCountExact, References
  <2>2. ASSUME NEW found \in Queued,
               Queued' = Queued \ {found},
               \A t \in Pid : t # found => state'[t] = state[t]
        PROVE  RefCountExact'
    <3>1. found \in Pid
      BY <1>2, KInvFacts
    <3>2. state'[found] = FREE
      <4>1. found \notin Queued'
        BY <2>2
      <4>2. QED
        BY <1>3, <3>1, <4>1 DEF KInv, TaskListOK
    <3>3. /\ \A u \in Pid : u # found => fds'[u] = fds[u]
          /\ fds'[found] = NoFds
      BY <1>4, <1>6, <2>2, <3>1, <3>2
    <3>4. lost' = lost \cup Files(found)
      <4>1. \A t \in Pid : t # found /\ state'[t] = FREE => Files(t) = {}
        BY <1>6, <2>2
      <4>2. QED
        BY <1>4, <3>1, <3>2, <4>1
    <3>5. ref_count' = ref_count
      BY <1>4
    <3>6. QED
      BY <3>1, <3>3, <3>4, <3>5, LostTable
  <2>3. QED
    BY <1>1, <1>2, <2>1, <2>2, Wait4Effect
<1>12. PipeEndsCounted' /\ FreeFilesClear' /\ SpinsOK'
  BY <1>4 DEF FilesInv, PipeEndsCounted, Ends, FreeFilesClear, SpinsOK, pipeVars
<1>13. FilesTypeOK'
  BY <1>4, <1>9, TypeParts DEF FilesTypeOK, Tables, Objects, pipeVars
<1>14. QED
  BY <1>3, <1>10, <1>11, <1>12, <1>13 DEF FilesInv

---------------------------------------------------------------------------
(* The specification *)

LEMMA InitFilesInv == InitFds => FilesInv
<1> SUFFICES ASSUME InitFds PROVE FilesInv
  OBVIOUS
<1>1. KInv
  BY InitKInv DEF InitFds
<1>2. /\ fds = [t \in Pid |-> [fd \in Fd |-> IF t = 1 /\ fd < FirstFd THEN fd + 1 ELSE NULL]]
      /\ ref_count = [f \in File |-> IF f <= FirstFd THEN 1 ELSE 0]
      /\ object = [f \in File |-> Console]
      /\ sock = [f \in File |-> NULL]
      /\ read_ref = [p \in Pipe |-> 0]
      /\ write_ref = [p \in Pipe |-> 0]
      /\ filled = [p \in Pipe |-> 0]
      /\ nonblocking = [p \in Pipe |-> FALSE]
      /\ spins = [t \in Pid |-> NoWait]
      /\ open_socks = {} /\ lost = {} /\ killed = FALSE
  BY DEF InitFds
<1>3. /\ MAX_FDS \in Nat /\ FirstFd \in Nat /\ FirstFd <= MAX_FDS
      /\ MaxFiles \in Nat /\ FirstFd <= MaxFiles /\ PIPE_SIZE \in Nat /\ MaxPid \in Nat /\ MaxPid > 0
  BY FilesAssumption, ProcessAssumption
<1>4. FilesTypeOK
  <2>1. \A fd \in Fd : fd < FirstFd => fd + 1 \in File
    BY <1>3 DEF Fd, File
  <2>2. fds \in [Pid -> [Fd -> File \cup {NULL}]]
    BY <1>2, <2>1
  <2>3. NoWait \in [pipe : Pipe \cup {NULL}, pipe_end : {0, 1}, left : 0 .. PIPE_SIZE + 1]
    BY <1>3 DEF NoWait
  <2>4. 0 \in 0 .. PIPE_SIZE /\ Console \in [node : BOOLEAN, pipe : Pipe \cup {NULL}, pipe_end : {0, 1}]
    BY <1>3 DEF Console
  <2>5. QED
    BY <1>2, <2>2, <2>3, <2>4 DEF FilesTypeOK
<1>5. RefCountExact
  <2>1. ASSUME NEW f \in File
        PROVE  Cardinality(Refs(fds, f)) = ref_count[f]
    <3>0. f \in Nat /\ f > 0 /\ f # NULL
      BY <1>3 DEF File, NULL
    <3>1. CASE f <= FirstFd
      <4>1. 1 \in Pid /\ f - 1 \in Fd /\ f - 1 < FirstFd
        BY <1>3, <3>0, <3>1 DEF Pid, Fd
      <4>2. ASSUME NEW r \in Pid \X Fd PROVE fds[r[1]][r[2]] = f <=> r = <<1, f - 1>>
        <5>0. r[1] \in Pid /\ r[2] \in Fd /\ r = <<r[1], r[2]>>
          OBVIOUS
        <5>1. r[1] \in Pid /\ r[2] \in Fd /\ r = <<r[1], r[2]>> /\ r[2] \in Nat
          BY <5>0, SlotProp
        <5>2. fds[r[1]][r[2]] = IF r[1] = 1 /\ r[2] < FirstFd THEN r[2] + 1 ELSE NULL
          BY <1>2, <5>1
        <5>3. fds[r[1]][r[2]] = f <=> r[1] = 1 /\ r[2] = f - 1
          <6>1. CASE r[1] = 1 /\ r[2] < FirstFd
            BY <5>1, <5>2, <6>1, <3>0
          <6>2. CASE ~(r[1] = 1 /\ r[2] < FirstFd)
            BY <5>1, <5>2, <6>2, <3>0, <4>1
          <6>3. QED
            BY <6>1, <6>2
        <5>4. QED
          BY <5>1, <5>3
      <4>3. <<1, f - 1>> \in Pid \X Fd
        BY <4>1
      <4>4. Refs(fds, f) = {<<1, f - 1>>}
        BY <4>2, <4>3 DEF Refs
      <4>5. ref_count[f] = 1
        BY <1>2, <3>1
      <4>6. QED
        BY <4>4, <4>5, FS_Singleton
    <3>2. CASE ~(f <= FirstFd)
      <4>1. ASSUME NEW r \in Pid \X Fd PROVE fds[r[1]][r[2]] # f
        <5>1. r[1] \in Pid /\ r[2] \in Fd /\ r[2] \in Nat
          BY SlotProp
        <5>2. fds[r[1]][r[2]] = IF r[1] = 1 /\ r[2] < FirstFd THEN r[2] + 1 ELSE NULL
          BY <1>2, <5>1
        <5>3. r[2] < FirstFd => r[2] + 1 # f
          BY <5>1, <3>0, <3>2, <1>3
        <5>4. QED
          BY <5>2, <5>3, <3>0
      <4>2. Refs(fds, f) = {}
        BY <4>1 DEF Refs
      <4>3. ref_count[f] = 0
        BY <1>2, <3>2
      <4>4. QED
        BY <4>2, <4>3, FS_EmptySet
    <3>3. QED
      BY <3>1, <3>2
  <2>2. ASSUME NEW f \in File
        PROVE  IF f \in lost THEN ref_count[f] > Cardinality(Refs(fds, f))
                             ELSE ref_count[f] = Cardinality(Refs(fds, f))
    BY <1>2, <2>1
  <2>3. QED
    BY <2>2, ExactRefs, Zenon
<1>6. PipeEndsCounted
  <2>1. ASSUME NEW p \in Pipe, NEW e \in {0, 1} PROVE Cardinality(EndSet(ref_count, object, p, e)) = 0
    <3>1. PipeEnd(p, e) # Console
      BY SlotProp DEF PipeEnd, Console
    <3>2. EndSet(ref_count, object, p, e) = {}
      BY <3>1, <1>2 DEF EndSet
    <3>3. QED
      BY <3>2, FS_EmptySet
  <2>2. \A p \in Pipe : /\ read_ref[p] = Cardinality(EndSet(ref_count, object, p, 0))
                        /\ write_ref[p] = Cardinality(EndSet(ref_count, object, p, 1))
    BY <2>1, <1>2
  <2>3. QED
    BY <2>2, EndsCounted, Zenon
<1>7. FreeTasksHoldNone
  <2>1. ASSUME NEW t \in Pid, state[t] = FREE PROVE t # 1
    BY <2>1 DEF InitFds, Init, FREE, RUNNING
  <2>2. QED
    BY <2>1, <1>2 DEF FreeTasksHoldNone, NoFds
<1>8. FreeFilesClear /\ SpinsOK
  BY <1>2 DEF FreeFilesClear, SpinsOK
<1>9. QED
  BY <1>1, <1>4, <1>5, <1>6, <1>7, <1>8 DEF FilesInv

LEMMA NextFilesInv ==
  FilesInv /\ [NextFds \/ SocketCall]_<<vars, fileVars>> => FilesInv'
<1> SUFFICES ASSUME FilesInv, [NextFds \/ SocketCall]_<<vars, fileVars>> PROVE FilesInv'
  OBVIOUS
<1>1. CASE SocketCall
  BY <1>1, SocketKeeps
<1>2. CASE UNCHANGED <<vars, fileVars>>
  <2>1. /\ UNCHANGED vars
        /\ UNCHANGED <<fds, ref_count, object, sock, read_ref, write_ref, open_socks, lost, pipeVars>>
        /\ killed' = killed
    BY <1>2 DEF fileVars, pipeVars
  <2>2. KInv'
    <3>1. KInv /\ [KillNext]_vars
      BY <2>1 DEF FilesInv
    <3>2. QED
      BY <3>1, NextKInv
  <2>3. state' = state /\ killed' \in BOOLEAN
    BY <2>1, TypeParts DEF vars
  <2>4. QED
    BY <2>1, <2>2, <2>3, FilesUntouched
<1>3. CASE Open
  BY <1>3, OpenKeeps
<1>4. CASE PipeCall
  BY <1>4, PipeCallKeeps
<1>5. ASSUME NEW fd \in Fd, Dup(fd) \/ Close(fd) \/ \E newfd \in Fd : Dup2(fd, newfd)
      PROVE  FilesInv'
  BY <1>5, DupKeeps, CloseKeeps, Dup2Keeps
<1>6. CASE \/ \E fd \in Fd, n \in 1 .. PIPE_SIZE + 1 : PipeWrite(fd, n) \/ PipeRead(fd, n)
           \/ PipeRetry
  BY <1>6, PipeIOKeeps
<1>7. ASSUME NEW fd \in Fd, NEW nb \in BOOLEAN, Fionbio(fd, nb)
      PROVE  FilesInv'
  BY <1>7, FionbioKeeps
<1>8. CASE ForkFds
  BY <1>8, ForkFdsKeeps
<1>9. CASE KeepFds
  BY <1>9, KeepFdsKeeps
<1>10. CASE DieFds
  BY <1>10, DieFdsKeeps
<1>11. CASE Wait4Fds
  BY <1>11, Wait4FdsKeeps
<1>12. CASE KillSelfFds
  BY <1>12, KillSelfFdsKeeps
<1>13. ASSUME NEW t \in Pid, KillOtherFds(t) PROVE FilesInv'
  BY <1>13, KillOtherFdsKeeps
<1>14. CASE NextFds
  BY <1>3, <1>4, <1>5, <1>6, <1>7, <1>8, <1>9, <1>10, <1>11, <1>12, <1>13, <1>14, Zenon DEF NextFds
<1>15. QED
  BY <1>1, <1>2, <1>14

LEMMA FilesInvariant == SocketsSpec => []FilesInv
BY InitFilesInv, NextFilesInv, PTL DEF SocketsSpec

\* Programs without sockets are programs.
LEMMA NoSockets == FilesSpec => SocketsSpec
<1>1. [NextFds]_<<vars, fileVars>> => [NextFds \/ SocketCall]_<<vars, fileVars>>
  BY Zenon
<1>2. QED
  BY <1>1, PTL DEF FilesSpec, SocketsSpec

\* alloc_fd, release_fd, dup, pipe, fork, exit, kill and wait4: tables hold
\* files that exist, and the counts of files and pipes never go below zero.
THEOREM FilesTypes == SocketsSpec => []FilesTypeOK
<1>1. FilesInv => FilesTypeOK
  BY DEF FilesInv
<1>2. QED
  BY <1>1, FilesInvariant, PTL

\* ref_count of struct file is the number of fds that point at it, whatever
\* programs dup, fork, close, kill and die of.
THEOREM RefCountsStayExact == SocketsSpec => []RefCountExact
<1>1. FilesInv => RefCountExact
  BY DEF FilesInv
<1>2. QED
  BY <1>1, FilesInvariant, PTL

\* read_ref and write_ref of a pipe are the numbers of its open ends.
THEOREM PipeEndsStayCounted == SocketsSpec => []PipeEndsCounted
<1>1. FilesInv => PipeEndsCounted
  BY DEF FilesInv
<1>2. QED
  BY <1>1, FilesInvariant, PTL

---------------------------------------------------------------------------
(* Waiting in a pipe *)

\* What keeps a task waiting in w: the pipe is full, or empty and can still be
\* written to.
StuckIn(w) ==
  /\ w.pipe \in Pipe
  /\ w.left \in 1 .. PIPE_SIZE + 1
  /\ ~nonblocking[w.pipe]
  /\ IF w.pipe_end = 1 THEN filled[w.pipe] = PIPE_SIZE
     ELSE filled[w.pipe] = 0 /\ write_ref[w.pipe] > 0

\* As long as nobody kills: the chain of naps, and only its last task waits.
WaitInv ==
  ~killed => /\ SInv
             /\ \A t \in Pid : spins[t] # NoWait => t = current_task /\ StuckIn(spins[t])

\* The fd calls are steps of Process, and of programs that do not kill until
\* one does.
LEMMA ProcessStep ==
  ASSUME [NextFds \/ SocketCall]_<<vars, fileVars>>, ~killed'
  PROVE  ~killed /\ [Next]_vars
<1>1. ASSUME FdCall PROVE ~killed /\ [Next]_vars
  <2>1. killed' = killed /\ ExecveFails
    BY <1>1 DEF FdCall, InProgram, ExecveFails
  <2>2. QED
    BY <2>1 DEF Next
<1>2. CASE Open \/ PipeCall \/ SocketCall
  BY <1>1, <1>2 DEF Open, PipeCall, SocketCall
<1>3. ASSUME NEW fd \in Fd,
             \/ Dup(fd) \/ Close(fd) \/ \E newfd \in Fd : Dup2(fd, newfd)
             \/ \E nb \in BOOLEAN : Fionbio(fd, nb)
      PROVE  ~killed /\ [Next]_vars
  <2>1. FdCall
    BY <1>3, Zenon DEF Dup, Close, Dup2, Fionbio
  <2>2. QED
    BY <1>1, <2>1
<1>4. ASSUME current_task # NULL, PipeStep PROVE ~killed /\ [Next]_vars
  <2>1. /\ killed' = killed
        /\ UNCHANGED <<ring, next_pid, state, ppid, exit_code, img_size, img_snapshot, image, prog>>
        /\ current_task' = SyscallReturn(ring, state) \/ current_task' = current_task
    BY <1>4 DEF PipeStep
  <2>2. ExecveFails \/ UNCHANGED vars
    BY <1>4, <2>1 DEF ExecveFails, vars
  <2>3. QED
    BY <2>1, <2>2 DEF Next
<1>5. CASE \/ \E fd \in Fd, n \in 1 .. PIPE_SIZE + 1 : PipeWrite(fd, n) \/ PipeRead(fd, n)
           \/ PipeRetry
  <2>1. current_task # NULL /\ PipeStep
    BY <1>5, Zenon DEF PipeWrite, PipeRead, PipeRetry, InProgram
  <2>2. QED
    BY <1>4, <2>1
<1>6. CASE ForkFds
  BY <1>6 DEF ForkFds, Next
<1>7. CASE KeepFds
  <2>1. killed' = killed /\ (TimerTick \/ ExecveFails \/ \E n \in 1 .. Pages : Execve(n))
    BY <1>7 DEF KeepFds, fileVars
  <2>2. QED
    BY <2>1 DEF Next
<1>8. CASE DieFds
  BY <1>8 DEF DieFds, Next
<1>9. CASE Wait4Fds
  BY <1>9 DEF Wait4Fds, Next
<1>10. CASE KillSelfFds \/ \E t \in Pid : KillOtherFds(t)
  BY <1>10 DEF KillSelfFds, KillOtherFds
<1>11. CASE UNCHANGED <<vars, fileVars>>
  BY <1>11 DEF fileVars
<1>12. QED
  BY <1>2, <1>3, <1>5, <1>6, <1>7, <1>8, <1>9, <1>10, <1>11, Zenon DEF NextFds

\* While nobody kills, a program that runs is the only one that could wait.
LEMMA NobodyWaits ==
  ASSUME WaitInv, ~killed, InProgram
  PROVE  \A t \in Pid : spins[t] = NoWait
BY DEF WaitInv, InProgram

\* A call that waits after it has moved what it could is stuck.
LEMMA MoveStuck ==
  ASSUME FilesInv, current_task # NULL, NEW p \in Pipe, NEW left \in 1 .. PIPE_SIZE + 1,
         pipe_write(p, left) \/ pipe_read(p, left),
         UNCHANGED <<write_ref, nonblocking>>
  PROVE  /\ \A t \in Pid : t # current_task => spins'[t] = spins[t]
         /\ \A w : spins'[current_task] = w /\ w # NoWait => StuckIn(w)'
<1>1. current_task \in Pid
  BY FilesTyped
<1>2. /\ filled \in [Pipe -> 0 .. PIPE_SIZE] /\ spins \in [Pid -> Waits]
      /\ filled[p] \in Nat /\ filled[p] <= PIPE_SIZE /\ PIPE_SIZE \in Nat
      /\ left \in Nat /\ left <= PIPE_SIZE + 1 /\ left >= 1
  BY TypeParts, FilesAssumption DEF Waits
<1>3. \A t \in Pid : t # current_task => spins'[t] = spins[t]
  BY <1>1, <1>2 DEF pipe_write, pipe_read
<1>4. ASSUME NEW w, spins'[current_task] = w, w # NoWait
      PROVE  StuckIn(w)'
  <2>1. CASE pipe_write(p, left)
    <3> DEFINE n == Min({left, PIPE_SIZE - filled[p]})
    <3>1. n \in {left, PIPE_SIZE - filled[p]} /\ n <= left /\ n <= PIPE_SIZE - filled[p]
      <4>1. left \in Int /\ PIPE_SIZE - filled[p] \in Int
        BY <1>2
      <4>2. QED
        BY <4>1, MinProp
    <3>2. /\ filled' = [filled EXCEPT ![p] = @ + n]
          /\ spins' = [spins EXCEPT ![current_task] =
                       IF n = left \/ nonblocking[p] THEN NoWait
                       ELSE [pipe |-> p, pipe_end |-> 1, left |-> left - n]]
      BY <2>1 DEF pipe_write
    <3> HIDE DEF n
    <3>3. ~(n = left \/ nonblocking[p]) /\ w = [pipe |-> p, pipe_end |-> 1, left |-> left - n]
      BY <3>2, <1>1, <1>2, <1>4
    <3>4. n = PIPE_SIZE - filled[p] /\ n \in Nat /\ n < left
      BY <3>1, <3>3, <1>2
    <3>5. filled'[p] = PIPE_SIZE
      <4>1. filled'[p] = filled[p] + n
        BY <3>2, <1>2
      <4>2. QED
        BY <4>1, <3>4, <1>2
    <3>6. left - n \in 1 .. PIPE_SIZE + 1
      BY <3>4, <1>2
    <3>7. w.pipe = p /\ w.pipe_end = 1 /\ w.left = left - n
      BY <3>3
    <3>8. ~nonblocking'[p]
      BY <3>3
    <3>9. QED
      BY <3>5, <3>6, <3>7, <3>8 DEF StuckIn
  <2>2. CASE pipe_read(p, left)
    <3> DEFINE n == Min({left, filled[p]})
    <3>1. n \in {left, filled[p]} /\ n <= left /\ n <= filled[p]
      <4>1. left \in Int /\ filled[p] \in Int
        BY <1>2
      <4>2. QED
        BY <4>1, MinProp
    <3>2. /\ filled' = [filled EXCEPT ![p] = @ - n]
          /\ spins' = [spins EXCEPT ![current_task] =
                       IF n = left \/ ~reader_waits(p) THEN NoWait
                       ELSE [pipe |-> p, pipe_end |-> 0, left |-> left - n]]
      BY <2>2 DEF pipe_read
    <3> HIDE DEF n
    <3>3. ~(n = left \/ ~reader_waits(p)) /\ w = [pipe |-> p, pipe_end |-> 0, left |-> left - n]
      BY <3>2, <1>1, <1>2, <1>4
    <3>4. n = filled[p] /\ n \in Nat /\ n < left
      BY <3>1, <3>3, <1>2
    <3>5. filled'[p] = 0
      <4>1. filled'[p] = filled[p] - n
        BY <3>2, <1>2
      <4>2. QED
        BY <4>1, <3>4, <1>2
    <3>6. left - n \in 1 .. PIPE_SIZE + 1
      BY <3>4, <1>2
    <3>7. w.pipe = p /\ w.pipe_end = 0 /\ w.left = left - n
      BY <3>3
    <3>8. ~nonblocking'[p] /\ write_ref'[p] > 0
      BY <3>3 DEF reader_waits
    <3>9. QED
      BY <3>5, <3>6, <3>7, <3>8 DEF StuckIn
  <2>3. QED
    BY <2>1, <2>2
<1>5. QED
  BY <1>3, <1>4

\* A retry of a stuck call moves nothing and leaves it waiting.
LEMMA RetryMovesNothing ==
  ASSUME FilesInv, current_task # NULL, NEW w, w = spins[current_task], w # NoWait, StuckIn(w),
         IF w.pipe_end = 1 THEN pipe_write(w.pipe, w.left) ELSE pipe_read(w.pipe, w.left)
  PROVE  filled' = filled /\ spins' = spins
<1>1. current_task \in Pid
  BY FilesTyped
<1>2. /\ filled \in [Pipe -> 0 .. PIPE_SIZE] /\ spins \in [Pid -> Waits] /\ PIPE_SIZE \in Nat
      /\ w \in Waits
  BY <1>1, TypeParts, FilesAssumption DEF Waits
<1>3. PICK p \in Pipe, left \in Nat : p = w.pipe /\ left = w.left /\ left >= 1
  BY <1>2 DEF StuckIn
<1>4. ASSUME NEW e \in {0, 1}, w.pipe_end = e PROVE w = [pipe |-> p, pipe_end |-> e, left |-> left]
  BY <1>2, <1>3, <1>4 DEF Waits
<1>5. ~nonblocking[p]
  BY <1>3 DEF StuckIn
<1>6. ASSUME NEW m, m = w, filled' = [filled EXCEPT ![p] = filled[p]],
             spins' = [spins EXCEPT ![current_task] = m]
      PROVE  filled' = filled /\ spins' = spins
  BY <1>1, <1>2, <1>6
<1>7. CASE w.pipe_end = 1
  <2>1. filled[p] = PIPE_SIZE /\ pipe_write(p, left)
    BY <1>3, <1>7 DEF StuckIn
  <2> DEFINE n == Min({left, PIPE_SIZE - filled[p]})
  <2>2. n = 0
    <3>1. PIPE_SIZE - filled[p] = 0 /\ left \in Int /\ 0 \in Int
      BY <2>1, <1>2
    <3>2. Min({left, 0}) \in {left, 0} /\ Min({left, 0}) <= left /\ Min({left, 0}) <= 0
      BY <3>1, MinProp
    <3>3. QED
      BY <3>1, <3>2, <1>3
  <2>3. /\ filled' = [filled EXCEPT ![p] = @ + n]
        /\ spins' = [spins EXCEPT ![current_task] =
                     IF n = left \/ nonblocking[p] THEN NoWait
                     ELSE [pipe |-> p, pipe_end |-> 1, left |-> left - n]]
    BY <2>1 DEF pipe_write
  <2> HIDE DEF n
  <2>4. ~(n = left \/ nonblocking[p]) /\ left - n = left /\ filled[p] + n = filled[p]
    BY <1>2, <1>3, <1>5, <2>1, <2>2
  <2>5. filled' = [filled EXCEPT ![p] = filled[p]]
    BY <1>2, <2>3, <2>4
  <2>6. spins' = [spins EXCEPT ![current_task] = [pipe |-> p, pipe_end |-> 1, left |-> left]]
    BY <2>3, <2>4
  <2>7. QED
    BY <1>4, <1>6, <1>7, <2>5, <2>6
<1>8. CASE w.pipe_end # 1
  <2>0. w.pipe_end = 0
    BY <1>2, <1>8 DEF Waits
  <2>1. filled[p] = 0 /\ write_ref[p] > 0 /\ pipe_read(p, left)
    BY <1>3, <1>8 DEF StuckIn
  <2> DEFINE n == Min({left, filled[p]})
  <2>2. n = 0
    <3>1. left \in Int /\ 0 \in Int
      BY <1>2
    <3>2. Min({left, 0}) \in {left, 0} /\ Min({left, 0}) <= left /\ Min({left, 0}) <= 0
      BY <3>1, MinProp
    <3>3. QED
      BY <2>1, <3>1, <3>2, <1>3
  <2>3. /\ filled' = [filled EXCEPT ![p] = @ - n]
        /\ spins' = [spins EXCEPT ![current_task] =
                     IF n = left \/ ~reader_waits(p) THEN NoWait
                     ELSE [pipe |-> p, pipe_end |-> 0, left |-> left - n]]
    BY <2>1 DEF pipe_read
  <2> HIDE DEF n
  <2>4. ~(n = left \/ ~reader_waits(p)) /\ left - n = left /\ filled[p] - n = filled[p]
    BY <1>2, <1>3, <1>5, <2>1, <2>2 DEF reader_waits
  <2>5. filled' = [filled EXCEPT ![p] = filled[p]]
    BY <1>2, <2>3, <2>4
  <2>6. spins' = [spins EXCEPT ![current_task] = [pipe |-> p, pipe_end |-> 0, left |-> left]]
    BY <2>3, <2>4
  <2>7. QED
    BY <1>4, <1>6, <2>0, <2>5, <2>6
<1>9. QED
  BY <1>7, <1>8

\* The calls of a program that change nobody's wait.
LEMMA CallsKeepSpins ==
  ASSUME \/ Open \/ PipeCall \/ SocketCall
         \/ \E fd \in Fd : \/ Dup(fd) \/ Close(fd) \/ \E newfd \in Fd : Dup2(fd, newfd)
                           \/ \E nb \in BOOLEAN : Fionbio(fd, nb)
         \/ ForkFds \/ (KeepFds /\ ~TimerTick) \/ DieFds \/ Wait4Fds
  PROVE  InProgram /\ spins' = spins
<1>1. CASE Open \/ PipeCall \/ SocketCall
  BY <1>1 DEF Open, PipeCall, SocketCall, FdCall, pipeVars
<1>2. ASSUME NEW fd \in Fd, Dup(fd) \/ Close(fd) \/ \E nb \in BOOLEAN : Fionbio(fd, nb)
      PROVE  InProgram /\ spins' = spins
  BY <1>2 DEF Dup, Close, Fionbio, FdCall, pipeVars, close_files
<1>3. ASSUME NEW fd \in Fd, NEW newfd \in Fd, Dup2(fd, newfd)
      PROVE  InProgram /\ spins' = spins
  BY <1>3 DEF Dup2, FdCall, close_files
<1>4. CASE ForkFds \/ Wait4Fds
  BY <1>4 DEF ForkFds, Wait4Fds, pipeVars
<1>5. CASE KeepFds /\ ~TimerTick
  BY <1>5 DEF KeepFds, fileVars
<1>6. CASE DieFds
  BY <1>6 DEF DieFds, RespawnFds, ExitFds, close_files
<1>7. QED
  BY <1>1, <1>2, <1>3, <1>4, <1>5, <1>6, Zenon

\* While nobody kills: who waits stays where it is and keeps the CPU, and
\* whoever waits after a step is stuck.
LEMMA WaitStep ==
  ASSUME FilesInv, WaitInv, [NextFds \/ SocketCall]_<<vars, fileVars>>, ~killed'
  PROVE  /\ \A t \in Pid : spins[t] # NoWait =>
              spins' = spins /\ filled' = filled /\ current_task' = t
         /\ \A t \in Pid : spins'[t] # NoWait => current_task' = t /\ StuckIn(spins[t])'
<1>1. ~killed /\ [Next]_vars
  BY ProcessStep
<1>2. SInv /\ \A t \in Pid : spins[t] # NoWait => t = current_task /\ StuckIn(spins[t])
  BY <1>1 DEF WaitInv
<1>3. ASSUME UNCHANGED <<spins, filled, nonblocking, write_ref>>,
             \A t \in Pid : spins[t] # NoWait => current_task' = current_task
      PROVE  /\ \A t \in Pid : spins[t] # NoWait =>
                  spins' = spins /\ filled' = filled /\ current_task' = t
             /\ \A t \in Pid : spins'[t] # NoWait => current_task' = t /\ StuckIn(spins[t])'
  BY <1>2, <1>3 DEF StuckIn
<1>4. ASSUME InProgram, spins' = spins
      PROVE  /\ \A t \in Pid : spins[t] # NoWait =>
                  spins' = spins /\ filled' = filled /\ current_task' = t
             /\ \A t \in Pid : spins'[t] # NoWait => current_task' = t /\ StuckIn(spins[t])'
  <2>1. \A t \in Pid : spins[t] = NoWait
    BY <1>1, <1>4, NobodyWaits
  <2>2. QED
    BY <1>4, <2>1
<1>5. CASE \/ Open \/ PipeCall \/ SocketCall
           \/ \E fd \in Fd : \/ Dup(fd) \/ Close(fd) \/ \E newfd \in Fd : Dup2(fd, newfd)
                             \/ \E nb \in BOOLEAN : Fionbio(fd, nb)
           \/ ForkFds \/ (KeepFds /\ ~TimerTick) \/ DieFds \/ Wait4Fds
  BY <1>4, <1>5, CallsKeepSpins
<1>6. CASE KeepFds /\ TimerTick
  <2>1. UNCHANGED <<spins, filled, nonblocking, write_ref>>
    BY <1>6 DEF KeepFds, fileVars
  <2>2. ASSUME NEW t \in Pid, spins[t] # NoWait PROVE current_task' = current_task
    <3>1. t = current_task /\ current_task # NULL
      BY <1>2, <2>2, PidProp
    <3>2. KInv' /\ current_task' # NULL
      BY <1>6, TickKeeps DEF FilesInv
    <3>3. ring' = ring /\ state' = state
      BY <1>6 DEF TimerTick
    <3>4. current_task \in Queued /\ state[current_task] = RUNNING
      BY <1>2, <3>1, ChainFacts
    <3>5. PICK r : r = current_task
      OBVIOUS
    <3>6. r \in Queued' /\ state'[r] = RUNNING
      BY <3>3, <3>4, <3>5 DEF Queued
    <3>7. current_task' = r
      BY <3>2, <3>6, RunnerResumed
    <3>8. QED
      BY <3>5, <3>7
  <2>3. QED
    BY <1>3, <2>1, <2>2
<1>7. CASE UNCHANGED <<vars, fileVars>>
  <2>1. UNCHANGED <<spins, filled, nonblocking, write_ref>> /\ current_task' = current_task
    BY <1>7 DEF vars, fileVars
  <2>2. QED
    BY <1>3, <2>1
<1>8. ASSUME NEW fd \in Fd, NEW n \in 1 .. PIPE_SIZE + 1, PipeWrite(fd, n) \/ PipeRead(fd, n)
      PROVE  /\ \A t \in Pid : spins[t] # NoWait =>
                  spins' = spins /\ filled' = filled /\ current_task' = t
             /\ \A t \in Pid : spins'[t] # NoWait => current_task' = t /\ StuckIn(spins[t])'
  <2>1. /\ InProgram /\ PipeOf(fd) # NULL /\ PipeStep
        /\ pipe_write(PipeOf(fd), n) \/ pipe_read(PipeOf(fd), n)
    BY <1>8, Zenon DEF PipeWrite, PipeRead
  <2>2. current_task # NULL
    BY <2>1 DEF InProgram
  <2>3. PipeOf(fd) \in Pipe
    BY <2>1, <2>2, PipeOfProp
  <2>4. UNCHANGED <<write_ref, nonblocking>>
    BY <2>1 DEF PipeStep
  <2>5. \A t \in Pid : spins[t] = NoWait
    BY <1>1, <2>1, NobodyWaits
  <2>6. /\ \A t \in Pid : t # current_task => spins'[t] = spins[t]
        /\ \A w : spins'[current_task] = w /\ w # NoWait => StuckIn(w)'
    BY <2>1, <2>2, <2>3, <2>4, MoveStuck
  <2>7. ASSUME NEW t \in Pid, spins'[t] # NoWait PROVE current_task' = t /\ StuckIn(spins[t])'
    <3>1. t = current_task
      BY <2>5, <2>6, <2>7
    <3>2. current_task' = current_task
      BY <2>1, <2>7, <3>1 DEF PipeStep
    <3>3. PICK w : w = spins'[t]
      OBVIOUS
    <3>4. StuckIn(w)'
      BY <2>6, <2>7, <3>1, <3>3
    <3>5. QED
      BY <3>1, <3>2, <3>3, <3>4 DEF StuckIn
  <2>8. QED
    BY <2>5, <2>7
<1>9. CASE PipeRetry
  <2>1. /\ current_task # NULL /\ spins[current_task] # NoWait /\ PipeStep
    BY <1>9 DEF PipeRetry
  <2>2. current_task \in Pid
    BY <2>1, FilesTyped
  <2>3. PICK w : w = spins[current_task]
    OBVIOUS
  <2>4. w # NoWait /\ StuckIn(w)
    BY <1>2, <2>1, <2>2, <2>3
  <2>5. IF w.pipe_end = 1 THEN pipe_write(w.pipe, w.left) ELSE pipe_read(w.pipe, w.left)
    BY <1>9, <2>3 DEF PipeRetry
  <2>6. filled' = filled /\ spins' = spins
    BY <2>1, <2>3, <2>4, <2>5, RetryMovesNothing
  <2>7. current_task' = current_task
    BY <2>1, <2>6 DEF PipeStep
  <2>8. UNCHANGED <<spins, filled, nonblocking, write_ref>>
    BY <2>1, <2>6 DEF PipeStep
  <2>9. QED
    BY <1>3, <2>7, <2>8
<1>10. CASE KillSelfFds \/ \E t \in Pid : KillOtherFds(t)
  BY <1>10 DEF KillSelfFds, KillOtherFds
<1>11. QED
  BY <1>5, <1>6, <1>7, <1>8, <1>9, <1>10, Zenon DEF NextFds

LEMMA InitWaitInv == InitFds => WaitInv
BY InitSInv DEF InitFds, WaitInv

LEMMA NextWaitInv ==
  FilesInv /\ WaitInv /\ [NextFds \/ SocketCall]_<<vars, fileVars>> => WaitInv'
<1> SUFFICES ASSUME FilesInv, WaitInv, [NextFds \/ SocketCall]_<<vars, fileVars>>, ~killed'
             PROVE  /\ SInv'
                    /\ \A t \in Pid : spins'[t] # NoWait => t = current_task' /\ StuckIn(spins[t])'
  BY DEF WaitInv, NoWait
<1>1. ~killed /\ [Next]_vars
  BY ProcessStep
<1>2. SInv'
  BY <1>1, NextSInv DEF WaitInv
<1>3. \A t \in Pid : spins'[t] # NoWait => current_task' = t /\ StuckIn(spins[t])'
  BY WaitStep
<1>4. QED
  BY <1>2, <1>3

\* What the property says of a step.
LEMMA WaitIsForever ==
  ASSUME FilesInv, WaitInv, [NextFds \/ SocketCall]_<<vars, fileVars>>,
         NEW t \in Pid, ~killed', spins[t] # NoWait \/ spins'[t] # NoWait
  PROVE  /\ spins[t] # NoWait => UNCHANGED <<spins, filled>>
         /\ current_task' = t
         /\ IF spins'[t].pipe_end = 1 THEN filled'[spins'[t].pipe] = PIPE_SIZE
            ELSE filled'[spins'[t].pipe] = 0 /\ write_ref'[spins'[t].pipe] > 0
<1>1. /\ spins[t] # NoWait => spins' = spins /\ filled' = filled /\ current_task' = t
      /\ spins'[t] # NoWait => current_task' = t /\ StuckIn(spins[t])'
  BY WaitStep
<1>2. spins'[t] # NoWait
  BY <1>1
<1>3. StuckIn(spins[t])' /\ current_task' = t
  BY <1>1, <1>2
<1>4. QED
  BY <1>1, <1>3 DEF StuckIn

\* pipe_read and pipe_write: a task that waits in a pipe has the CPU and waits
\* for ever, in programs that do not kill.
THEOREM PipeWaitsAreForever == SocketsSpec => PipeWaitIsForever
<1>1. FilesInv /\ WaitInv /\ [NextFds \/ SocketCall]_<<vars, fileVars>> =>
        [\A t \in Pid : ~killed' /\ (spins[t] # NoWait \/ spins'[t] # NoWait) =>
           /\ spins[t] # NoWait => UNCHANGED <<spins, filled>>
           /\ current_task' = t
           /\ IF spins'[t].pipe_end = 1 THEN filled'[spins'[t].pipe] = PIPE_SIZE
              ELSE filled'[spins'[t].pipe] = 0 /\ write_ref'[spins'[t].pipe] > 0
        ]_<<vars, fileVars>>
  BY WaitIsForever
<1>2. QED
  BY <1>1, InitWaitInv, NextWaitInv, FilesInvariant, PTL DEF SocketsSpec, PipeWaitIsForever
=============================================================================
