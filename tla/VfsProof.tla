------------------------------ MODULE VfsProof ------------------------------
(* Proofs about Vfs, for every set of paths, bytes, offsets, lengths and    *)
(* targets and every number of inodes.                                      *)
EXTENDS Vfs, ListFacts

---------------------------------------------------------------------------
(* The inductive invariant.  Calls change the data in several steps, so the *)
(* part about it is said of a value of the state.                           *)

Modes == {REG, DIR, LNK, "NONE"}
Units == Byte \cup {0, Junk}                      \* what a file is made of
Words == Units \cup Names \cup {SLASH, UP}        \* and a link
NodeRecords ==
  [path : Path \cup {Root}, mode : Modes, data : Blob \cup {NULL}, size : Nat,
   capacity : Nat, data_refs : Blob \cup {NULL}]
DataStates ==
  [node : [Ino -> NodeRecords], bytes : [Blob -> Seq(Words)], count : [Blob -> Nat]]

\* The nodes that hold a count.
Holding(nd, c) == {i \in Ino : nd[i].data_refs = c}

\* A node that is not there holds nothing; the others know how large their
\* blob is, and what is in it.
NodeOK(n, by) ==
  /\ n.mode = "NONE" => n = NoNode
  /\ n.mode # "NONE" => n.path \in Path
  /\ n.size <= n.capacity
  /\ n.data = NULL => n.capacity = 0
  /\ n.mode = REG /\ n.data # NULL =>
       Len(by[n.data]) = n.capacity /\ by[n.data] \in Seq(Units)

DataOK(s) ==
  /\ s \in DataStates
  /\ \A i \in Ino : NodeOK(s.node[i], s.bytes)
  /\ \A c \in Blob : s.count[c] = Cardinality(Holding(s.node, c))
  /\ \A i, j \in Ino : s.node[i].data_refs # NULL /\ s.node[i].data_refs = s.node[j].data_refs =>
       s.node[i].data = s.node[j].data
  /\ \A b \in Blob : s.bytes[b] # << >> <=> \E i \in Ino : s.node[i].data = b
  /\ \A i, j \in Ino : i # j /\ s.node[i].data # NULL /\ s.node[i].data = s.node[j].data =>
       s.node[i].data_refs # NULL /\ s.node[i].data_refs = s.node[j].data_refs

\* Inode numbers are handed out once.
NumbersOK ==
  /\ next_ino \in 2 .. MaxIno + 1
  /\ \A i \in Ino : node[i].mode # "NONE" => i < next_ino
  /\ tidy \in BOOLEAN

VfsInv == DataOK(Data) /\ NumbersOK

---------------------------------------------------------------------------
(* Numbers *)

\* Inodes and blobs are numbers other than NULL, with one blob more than inodes.
LEMMA InoFact ==
  /\ MaxIno \in Nat /\ MaxIno >= 1
  /\ Ino \in SUBSET Nat /\ IsFiniteSet(Ino) /\ Cardinality(Ino) = MaxIno - 1 /\ 0 \notin Ino
  /\ Blob \in SUBSET Nat /\ IsFiniteSet(Blob) /\ Cardinality(Blob) = MaxIno /\ 0 \notin Blob
<1>1. MaxIno \in Nat /\ MaxIno >= 1
  BY VfsAssumption
<1>2. IsFiniteSet(2 .. MaxIno) /\ Cardinality(2 .. MaxIno) = MaxIno - 1
  <2>1. /\ IsFiniteSet(2 .. MaxIno)
        /\ Cardinality(2 .. MaxIno) = IF 2 > MaxIno THEN 0 ELSE MaxIno - 2 + 1
    BY <1>1, FS_Interval
  <2>2. QED
    BY <1>1, <2>1
<1>3. IsFiniteSet(1 .. MaxIno) /\ Cardinality(1 .. MaxIno) = MaxIno
  <2>1. /\ IsFiniteSet(1 .. MaxIno)
        /\ Cardinality(1 .. MaxIno) = IF 1 > MaxIno THEN 0 ELSE MaxIno - 1 + 1
    BY <1>1, FS_Interval
  <2>2. QED
    BY <1>1, <2>1
<1>4. QED
  BY <1>1, <1>2, <1>3 DEF Ino, Blob

\* A blob too many: not every blob can have an owner.
LEMMA SpareBlob ==
  ASSUME NEW f \in [Ino -> Blob \cup {NULL}]
  PROVE  \E b \in Blob : \A i \in Ino : f[i] # b
<1> SUFFICES ASSUME \A b \in Blob : \E i \in Ino : f[i] = b PROVE FALSE
  BY Zenon
<1> DEFINE g == [b \in Blob |-> CHOOSE i \in Ino : f[i] = b]
<1>1. \A b \in Blob : g[b] \in Ino /\ f[g[b]] = b
  OBVIOUS
<1>2. g \in [Blob -> Ino]
  BY <1>1
<1> HIDE DEF g
<1>3. IsFiniteSet(Blob) /\ IsFiniteSet(Ino) /\ Cardinality(Ino) < Cardinality(Blob)
  BY InoFact
<1>4. \E x, y \in Blob : x # y /\ g[x] = g[y]
  BY <1>2, <1>3, FS_PigeonHole
<1>5. QED
  BY <1>1, <1>4

\* Prefer picks from the set.
LEMMA PreferFact ==
  ASSUME NEW S, S # {}, NEW i
  PROVE  Prefer(i, S) \in S
BY DEF Prefer

\* The heap has a block for every blob and every count that is asked for.
LEMMA FreeFact ==
  ASSUME NEW s, DataOK(s), NEW i
  PROVE  /\ free_blob(s, i) \in Blob /\ s.bytes[free_blob(s, i)] = << >>
         /\ \A j \in Ino : s.node[j].data # free_blob(s, i)
         /\ free_cell(s, i) \in Blob /\ s.count[free_cell(s, i)] = 0
         /\ \A j \in Ino : s.node[j].data_refs # free_cell(s, i)
<1>1. /\ \A j \in Ino : s.node[j].data \in Blob \cup {NULL} /\ s.node[j].data_refs \in Blob \cup {NULL}
  BY DEF DataOK, DataStates, NodeRecords
<1>2. PICK b \in Blob : \A j \in Ino : s.node[j].data # b
  <2> DEFINE f == [j \in Ino |-> s.node[j].data]
  <2>1. f \in [Ino -> Blob \cup {NULL}] /\ \A j \in Ino : f[j] = s.node[j].data
    BY <1>1
  <2> HIDE DEF f
  <2>2. QED
    BY <2>1, SpareBlob
<1>3. PICK c \in Blob : \A j \in Ino : s.node[j].data_refs # c
  <2> DEFINE f == [j \in Ino |-> s.node[j].data_refs]
  <2>1. f \in [Ino -> Blob \cup {NULL}] /\ \A j \in Ino : f[j] = s.node[j].data_refs
    BY <1>1
  <2> HIDE DEF f
  <2>2. QED
    BY <2>1, SpareBlob
<1>4. \A x \in Blob : s.bytes[x] = << >> <=> \A j \in Ino : s.node[j].data # x
  BY DEF DataOK
<1>5. \A x \in Blob : s.count[x] = 0 <=> \A j \in Ino : s.node[j].data_refs # x
  <2> TAKE x \in Blob
  <2>1. s.count[x] = Cardinality(Holding(s.node, x)) /\ IsFiniteSet(Holding(s.node, x))
    <3>1. Holding(s.node, x) \in SUBSET Ino
      BY DEF Holding
    <3>2. QED
      BY <3>1, InoFact, FS_Subset DEF DataOK
  <2>2. s.count[x] = 0 <=> Holding(s.node, x) = {}
    BY <2>1, FS_EmptySet
  <2>3. QED
    BY <2>2 DEF Holding
<1>6. free_blob(s, i) \in {x \in Blob : s.bytes[x] = << >>}
  BY <1>2, <1>4, PreferFact DEF free_blob
<1>7. free_cell(s, i) \in {x \in Blob : s.count[x] = 0}
  BY <1>3, <1>5, PreferFact DEF free_cell
<1>8. QED
  BY <1>4, <1>5, <1>6, <1>7

\* One node changes its mind about the count it holds.
Moved(nd, nd2, i, c) ==
  /\ Cardinality(Holding(nd, c)) \in Nat /\ Cardinality(Holding(nd2, c)) \in Nat
  /\ nd[i].data_refs = nd2[i].data_refs =>
       Cardinality(Holding(nd2, c)) = Cardinality(Holding(nd, c))
  /\ nd[i].data_refs # nd2[i].data_refs =>
       Cardinality(Holding(nd2, c)) =
         IF c = nd[i].data_refs THEN Cardinality(Holding(nd, c)) - 1
         ELSE IF c = nd2[i].data_refs THEN Cardinality(Holding(nd, c)) + 1
         ELSE Cardinality(Holding(nd, c))

\* When only node i changes, the holders of a count change by i at most.
LEMMA HoldingMoves ==
  ASSUME NEW nd, NEW nd2, NEW i \in Ino,
         \A j \in Ino \ {i} : nd2[j].data_refs = nd[j].data_refs,
         NEW c
  PROVE  Moved(nd, nd2, i, c)
<1> DEFINE H == Holding(nd, c)
           G == Holding(nd2, c)
<1>1. IsFiniteSet(H) /\ IsFiniteSet(G)
  <2>1. H \in SUBSET Ino /\ G \in SUBSET Ino
    BY DEF Holding
  <2>2. QED
    BY <2>1, InoFact, FS_Subset
<1>2. Cardinality(H) \in Nat /\ Cardinality(G) \in Nat
  BY <1>1, FS_CardinalityType
<1>3. i \in H <=> nd[i].data_refs = c
  BY DEF Holding
<1>4. i \in G <=> nd2[i].data_refs = c
  BY DEF Holding
<1>5. H \ {i} = G \ {i}
  BY Zenon DEF Holding
<1> HIDE DEF H, G
<1>6. /\ Cardinality(H \ {i}) = IF i \in H THEN Cardinality(H) - 1 ELSE Cardinality(H)
      /\ Cardinality(G \ {i}) = IF i \in G THEN Cardinality(G) - 1 ELSE Cardinality(G)
  BY <1>1, FS_RemoveElement
<1>7. Cardinality(H \ {i}) = Cardinality(G \ {i})
  BY <1>5
<1>8. QED
  BY <1>2, <1>3, <1>4, <1>6, <1>7 DEF H, G, Moved

---------------------------------------------------------------------------
(* Changes of one node *)

\* Node i becomes m, and the blobs and counts follow.
WithNode(s, i, m, by, ct) == [node |-> [s.node EXCEPT ![i] = m], bytes |-> by, count |-> ct]

\* The other nodes stay, and what they hold.
Only(s, t, i) ==
  \A j \in Ino \ {i} :
    /\ t.node[j] = s.node[j]
    /\ s.node[j].data # NULL => t.bytes[s.node[j].data] = s.bytes[s.node[j].data]

\* Nobody else holds the blob of i, or its count.
Sole(s, i) ==
  \A j \in Ino \ {i} :
    /\ s.node[i].data # NULL => s.node[j].data # s.node[i].data
    /\ s.node[i].data_refs # NULL => s.node[j].data_refs # s.node[i].data_refs

\* Two changes of node i in a row are one change of node i.
LEMMA OnlyTrans ==
  ASSUME NEW s, NEW t, NEW u, NEW i, Only(s, t, i), Only(t, u, i)
  PROVE  Only(s, u, i)
BY DEF Only

\* No change is a change of node i.
LEMMA OnlySame == ASSUME NEW s, NEW i PROVE Only(s, s, i)
BY DEF Only

\* What has to be seen to for a change of one node.
FitsBlob(s, i, m, by) ==
  /\ NodeOK(m, by)
  /\ \A j \in Ino \ {i} : s.node[j].data # NULL => by[s.node[j].data] = s.bytes[s.node[j].data]
  /\ \A j \in Ino \ {i} : m.data # NULL /\ s.node[j].data = m.data =>
       m.data_refs # NULL /\ m.data_refs = s.node[j].data_refs
  /\ \A j \in Ino \ {i} : m.data_refs # NULL /\ s.node[j].data_refs = m.data_refs =>
       m.data = s.node[j].data
  /\ \A b \in Blob : by[b] # << >> <=> b = m.data \/ \E j \in Ino \ {i} : s.node[j].data = b
FitsCount(s, i, m, ct) ==
  \A c \in Blob :
    ct[c] = IF s.node[i].data_refs = m.data_refs THEN s.count[c]
            ELSE IF c = s.node[i].data_refs THEN s.count[c] - 1
            ELSE IF c = m.data_refs THEN s.count[c] + 1
            ELSE s.count[c]

\* What the calls are made of: one node changes, and the blobs and counts fit it.
LEMMA OneNode ==
  ASSUME NEW s, DataOK(s), NEW i \in Ino, NEW m \in NodeRecords,
         NEW by \in [Blob -> Seq(Words)], NEW ct \in [Blob -> Nat],
         FitsBlob(s, i, m, by), FitsCount(s, i, m, ct)
  PROVE  /\ DataOK(WithNode(s, i, m, by, ct))
         /\ Only(s, WithNode(s, i, m, by, ct), i)
<1> DEFINE t == WithNode(s, i, m, by, ct)
           nd == [s.node EXCEPT ![i] = m]
<1>1. s.node \in [Ino -> NodeRecords] /\ s.bytes \in [Blob -> Seq(Words)] /\ s.count \in [Blob -> Nat]
  BY DEF DataOK, DataStates
<1>2. nd \in [Ino -> NodeRecords] /\ nd[i] = m /\ \A j \in Ino \ {i} : nd[j] = s.node[j]
  BY <1>1
<1>3. t.node = nd /\ t.bytes = by /\ t.count = ct /\ t = [node |-> nd, bytes |-> by, count |-> ct]
  BY DEF WithNode
<1>4. t \in DataStates
  BY <1>2, <1>3 DEF DataStates
<1> HIDE DEF t, nd
<1>5. ASSUME NEW j \in Ino PROVE NodeOK(nd[j], by)
  <2>1. CASE j = i
    BY <1>2, <2>1 DEF FitsBlob
  <2>2. CASE j # i
    <3>1. nd[j] = s.node[j] /\ NodeOK(s.node[j], s.bytes)
      BY <1>2, <2>2 DEF DataOK
    <3>2. s.node[j].data # NULL => by[s.node[j].data] = s.bytes[s.node[j].data]
      BY <2>2 DEF FitsBlob
    <3>3. QED
      BY <3>1, <3>2 DEF NodeOK
  <2>3. QED
    BY <2>1, <2>2
<1>6. ASSUME NEW c \in Blob PROVE ct[c] = Cardinality(Holding(nd, c))
  <2>1. s.count[c] = Cardinality(Holding(s.node, c))
    BY DEF DataOK
  <2>2. \A j \in Ino \ {i} : nd[j].data_refs = s.node[j].data_refs
    BY <1>2
  <2>3. Moved(s.node, nd, i, c)
    BY <2>2, HoldingMoves
  <2>4. ct[c] = IF s.node[i].data_refs = m.data_refs THEN s.count[c]
                ELSE IF c = s.node[i].data_refs THEN s.count[c] - 1
                ELSE IF c = m.data_refs THEN s.count[c] + 1
                ELSE s.count[c]
    BY DEF FitsCount
  <2>5. QED
    BY <1>2, <2>1, <2>3, <2>4 DEF Moved
<1>7. ASSUME NEW j \in Ino, NEW k \in Ino, nd[j].data_refs # NULL, nd[j].data_refs = nd[k].data_refs
      PROVE  nd[j].data = nd[k].data
  BY <1>2, <1>7 DEF FitsBlob, DataOK
<1>8. ASSUME NEW b \in Blob PROVE by[b] # << >> <=> \E j \in Ino : nd[j].data = b
  <2>1. by[b] # << >> <=> b = m.data \/ \E j \in Ino \ {i} : s.node[j].data = b
    BY DEF FitsBlob
  <2>2. QED
    BY <1>2, <2>1
<1>9. ASSUME NEW j \in Ino, NEW k \in Ino, j # k, nd[j].data # NULL, nd[j].data = nd[k].data
      PROVE  nd[j].data_refs # NULL /\ nd[j].data_refs = nd[k].data_refs
  BY <1>2, <1>9 DEF FitsBlob, DataOK
<1>10. DataOK(t)
  BY <1>3, <1>4, <1>5, <1>6, <1>7, <1>8, <1>9 DEF DataOK
<1>11. Only(s, t, i)
  BY <1>2, <1>3 DEF Only, FitsBlob
<1>12. QED
  BY <1>10, <1>11 DEF t

\* A node without a count, or with one that nobody else holds, is alone.
LEMMA SoleFact ==
  ASSUME NEW s, DataOK(s), NEW i \in Ino,
         s.node[i].data_refs = NULL \/ s.count[s.node[i].data_refs] <= 1
  PROVE  Sole(s, i)
<1> DEFINE c == s.node[i].data_refs
<1>1. ASSUME c # NULL, NEW j \in Ino \ {i}, s.node[j].data_refs = c PROVE FALSE
  <2> DEFINE H == Holding(s.node, c)
  <2>1. c \in Blob
    BY <1>1 DEF DataOK, DataStates, NodeRecords
  <2>2. H \in SUBSET Ino /\ i \in H /\ j \in H
    BY <1>1 DEF Holding
  <2>3. IsFiniteSet(H) /\ s.count[c] = Cardinality(H)
    BY <2>1, <2>2, InoFact, FS_Subset DEF DataOK
  <2> HIDE DEF H
  <2>4. IsFiniteSet({i, j}) /\ Cardinality({i, j}) = 2
    <3>1. {i, j} = {i} \cup {j} /\ j \notin {i}
      BY <1>1
    <3>2. IsFiniteSet({i}) /\ Cardinality({i}) = 1
      BY FS_Singleton
    <3>3. /\ IsFiniteSet({i} \cup {j})
          /\ Cardinality({i} \cup {j}) = IF j \in {i} THEN Cardinality({i}) ELSE Cardinality({i}) + 1
      BY <3>2, FS_AddElement
    <3>4. QED
      BY <3>1, <3>2, <3>3
  <2>5. Cardinality({i, j}) <= Cardinality(H)
    BY <2>2, <2>3, FS_Subset
  <2>6. s.count[c] \in Nat /\ s.count[c] <= 1
    BY <1>1, <2>1 DEF DataOK, DataStates
  <2>7. QED
    BY <2>3, <2>4, <2>5, <2>6
<1>2. ASSUME s.node[i].data # NULL, NEW j \in Ino \ {i}, s.node[j].data = s.node[i].data PROVE FALSE
  <2>1. c # NULL /\ c = s.node[j].data_refs
    BY <1>2 DEF DataOK
  <2>2. QED
    BY <1>1, <2>1
<1>3. QED
  BY <1>1, <1>2 DEF Sole
\* A count above one has a holder besides i.
LEMMA AnotherHolds ==
  ASSUME NEW s, DataOK(s), NEW i \in Ino, s.node[i].data_refs # NULL,
         ~(s.count[s.node[i].data_refs] <= 1)
  PROVE  \E j \in Ino \ {i} : s.node[j].data_refs = s.node[i].data_refs
<1> SUFFICES ASSUME \A j \in Ino \ {i} : s.node[j].data_refs # s.node[i].data_refs PROVE FALSE
  OBVIOUS
<1> DEFINE c == s.node[i].data_refs
<1>1. c \in Blob
  BY DEF DataOK, DataStates, NodeRecords
<1>2. Holding(s.node, c) = {i}
  BY DEF Holding
<1>3. s.count[c] = Cardinality(Holding(s.node, c))
  BY <1>1 DEF DataOK
<1>4. Cardinality({i}) = 1
  BY FS_Singleton
<1>5. QED
  BY <1>2, <1>3, <1>4

---------------------------------------------------------------------------
(* What the helpers on data do to a file *)

\* The loop of reserve ends with room for length bytes.
LEMMA GrownFact ==
  ASSUME NEW capacity \in Nat, NEW length \in Nat
  PROVE  grown(capacity, length) \in Nat /\ grown(capacity, length) >= length
         /\ grown(capacity, length) >= 1 /\ grown(capacity, length) >= capacity
<1> DEFINE base == IF capacity = 0 THEN MIN_CAPACITY ELSE capacity
           Large == {x \in Nat : x >= 1 /\ x >= capacity}
           F == [p \in Large \X (1 .. length) |-> IF p[1] < length THEN 2 * p[1] ELSE p[1]]
           cap[k \in 0 .. length] ==
             IF k = 0 THEN base
             ELSE IF cap[k - 1] < length THEN 2 * cap[k - 1] ELSE cap[k - 1]
<1>1. base \in Large
  BY VfsAssumption
<1> HIDE DEF base
<1>2. IsBody(F, Large, length)
  BY DEF IsBody
<1>3. \A x \in Large, k \in 1 .. length : F[<<x, k>>] = IF x < length THEN 2 * x ELSE x
  OBVIOUS
<1> HIDE DEF F
<1>4. PICK f \in [0 .. length -> Large] : IsRun(f, F, base, length)
  BY <1>1, <1>2, RunExists
<1>5. f[0] = base /\ \A k \in 1 .. length : f[k] = F[<<f[k - 1], k>>]
  BY <1>4 DEF IsRun
<1>6. f = [k \in 0 .. length |-> IF k = 0 THEN base
                                 ELSE IF f[k - 1] < length THEN 2 * f[k - 1] ELSE f[k - 1]]
  <2>1. ASSUME NEW k \in 0 .. length
        PROVE  f[k] = IF k = 0 THEN base ELSE IF f[k - 1] < length THEN 2 * f[k - 1] ELSE f[k - 1]
    <3>1. CASE k = 0
      BY <1>5, <3>1
    <3>2. CASE k # 0
      <4>1. k \in 1 .. length /\ k - 1 \in 0 .. length
        BY <3>2
      <4>2. f[k - 1] \in Large
        BY <1>4, <4>1
      <4>3. QED
        BY <1>3, <1>5, <3>2, <4>1, <4>2
    <3>3. QED
      BY <3>1, <3>2
  <2>2. QED
    BY <2>1
<1>7. cap = [k \in 0 .. length |-> IF k = 0 THEN base
                                   ELSE IF cap[k - 1] < length THEN 2 * cap[k - 1] ELSE cap[k - 1]]
  BY <1>6
<1>8. grown(capacity, length) = cap[length]
  BY DEF grown, base
<1> HIDE DEF cap
<1>9. /\ cap[0] = base
      /\ \A k \in 1 .. length : cap[k] = IF cap[k - 1] < length THEN 2 * cap[k - 1] ELSE cap[k - 1]
  <2>1. 0 \in 0 .. length /\ \A k \in 1 .. length : k \in 0 .. length /\ k # 0
    OBVIOUS
  <2>2. QED
    BY <1>7, <2>1
<1> DEFINE Bad == {k \in 0 .. length : ~(cap[k] \in Large /\ (cap[k] >= length \/ cap[k] >= k + 1))}
<1>10. Bad = {}
  <2> SUFFICES ASSUME Bad # {} PROVE FALSE
    OBVIOUS
  <2>1. Bad \in SUBSET Nat
    OBVIOUS
  <2>2. PICK k \in Bad : \A j \in Bad : k <= j
    <3> HIDE DEF Bad
    <3>1. QED
      BY <2>1, LeastExists
  <2>3. k # 0
    BY <1>1, <1>9
  <2>4. k \in 1 .. length /\ k - 1 \in 0 .. length /\ ~(k <= k - 1)
    BY <2>3
  <2>5. cap[k - 1] \in Large /\ (cap[k - 1] >= length \/ cap[k - 1] >= (k - 1) + 1)
    BY <2>2, <2>4
  <2>6. cap[k] = IF cap[k - 1] < length THEN 2 * cap[k - 1] ELSE cap[k - 1]
    BY <1>9, <2>4
  <2> DEFINE x == cap[k - 1]
             y == cap[k]
  <2>7. x \in Nat /\ x >= 1 /\ x >= capacity /\ (x >= length \/ x >= k)
    BY <2>4, <2>5
  <2>8. y = IF x < length THEN 2 * x ELSE x
    BY <2>6
  <2> HIDE DEF x, y
  <2>9. y \in Nat /\ y >= 1 /\ y >= capacity /\ (y >= length \/ y >= k + 1)
    BY <2>4, <2>7, <2>8
  <2>10. cap[k] \in Large /\ (cap[k] >= length \/ cap[k] >= k + 1)
    BY <2>9 DEF y
  <2>11. QED
    BY <2>2, <2>10
<1>11. cap[length] \in Large /\ (cap[length] >= length \/ cap[length] >= length + 1)
  BY <1>10
<1>12. QED
  BY <1>8, <1>11

\* A copy has the bytes of the file in front, and junk up to the capacity.
LEMMA CopiedFact ==
  ASSUME NEW old, NEW size \in Nat, NEW capacity \in Nat, size <= capacity,
         \A k \in 1 .. size : old[k] \in Units
  PROVE  /\ Copied(old, size, capacity) \in Seq(Units)
         /\ Len(Copied(old, size, capacity)) = capacity
         /\ \A k \in 1 .. size : Copied(old, size, capacity)[k] = old[k]
<1> DEFINE e(k) == IF k <= size THEN old[k] ELSE Junk
<1>1. \A k \in 1 .. capacity : e(k) \in Units
  BY DEF Units
<1>2. \A k \in 1 .. size : k \in 1 .. capacity /\ e(k) = old[k]
  OBVIOUS
<1>3. Copied(old, size, capacity) = [k \in 1 .. capacity |-> e(k)]
  BY DEF Copied
<1> HIDE DEF e
<1>4. QED
  BY <1>1, <1>2, <1>3

\* Text of a file is text.
LEMMA UnitsAreWords == \A t \in Seq(Units) : t \in Seq(Words)
BY DEF Words

\* What is known of a file.
LEMMA FileFact ==
  ASSUME NEW s, DataOK(s), NEW i \in Ino, s.node[i].mode = REG
  PROVE  LET n == s.node[i]
         IN  /\ n \in NodeRecords /\ n.path \in Path /\ NodeOK(n, s.bytes)
             /\ n.data \in Blob \cup {NULL} /\ n.data_refs \in Blob \cup {NULL}
             /\ n.size \in Nat /\ n.capacity \in Nat /\ n.size <= n.capacity
             /\ n.data = NULL => n.capacity = 0 /\ n.size = 0
             /\ n.data # NULL => /\ s.bytes[n.data] \in Seq(Units) /\ Len(s.bytes[n.data]) = n.capacity
                                 /\ n.capacity > 0
             /\ \A k \in 1 .. n.size : s.bytes[n.data][k] \in Units
<1> DEFINE n == s.node[i]
<1>1. n \in NodeRecords /\ NodeOK(n, s.bytes)
  BY DEF DataOK, DataStates
<1>2. /\ n.data \in Blob \cup {NULL} /\ n.data_refs \in Blob \cup {NULL}
      /\ n.size \in Nat /\ n.capacity \in Nat
  BY <1>1 DEF NodeRecords
<1>3. n.path \in Path /\ n.size <= n.capacity /\ (n.data = NULL => n.capacity = 0)
      /\ (n.data # NULL => Len(s.bytes[n.data]) = n.capacity /\ s.bytes[n.data] \in Seq(Units))
  BY <1>1 DEF NodeOK, REG
<1>4. n.data # NULL => n.capacity > 0
  <2> SUFFICES ASSUME n.data # NULL PROVE n.capacity > 0
    OBVIOUS
  <2>1. n.data \in Blob /\ s.bytes[n.data] # << >>
    BY <1>2 DEF DataOK
  <2>2. Len(s.bytes[n.data]) > 0
    BY <1>3, <2>1
  <2>3. QED
    BY <1>3, <2>2
<1>5. ASSUME NEW k \in 1 .. n.size PROVE s.bytes[n.data][k] \in Units
  <2>1. n.data # NULL /\ k \in 1 .. Len(s.bytes[n.data])
    BY <1>2, <1>3
  <2>2. QED
    BY <1>3, <2>1
<1> HIDE DEF n
<1>6. n.data = NULL => n.size = 0
  BY <1>2, <1>3
<1>7. QED
  BY <1>1, <1>2, <1>3, <1>4, <1>5, <1>6 DEF n

\* The file is the same from outside.
SameFile(s, t, i) ==
  /\ t.node[i].path = s.node[i].path /\ t.node[i].mode = s.node[i].mode
  /\ t.node[i].size = s.node[i].size
  /\ \A k \in 1 .. s.node[i].size : t.bytes[t.node[i].data][k] = s.bytes[s.node[i].data][k]

\* data_cow: the file is the same, and the node has its blob for itself.
LEMMA CowFact ==
  ASSUME NEW s, DataOK(s), NEW i \in Ino, s.node[i].mode = REG
  PROVE  LET t == data_cow(s, i)
         IN  /\ DataOK(t) /\ Only(s, t, i) /\ SameFile(s, t, i) /\ Sole(t, i)
             /\ t.node[i].capacity = s.node[i].capacity
<1> DEFINE n == s.node[i]
           t == data_cow(s, i)
<1>1. CASE n.data_refs = NULL \/ s.count[n.data_refs] <= 1
  <2>1. t = s
    BY <1>1 DEF data_cow
  <2>2. Sole(s, i)
    BY <1>1, SoleFact
  <2>3. SameFile(s, s, i)
    BY DEF SameFile
  <2>4. QED
    BY <2>1, <2>2, <2>3, OnlySame
<1>2. CASE ~(n.data_refs = NULL \/ s.count[n.data_refs] <= 1)
  <2> DEFINE b == IF n.capacity > 0 THEN free_blob(s, i) ELSE NULL
             c == free_cell(s, i)
             m == [n EXCEPT !.data = b, !.data_refs = c]
             new == Copied(s.bytes[n.data], n.size, n.capacity)
             by == IF b = NULL THEN s.bytes ELSE [s.bytes EXCEPT ![b] = new]
             ct == [s.count EXCEPT ![n.data_refs] = @ - 1, ![c] = 1]
  <2>1. /\ n \in NodeRecords /\ n.path \in Path /\ NodeOK(n, s.bytes)
        /\ n.data \in Blob \cup {NULL} /\ n.data_refs \in Blob \cup {NULL}
        /\ n.size \in Nat /\ n.capacity \in Nat /\ n.size <= n.capacity
        /\ n.data = NULL => n.capacity = 0 /\ n.size = 0
        /\ n.data # NULL => /\ s.bytes[n.data] \in Seq(Units) /\ Len(s.bytes[n.data]) = n.capacity
                            /\ n.capacity > 0
        /\ \A k \in 1 .. n.size : s.bytes[n.data][k] \in Units
    BY FileFact
  <2>2. /\ free_blob(s, i) \in Blob /\ s.bytes[free_blob(s, i)] = << >>
        /\ \A j \in Ino : s.node[j].data # free_blob(s, i)
        /\ c \in Blob /\ s.count[c] = 0
        /\ \A j \in Ino : s.node[j].data_refs # c
    BY FreeFact
  <2>3. n.data_refs \in Blob /\ c # n.data_refs /\ s.count[n.data_refs] \in Nat /\ s.count[n.data_refs] >= 1
    BY <1>2, <2>1, <2>2 DEF DataOK, DataStates
  <2>4. new \in Seq(Units) /\ Len(new) = n.capacity /\ \A k \in 1 .. n.size : new[k] = s.bytes[n.data][k]
    BY <2>1, CopiedFact
  <2>5. s.node \in [Ino -> NodeRecords] /\ s.bytes \in [Blob -> Seq(Words)] /\ s.count \in [Blob -> Nat]
    BY DEF DataOK, DataStates
  <2>6. /\ b \in Blob \cup {NULL} /\ (b = NULL <=> n.capacity = 0)
        /\ b # NULL => s.bytes[b] = << >> /\ \A j \in Ino : s.node[j].data # b
    BY <2>1, <2>2, InoFact DEF NULL
  <2>7. t = [node |-> [s.node EXCEPT ![i].data = b, ![i].data_refs = c], bytes |-> by, count |-> ct]
    BY <1>2 DEF data_cow
  <2> HIDE DEF b, c, new
  <2>8. m \in NodeRecords /\ m.path = n.path /\ m.mode = REG /\ m.size = n.size /\ m.capacity = n.capacity
        /\ m.data = b /\ m.data_refs = c
    BY <2>1, <2>2, <2>6 DEF NodeRecords
  <2>9. [s.node EXCEPT ![i].data = b, ![i].data_refs = c] = [s.node EXCEPT ![i] = m]
    BY <2>5
  <2> HIDE DEF m
  <2>10. by \in [Blob -> Seq(Words)] /\ (b # NULL => by[b] = new) /\ \A x \in Blob : x # b => by[x] = s.bytes[x]
    BY <2>4, <2>5, <2>6, UnitsAreWords
  <2>11. ct \in [Blob -> Nat] /\ \A x \in Blob :
           ct[x] = IF x = c THEN 1 ELSE IF x = n.data_refs THEN s.count[x] - 1 ELSE s.count[x]
    <3> DEFINE f == s.count
               r == n.data_refs
    <3>1. f \in [Blob -> Nat] /\ r \in Blob /\ c \in Blob /\ c # r /\ f[r] >= 1
      BY <2>2, <2>3, <2>5
    <3>2. ct = [f EXCEPT ![r] = f[r] - 1, ![c] = 1]
      OBVIOUS
    <3> HIDE DEF f, r, ct
    <3>3. ct \in [Blob -> Nat] /\ \A x \in Blob :
            ct[x] = IF x = c THEN 1 ELSE IF x = r THEN f[x] - 1 ELSE f[x]
      BY <3>1, <3>2
    <3>4. QED
      BY <3>3 DEF f, r
  <2> HIDE DEF by, ct
  <2>12. t = WithNode(s, i, m, by, ct)
    BY <2>7, <2>9 DEF WithNode
  <2>13. FitsCount(s, i, m, ct)
    BY <2>2, <2>3, <2>8, <2>11 DEF FitsCount
  <2>14. FitsBlob(s, i, m, by)
    <3>1. NodeOK(m, by)
      BY <2>1, <2>4, <2>6, <2>8, <2>10 DEF NodeOK, REG
    <3>2. ASSUME NEW j \in Ino \ {i}, s.node[j].data # NULL
          PROVE  by[s.node[j].data] = s.bytes[s.node[j].data]
      <4>1. s.node[j].data \in Blob /\ s.node[j].data # b
        BY <2>5, <2>6, <3>2 DEF NodeRecords
      <4>2. QED
        BY <2>10, <4>1
    <3>3. \A j \in Ino \ {i} : m.data # NULL => s.node[j].data # m.data
      BY <2>6, <2>8
    <3>4. \A j \in Ino \ {i} : s.node[j].data_refs # m.data_refs
      BY <2>2, <2>8
    <3>5. ASSUME NEW x \in Blob PROVE by[x] # << >> <=> x = m.data \/ \E j \in Ino \ {i} : s.node[j].data = x
      <4>1. CASE x = b
        <5>1. new # << >>
          BY <2>1, <2>4, <2>6, <4>1, InoFact DEF NULL
        <5>2. QED
          BY <2>8, <2>10, <4>1, <5>1, InoFact DEF NULL
      <4>2. CASE x # b
        <5>1. by[x] # << >> <=> \E j \in Ino : s.node[j].data = x
          BY <2>10, <4>2 DEF DataOK
        <5>2. ASSUME s.node[i].data = x PROVE \E j \in Ino \ {i} : s.node[j].data = x
          <6>1. PICK j \in Ino \ {i} : s.node[j].data_refs = n.data_refs
            BY <1>2, AnotherHolds
          <6>2. s.node[j].data = x
            BY <1>2, <5>2, <6>1 DEF DataOK
          <6>3. QED
            BY <6>2
        <5>3. QED
          BY <2>8, <4>2, <5>1, <5>2
      <4>3. QED
        BY <4>1, <4>2
    <3>6. QED
      BY <3>1, <3>2, <3>3, <3>4, <3>5 DEF FitsBlob
  <2>15. DataOK(t) /\ Only(s, t, i)
    BY <2>8, <2>10, <2>11, <2>12, <2>13, <2>14, OneNode
  <2>16. t.node[i] = m /\ t.bytes = by /\ t.count = ct
    BY <2>5, <2>12 DEF WithNode
  <2>17. SameFile(s, t, i)
    <3>1. ASSUME NEW k \in 1 .. n.size PROVE by[b][k] = s.bytes[n.data][k]
      <4>1. n.capacity # 0
        BY <2>1
      <4>2. by[b] = new
        BY <2>6, <2>10, <4>1
      <4>3. new[k] = s.bytes[n.data][k]
        BY <2>4
      <4>4. QED
        BY <4>2, <4>3
    <3>2. QED
      BY <2>8, <2>16, <3>1 DEF SameFile
  <2>18. Sole(t, i)
    <3>1. t.count[t.node[i].data_refs] <= 1
      BY <2>2, <2>8, <2>11, <2>16
    <3>2. QED
      BY <2>15, <3>1, SoleFact
  <2>19. QED
    BY <2>8, <2>15, <2>16, <2>17, <2>18
<1>3. QED
  BY <1>1, <1>2

\* reserve: the file is the same, and has room.
LEMMA ReserveFact ==
  ASSUME NEW s, DataOK(s), NEW i \in Ino, s.node[i].mode = REG, Sole(s, i), NEW length \in Nat
  PROVE  LET t == reserve(s, i, length)
         IN  /\ DataOK(t) /\ Only(s, t, i) /\ SameFile(s, t, i) /\ Sole(t, i)
             /\ t.node[i].capacity >= length
<1> DEFINE n == s.node[i]
           t == reserve(s, i, length)
<1>0. /\ n \in NodeRecords /\ n.path \in Path /\ NodeOK(n, s.bytes)
      /\ n.data \in Blob \cup {NULL} /\ n.data_refs \in Blob \cup {NULL}
      /\ n.size \in Nat /\ n.capacity \in Nat /\ n.size <= n.capacity
      /\ n.data = NULL => n.capacity = 0 /\ n.size = 0
      /\ n.data # NULL => /\ s.bytes[n.data] \in Seq(Units) /\ Len(s.bytes[n.data]) = n.capacity
                          /\ n.capacity > 0
      /\ \A k \in 1 .. n.size : s.bytes[n.data][k] \in Units
  BY FileFact
<1>1. CASE length <= n.capacity
  <2>1. t = s
    BY <1>1 DEF reserve
  <2>2. SameFile(s, s, i)
    BY DEF SameFile
  <2>3. n.capacity >= length
    BY <1>0, <1>1
  <2>4. QED
    BY <2>1, <2>2, <2>3, OnlySame
<1>2. CASE ~(length <= n.capacity)
  <2> DEFINE cap == grown(n.capacity, length)
             b == free_blob(s, i)
             m == [n EXCEPT !.data = b, !.capacity = cap]
             new == Copied(s.bytes[n.data], n.size, cap)
             by == [x \in Blob |-> IF x = b THEN new
                                   ELSE IF x = n.data /\ frees_old(n) THEN << >>
                                   ELSE s.bytes[x]]
             ct == s.count
  <2>1. cap \in Nat /\ cap >= length /\ cap >= 1 /\ cap >= n.capacity
    BY <1>0, GrownFact
  <2>2. b \in Blob /\ s.bytes[b] = << >> /\ \A j \in Ino : s.node[j].data # b
    BY FreeFact
  <2>3. s.node \in [Ino -> NodeRecords] /\ s.bytes \in [Blob -> Seq(Words)] /\ ct \in [Blob -> Nat]
    BY DEF DataOK, DataStates
  <2>4. new \in Seq(Units) /\ Len(new) = cap /\ \A k \in 1 .. n.size : new[k] = s.bytes[n.data][k]
    <3>1. n.size <= cap
      BY <1>0, <2>1
    <3> DEFINE old == s.bytes[n.data]
    <3>2. \A k \in 1 .. n.size : old[k] \in Units
      BY <1>0
    <3>3. new = Copied(old, n.size, cap) /\ n.size \in Nat /\ cap \in Nat
      BY <1>0, <2>1
    <3> HIDE DEF old, new, cap, n
    <3>4. new \in Seq(Units) /\ Len(new) = cap /\ \A k \in 1 .. n.size : new[k] = old[k]
      BY <3>1, <3>2, <3>3, CopiedFact
    <3>5. QED
      BY <3>4 DEF old
  <2>5. t = [node |-> [s.node EXCEPT ![i].data = b, ![i].capacity = cap], bytes |-> by, count |-> ct]
    BY <1>2 DEF reserve
  <2> HIDE DEF b, cap, new
  <2>6. m \in NodeRecords /\ m.path = n.path /\ m.mode = REG /\ m.size = n.size /\ m.capacity = cap
        /\ m.data = b /\ m.data_refs = n.data_refs
    BY <1>0, <2>1, <2>2 DEF NodeRecords
  <2>7. [s.node EXCEPT ![i].data = b, ![i].capacity = cap] = [s.node EXCEPT ![i] = m]
    BY <2>3
  <2> HIDE DEF m
  <2>8. b # NULL
    BY <2>2, InoFact DEF NULL
  <2>9. /\ by \in [Blob -> Seq(Words)] /\ by[b] = new /\ \A x \in Blob : x # b /\ x # n.data => by[x] = s.bytes[x]
        /\ n.data # NULL => by[n.data] = << >>
    <3>1. new \in Seq(Words) /\ << >> \in Seq(Words)
      BY <2>4, UnitsAreWords
    <3>2. by[b] = new
      BY <2>2
    <3>3. \A x \in Blob : x # b /\ x # n.data => by[x] = s.bytes[x]
      OBVIOUS
    <3>4. n.data # NULL => by[n.data] = << >>
      BY <1>0, <2>2 DEF frees_old
    <3>5. by \in [Blob -> Seq(Words)]
      BY <2>3, <3>1
    <3>6. QED
      BY <3>2, <3>3, <3>4, <3>5
  <2> HIDE DEF by
  <2>10. t = WithNode(s, i, m, by, ct)
    BY <2>5, <2>7 DEF WithNode
  <2>11. FitsCount(s, i, m, ct)
    BY <2>6 DEF FitsCount
  <2>12. FitsBlob(s, i, m, by)
    <3>1. NodeOK(m, by)
      BY <1>0, <2>1, <2>4, <2>6, <2>8, <2>9 DEF NodeOK, REG
    <3>2. ASSUME NEW j \in Ino \ {i}, s.node[j].data # NULL
          PROVE  by[s.node[j].data] = s.bytes[s.node[j].data]
      <4>1. s.node[j].data \in Blob /\ s.node[j].data # b
        BY <2>2, <2>3, <3>2 DEF NodeRecords
      <4>2. s.node[j].data # n.data
        BY <3>2 DEF Sole
      <4>3. QED
        BY <2>9, <4>1, <4>2
    <3>3. \A j \in Ino \ {i} : s.node[j].data # m.data
      BY <2>2, <2>6
    <3>4. \A j \in Ino \ {i} : m.data_refs # NULL => s.node[j].data_refs # m.data_refs
      BY <2>6 DEF Sole
    <3>5. ASSUME NEW x \in Blob PROVE by[x] # << >> <=> x = m.data \/ \E j \in Ino \ {i} : s.node[j].data = x
      <4>1. CASE x = b
        <5>1. new # << >>
          BY <2>1, <2>4
        <5>2. QED
          BY <2>6, <2>9, <4>1, <5>1
      <4>2. CASE x # b /\ x = n.data
        <5>1. x # NULL
          BY InoFact DEF NULL
        <5>2. by[x] = << >>
          BY <2>9, <4>2, <5>1
        <5>3. \A j \in Ino \ {i} : s.node[j].data # x
          BY <4>2, <5>1 DEF Sole
        <5>4. QED
          BY <2>6, <4>2, <5>2, <5>3
      <4>3. CASE x # b /\ x # n.data
        <5>1. by[x] # << >> <=> \E j \in Ino : s.node[j].data = x
          BY <2>9, <4>3 DEF DataOK
        <5>2. QED
          BY <2>6, <4>3, <5>1
      <4>4. QED
        BY <4>1, <4>2, <4>3
    <3>6. QED
      BY <3>1, <3>2, <3>3, <3>4, <3>5 DEF FitsBlob
  <2>13. DataOK(t) /\ Only(s, t, i)
    BY <2>3, <2>6, <2>9, <2>10, <2>11, <2>12, OneNode
  <2>14. t.node[i] = m /\ t.bytes = by /\ t.node = [s.node EXCEPT ![i] = m]
    BY <2>3, <2>10 DEF WithNode
  <2>15. SameFile(s, t, i)
    BY <2>4, <2>6, <2>9, <2>14 DEF SameFile
  <2>16. Sole(t, i)
    <3>1. \A j \in Ino \ {i} : t.node[j] = s.node[j]
      BY <2>13 DEF Only
    <3>2. QED
      BY <2>2, <2>6, <2>14, <3>1 DEF Sole
  <2>17. QED
    BY <2>1, <2>6, <2>13, <2>14, <2>15, <2>16
<1>3. QED
  BY <1>1, <1>2

\* File i has the bytes new and this size.
Filled(s, i, new, size) ==
  WithNode(s, i, [s.node[i] EXCEPT !.size = size],
           [s.bytes EXCEPT ![s.node[i].data] = new], s.count)

\* A blob that i has for itself can be filled.
LEMMA FillFact ==
  ASSUME NEW s, DataOK(s), NEW i \in Ino, s.node[i].mode = REG, Sole(s, i), s.node[i].data # NULL,
         NEW new \in Seq(Units), Len(new) = s.node[i].capacity,
         NEW size \in Nat, size <= s.node[i].capacity,
         NEW t, t = Filled(s, i, new, size)
  PROVE  /\ DataOK(t) /\ Only(s, t, i)
         /\ t.node[i].path = s.node[i].path /\ t.node[i].mode = REG /\ t.node[i].size = size
         /\ t.node[i].data = s.node[i].data /\ t.bytes[t.node[i].data] = new
<1> DEFINE n == s.node[i]
           m == [n EXCEPT !.size = size]
           by == [s.bytes EXCEPT ![n.data] = new]
<1>0. t = WithNode(s, i, m, by, s.count)
  BY DEF Filled
<1>1. /\ n \in NodeRecords /\ n.path \in Path /\ NodeOK(n, s.bytes)
      /\ n.data \in Blob \cup {NULL} /\ n.data_refs \in Blob \cup {NULL}
      /\ n.size \in Nat /\ n.capacity \in Nat /\ n.capacity > 0
  BY FileFact
<1>2. s.node \in [Ino -> NodeRecords] /\ s.bytes \in [Blob -> Seq(Words)] /\ s.count \in [Blob -> Nat]
  BY DEF DataOK, DataStates
<1>3. m \in NodeRecords /\ m.path = n.path /\ m.mode = REG /\ m.size = size /\ m.capacity = n.capacity
      /\ m.data = n.data /\ m.data_refs = n.data_refs
  BY <1>1 DEF NodeRecords
<1>4. n.data \in Blob /\ n.data # NULL
  BY <1>1
<1>5. by \in [Blob -> Seq(Words)] /\ by[n.data] = new /\ \A x \in Blob : x # n.data => by[x] = s.bytes[x]
  BY <1>2, <1>4, UnitsAreWords
<1> HIDE DEF m, by
<1>6. FitsCount(s, i, m, s.count)
  BY <1>3 DEF FitsCount
<1>7. FitsBlob(s, i, m, by)
  <2>1. NodeOK(m, by)
    BY <1>1, <1>3, <1>4, <1>5 DEF NodeOK, REG
  <2>2. ASSUME NEW j \in Ino \ {i}, s.node[j].data # NULL
        PROVE  by[s.node[j].data] = s.bytes[s.node[j].data]
    <3>1. s.node[j].data \in Blob /\ s.node[j].data # n.data
      BY <1>2, <1>4, <2>2 DEF NodeRecords, Sole
    <3>2. QED
      BY <1>5, <3>1
  <2>3. \A j \in Ino \ {i} : s.node[j].data # m.data
    BY <1>3, <1>4 DEF Sole
  <2>4. \A j \in Ino \ {i} : m.data_refs # NULL => s.node[j].data_refs # m.data_refs
    BY <1>3 DEF Sole
  <2>5. ASSUME NEW x \in Blob PROVE by[x] # << >> <=> x = m.data \/ \E j \in Ino \ {i} : s.node[j].data = x
    <3>1. CASE x = n.data
      <4>1. new # << >>
        BY <1>1
      <4>2. QED
        BY <1>3, <1>5, <3>1, <4>1
    <3>2. CASE x # n.data
      <4>1. by[x] # << >> <=> \E j \in Ino : s.node[j].data = x
        BY <1>5, <3>2 DEF DataOK
      <4>2. QED
        BY <1>3, <3>2, <4>1
    <3>3. QED
      BY <3>1, <3>2
  <2>6. QED
    BY <2>1, <2>2, <2>3, <2>4, <2>5 DEF FitsBlob
<1>8. DataOK(t) /\ Only(s, t, i)
  BY <1>0, <1>2, <1>3, <1>5, <1>6, <1>7, OneNode
<1>9. t.node[i] = m /\ t.bytes = by
  BY <1>0, <1>2 DEF WithNode
<1>10. QED
  BY <1>3, <1>5, <1>8, <1>9 DEF m, by

\* States of the data as records.
LEMMA AsRecord ==
  ASSUME NEW s \in DataStates
  PROVE  s = [node |-> s.node, bytes |-> s.bytes, count |-> s.count]
<1>1. \A A, B, C : \A r \in [node : A, bytes : B, count : C] :
        r = [node |-> r.node, bytes |-> r.bytes, count |-> r.count]
  OBVIOUS
<1>2. QED
  BY <1>1 DEF DataStates

\* Two fields of a state of the data that change together.
LEMMA RecordExcept ==
  ASSUME NEW s, s = [node |-> s.node, bytes |-> s.bytes, count |-> s.count], NEW a, NEW b
  PROVE  /\ [s EXCEPT !.node = a, !.bytes = b] = [node |-> a, bytes |-> b, count |-> s.count]
         /\ [s EXCEPT !.bytes = b, !.node = a] = [node |-> a, bytes |-> b, count |-> s.count]
<1> DEFINE r1 == [s EXCEPT !.node = a, !.bytes = b]
           r2 == [s EXCEPT !.bytes = b, !.node = a]
           B == {s.bytes}
           C == {s.count}
<1>1. \A A, D, E : \A r \in [node : A, bytes : D, count : E] :
        r = [node |-> r.node, bytes |-> r.bytes, count |-> r.count]
  OBVIOUS
<1>2. s \in [node : {s.node}, bytes : B, count : C]
  <2> DEFINE x == s.node
             y == s.bytes
             z == s.count
  <2> HIDE DEF x, y, z
  <2>1. [node |-> x, bytes |-> y, count |-> z] \in [node : {x}, bytes : {y}, count : {z}]
    OBVIOUS
  <2>2. QED
    BY <2>1, Zenon DEF x, y, z
<1>3. /\ r1 \in [node : {a}, bytes : {b}, count : C]
      /\ r2 \in [node : {a}, bytes : {b}, count : C]
  BY <1>2
<1>4. /\ r1.node = a /\ r1.bytes = b /\ r1.count = s.count
      /\ r2.node = a /\ r2.bytes = b /\ r2.count = s.count
  BY <1>2
<1> HIDE DEF r1, r2, B, C
<1>5. r1 = [node |-> r1.node, bytes |-> r1.bytes, count |-> r1.count]
  BY <1>1, <1>3, Zenon
<1>6. r2 = [node |-> r2.node, bytes |-> r2.bytes, count |-> r2.count]
  BY <1>1, <1>3, Zenon
<1>7. QED
  BY <1>4, <1>5, <1>6, Zenon DEF r1, r2

\* The nodes change alone.
LEMMA RecordNode ==
  ASSUME NEW s, s = [node |-> s.node, bytes |-> s.bytes, count |-> s.count], NEW a
  PROVE  [s EXCEPT !.node = a] = [node |-> a, bytes |-> s.bytes, count |-> s.count]
<1>1. [s EXCEPT !.node = a] = [s EXCEPT !.node = a, !.bytes = s.bytes]
  OBVIOUS
<1>2. [s EXCEPT !.node = a, !.bytes = s.bytes] = [node |-> a, bytes |-> s.bytes, count |-> s.count]
  BY RecordExcept, Zenon
<1>3. QED
  BY <1>1, <1>2, Zenon

\* An assignment to the size and the bytes, as a change of one node.
LEMMA SizeAndBytes ==
  ASSUME NEW s \in DataStates, NEW i \in Ino, NEW size, NEW by
  PROVE  /\ [s EXCEPT !.node[i].size = size, !.bytes = by]
              = WithNode(s, i, [s.node[i] EXCEPT !.size = size], by, s.count)
         /\ [s EXCEPT !.bytes = by, !.node[i].size = size]
              = WithNode(s, i, [s.node[i] EXCEPT !.size = size], by, s.count)
<1> DEFINE a == [s.node EXCEPT ![i].size = size]
<1>1. a = [s.node EXCEPT ![i] = [s.node[i] EXCEPT !.size = size]]
  OBVIOUS
<1>2. /\ [s EXCEPT !.node[i].size = size, !.bytes = by] = [s EXCEPT !.node = a, !.bytes = by]
      /\ [s EXCEPT !.bytes = by, !.node[i].size = size] = [s EXCEPT !.bytes = by, !.node = a]
  OBVIOUS
<1> HIDE DEF a
<1>3. /\ [s EXCEPT !.node = a, !.bytes = by] = [node |-> a, bytes |-> by, count |-> s.count]
      /\ [s EXCEPT !.bytes = by, !.node = a] = [node |-> a, bytes |-> by, count |-> s.count]
  <2>1. s = [node |-> s.node, bytes |-> s.bytes, count |-> s.count]
    BY AsRecord
  <2>2. QED
    BY <2>1, RecordExcept, Zenon
<1>4. QED
  BY <1>1, <1>2, <1>3 DEF WithNode

\* The file is cut, or lengthened with zeros.
CutTo(s, t, i, length) ==
  /\ t.node[i].path = s.node[i].path /\ t.node[i].mode = s.node[i].mode
  /\ t.node[i].size = length
  /\ \A k \in 1 .. length :
       t.bytes[t.node[i].data][k] = IF k <= s.node[i].size THEN s.bytes[s.node[i].data][k] ELSE 0

\* vfs_truncate of a file.
LEMMA TruncateFact ==
  ASSUME NEW s, DataOK(s), NEW i \in Ino, s.node[i].mode = REG, NEW length \in Nat
  PROVE  LET t == vfs_truncate(s, i, length)
         IN  DataOK(t) /\ Only(s, t, i) /\ CutTo(s, t, i, length)
<1> DEFINE s1 == data_cow(s, i)
           s2 == reserve(s1, i, length)
           n1 == s1.node[i]
           n2 == s2.node[i]
           t == vfs_truncate(s, i, length)
<1>1. DataOK(s1) /\ Only(s, s1, i) /\ SameFile(s, s1, i) /\ Sole(s1, i)
  BY CowFact
<1>2. /\ n1.path = s.node[i].path /\ n1.mode = REG /\ n1.size = s.node[i].size
      /\ \A k \in 1 .. n1.size : s1.bytes[n1.data][k] = s.bytes[s.node[i].data][k]
  BY <1>1 DEF SameFile
<1>3. /\ n1.data \in Blob \cup {NULL} /\ n1.size \in Nat /\ n1.capacity \in Nat /\ n1.size <= n1.capacity
      /\ n1.data = NULL => n1.capacity = 0 /\ n1.size = 0
      /\ n1.data # NULL => s1.bytes[n1.data] \in Seq(Units) /\ Len(s1.bytes[n1.data]) = n1.capacity
      /\ \A k \in 1 .. n1.size : s1.bytes[n1.data][k] \in Units
  BY <1>1, <1>2, FileFact
<1>4. s1 \in DataStates /\ s1.bytes \in [Blob -> Seq(Words)] /\ s1.node \in [Ino -> NodeRecords]
  BY <1>1 DEF DataOK, DataStates
<1>5. CASE length <= n1.size
  <2> DEFINE new == Copied(s1.bytes[n1.data], length, Len(s1.bytes[n1.data]))
             by == [b \in Blob |-> IF b = n1.data THEN Copied(s1.bytes[b], length, Len(s1.bytes[b]))
                                   ELSE s1.bytes[b]]
             u == WithNode(s1, i, [n1 EXCEPT !.size = length], by, s1.count)
  <2>1. t = [s1 EXCEPT !.node[i].size = length, !.bytes = by]
    BY <1>5 DEF vfs_truncate
  <2>2. t = u
    <3> HIDE DEF s1, by, t
    <3>1. [s1 EXCEPT !.node[i].size = length, !.bytes = by] = u
      <4>1. u = WithNode(s1, i, [s1.node[i] EXCEPT !.size = length], by, s1.count)
        OBVIOUS
      <4> HIDE DEF u
      <4>2. QED
        BY <1>4, <4>1, SizeAndBytes, ZenonT(40)
    <3>2. QED
      BY <2>1, <3>1, Zenon
  <2>3. CASE n1.data = NULL
    <3>1. length = 0 /\ n1.size = 0
      BY <1>3, <1>5, <2>3
    <3>2. by = s1.bytes
      BY <1>4, <2>3, InoFact DEF NULL
    <3>3. [n1 EXCEPT !.size = length] = n1
      BY <1>4, <3>1 DEF NodeRecords
    <3>4. u = s1
      <4>1. [s1.node EXCEPT ![i] = n1] = s1.node
        BY <1>4
      <4>2. u = [node |-> s1.node, bytes |-> s1.bytes, count |-> s1.count]
        BY <3>2, <3>3, <4>1, Zenon DEF WithNode
      <4>3. QED
        BY <1>4, <4>2, AsRecord, Zenon
    <3>5. CutTo(s, s1, i, length)
      BY <1>2, <3>1 DEF CutTo
    <3>6. QED
      BY <1>1, <2>2, <3>4, <3>5
  <2>4. CASE n1.data # NULL
    <3>1. by = [s1.bytes EXCEPT ![n1.data] = new]
      BY <1>4
    <3>2. /\ new \in Seq(Units) /\ Len(new) = n1.capacity
          /\ \A k \in 1 .. length : new[k] = s1.bytes[n1.data][k]
      <4>1. length <= n1.capacity /\ \A k \in 1 .. length : s1.bytes[n1.data][k] \in Units
        BY <1>3, <1>5
      <4>2. QED
        <5> DEFINE old == s1.bytes[n1.data]
        <5>1. Len(old) = n1.capacity /\ Len(old) \in Nat /\ length <= Len(old)
          BY <1>3, <2>4, <4>1
        <5>2. \A k \in 1 .. length : old[k] \in Units
          BY <4>1
        <5> HIDE DEF old
        <5>3. QED
          BY <5>1, <5>2, CopiedFact DEF old
    <3> HIDE DEF new, by
    <3>3. length <= n1.capacity
      BY <1>3, <1>5
    <3>4. /\ DataOK(u) /\ Only(s1, u, i)
          /\ u.node[i].path = n1.path /\ u.node[i].mode = REG /\ u.node[i].size = length
          /\ u.node[i].data = n1.data /\ u.bytes[u.node[i].data] = new
      <4>1. u = Filled(s1, i, new, length)
        BY <3>1 DEF Filled
      <4> HIDE DEF u
      <4>2. DataOK(s1) /\ s1.node[i].mode = REG /\ Sole(s1, i) /\ s1.node[i].data # NULL
        BY <1>1, <1>2, <2>4
      <4>3. QED
        BY <3>2, <3>3, <4>1, <4>2, FillFact
    <3> HIDE DEF u, n1
    <3>5. CutTo(s, u, i, length)
      <4>1. ASSUME NEW k \in 1 .. length
            PROVE  u.bytes[u.node[i].data][k] = s.bytes[s.node[i].data][k] /\ k <= s.node[i].size
        <5>1. k \in 1 .. n1.size
          BY <1>3, <1>5
        <5>2. QED
          BY <1>2, <1>3, <3>2, <3>4, <5>1
      <4>2. QED
        BY <1>2, <3>4, <4>1 DEF CutTo
    <3>6. QED
      BY <1>1, <2>2, <3>4, <3>5, OnlyTrans
  <2>5. QED
    BY <2>3, <2>4
<1>6. CASE ~(length <= n1.size)
  <2> DEFINE new == [k \in 1 .. n2.capacity |->
                       IF n2.size < k /\ k <= length THEN 0 ELSE s2.bytes[n2.data][k]]
             u == WithNode(s2, i, [n2 EXCEPT !.size = length], [s2.bytes EXCEPT ![n2.data] = new], s2.count)
  <2>1. /\ DataOK(s2) /\ Only(s1, s2, i) /\ SameFile(s1, s2, i) /\ Sole(s2, i)
        /\ n2.capacity >= length
    BY <1>1, <1>2, ReserveFact
  <2>2. /\ n2.path = n1.path /\ n2.mode = REG /\ n2.size = n1.size
        /\ \A k \in 1 .. n1.size : s2.bytes[n2.data][k] = s1.bytes[n1.data][k]
    BY <1>2, <2>1 DEF SameFile
  <2>3. /\ n2.data \in Blob \cup {NULL} /\ n2.capacity \in Nat
        /\ n2.data = NULL => n2.capacity = 0
        /\ n2.data # NULL => s2.bytes[n2.data] \in Seq(Units) /\ Len(s2.bytes[n2.data]) = n2.capacity
    BY <2>1, <2>2, FileFact
  <2>4. n2.data # NULL
    BY <1>3, <1>6, <2>1, <2>3
  <2>5. s2 \in DataStates
    BY <2>1 DEF DataOK
  <2>6. t = [s2 EXCEPT !.node[i].size = length, !.bytes[n2.data] = new]
    BY <1>6 DEF vfs_truncate
  <2>7. t = u
    <3> HIDE DEF s2, new, t
    <3>1. [s2 EXCEPT !.node[i].size = length, !.bytes[n2.data] = new] = u
      <4> DEFINE b == [s2.bytes EXCEPT ![n2.data] = new]
      <4>1. [s2 EXCEPT !.node[i].size = length, !.bytes[n2.data] = new]
              = [s2 EXCEPT !.node[i].size = length, !.bytes = b]
        OBVIOUS
      <4>2. u = WithNode(s2, i, [s2.node[i] EXCEPT !.size = length], b, s2.count)
        OBVIOUS
      <4> HIDE DEF b, u
      <4>3. [s2 EXCEPT !.node[i].size = length, !.bytes = b] = u
        BY <2>5, <4>2, SizeAndBytes
      <4>4. QED
        BY <4>1, <4>3, Zenon
    <3>2. QED
      BY <2>6, <3>1, Zenon
  <2>8. /\ new \in Seq(Units) /\ Len(new) = n2.capacity
        /\ \A k \in 1 .. n2.capacity : new[k] = IF n1.size < k /\ k <= length THEN 0 ELSE s2.bytes[n2.data][k]
    <3> DEFINE e(k) == IF n2.size < k /\ k <= length THEN 0 ELSE s2.bytes[n2.data][k]
    <3>1. \A k \in 1 .. n2.capacity : e(k) \in Units
      BY <2>3, <2>4 DEF Units
    <3>2. new = [k \in 1 .. n2.capacity |-> e(k)]
      OBVIOUS
    <3>3. \A k : e(k) = IF n1.size < k /\ k <= length THEN 0 ELSE s2.bytes[n2.data][k]
      BY <2>2
    <3> HIDE DEF e, new
    <3>4. new \in Seq(Units) /\ Len(new) = n2.capacity /\ \A k \in 1 .. n2.capacity : new[k] = e(k)
      BY <2>3, <3>1, <3>2
    <3>5. QED
      BY <3>3, <3>4
  <2> HIDE DEF new
  <2>9. length <= n2.capacity
    BY <2>1, <2>3
  <2>10. /\ DataOK(u) /\ Only(s2, u, i)
         /\ u.node[i].path = n2.path /\ u.node[i].mode = REG /\ u.node[i].size = length
         /\ u.node[i].data = n2.data /\ u.bytes[u.node[i].data] = new
    <3>1. /\ DataOK(s2) /\ s2.node[i].mode = REG /\ Sole(s2, i) /\ s2.node[i].data # NULL
          /\ new \in Seq(Units) /\ Len(new) = s2.node[i].capacity /\ length <= s2.node[i].capacity
      BY <2>1, <2>2, <2>4, <2>8, <2>9
    <3>2. u = Filled(s2, i, new, length)
      BY DEF Filled
    <3> HIDE DEF u
    <3>3. QED
      BY <3>1, <3>2, FillFact
  <2> HIDE DEF u, n1, n2
  <2>11. CutTo(s, u, i, length)
    <3>1. ASSUME NEW k \in 1 .. length
          PROVE  new[k] = IF k <= n1.size THEN s.bytes[s.node[i].data][k] ELSE 0
      <4>1. k \in 1 .. n2.capacity
        BY <2>3, <2>9
      <4>2. CASE k <= n1.size
        <5>1. k \in 1 .. n1.size /\ ~(n1.size < k)
          BY <1>3, <4>2
        <5>2. QED
          BY <1>2, <2>2, <2>8, <4>1, <4>2, <5>1
      <4>3. CASE ~(k <= n1.size)
        BY <1>3, <2>8, <4>1, <4>3
      <4>4. QED
        BY <4>2, <4>3
    <3>2. QED
      BY <1>2, <2>2, <2>10, <3>1 DEF CutTo
  <2>12. Only(s, u, i)
    BY <1>1, <2>1, <2>10, OnlyTrans
  <2>13. QED
    BY <2>7, <2>10, <2>11, <2>12
<1>7. QED
  BY <1>5, <1>6

\* The larger of two numbers.
LEMMA MaxFact ==
  ASSUME NEW a \in Nat, NEW b \in Nat
  PROVE  Max({a, b}) = IF b > a THEN b ELSE a
<1> DEFINE m == IF b > a THEN b ELSE a
<1>1. m \in {a, b} /\ \A y \in {a, b} : m >= y
  OBVIOUS
<1>2. \A x \in {a, b} : (\A y \in {a, b} : x >= y) => x = m
  OBVIOUS
<1>3. Max({a, b}) \in {a, b} /\ \A y \in {a, b} : Max({a, b}) >= y
  <2> HIDE DEF m
  <2>1. QED
    BY <1>1 DEF Max
<1>4. QED
  BY <1>2, <1>3

\* One byte of the file is written.
PutAt(s, t, i, offset, b) ==
  /\ t.node[i].path = s.node[i].path /\ t.node[i].mode = s.node[i].mode
  /\ t.node[i].size = IF offset + 1 > s.node[i].size THEN offset + 1 ELSE s.node[i].size
  /\ \A k \in 1 .. t.node[i].size :
       LET x == t.bytes[t.node[i].data][k]
       IN  /\ x \in Units
           /\ k = offset + 1 => x = b
           /\ k # offset + 1 /\ k <= s.node[i].size => x = s.bytes[s.node[i].data][k]

Written(s, i, offset, b) ==
  LET n == s.node[i]
  IN  [s EXCEPT !.bytes[n.data] = [k \in 1 .. n.capacity |-> IF k = offset + 1 THEN b ELSE @[k]],
                !.node[i].size = Max({n.size, offset + 1})]

\* vfs_write: the file is its own, large enough, and has the byte at the offset.
LEMMA WriteFact ==
  ASSUME NEW s, DataOK(s), NEW i \in Ino, s.node[i].mode = REG, NEW offset \in Nat, NEW b \in Byte
  PROVE  LET t == Written(reserve(data_cow(s, i), i, offset + 1), i, offset, b)
         IN  DataOK(t) /\ Only(s, t, i) /\ PutAt(s, t, i, offset, b)
<1> DEFINE s1 == data_cow(s, i)
           length == offset + 1
           s2 == reserve(s1, i, length)
           n1 == s1.node[i]
           n2 == s2.node[i]
           t == Written(s2, i, offset, b)
           new == [k \in 1 .. n2.capacity |-> IF k = length THEN b ELSE s2.bytes[n2.data][k]]
           size == IF length > n2.size THEN length ELSE n2.size
           u == WithNode(s2, i, [n2 EXCEPT !.size = size], [s2.bytes EXCEPT ![n2.data] = new], s2.count)
<1>0. length \in Nat /\ length >= 1
  OBVIOUS
<1>1. DataOK(s1) /\ Only(s, s1, i) /\ SameFile(s, s1, i) /\ Sole(s1, i)
  BY CowFact
<1>2. /\ n1.path = s.node[i].path /\ n1.mode = REG /\ n1.size = s.node[i].size
      /\ \A k \in 1 .. n1.size : s1.bytes[n1.data][k] = s.bytes[s.node[i].data][k]
  BY <1>1 DEF SameFile
<1> HIDE DEF s1
<1>3. DataOK(s2) /\ Only(s1, s2, i) /\ SameFile(s1, s2, i) /\ Sole(s2, i) /\ n2.capacity >= length
  BY <1>0, <1>1, <1>2, ReserveFact
<1>4. /\ n2.path = n1.path /\ n2.mode = REG /\ n2.size = n1.size
      /\ \A k \in 1 .. n1.size : s2.bytes[n2.data][k] = s1.bytes[n1.data][k]
  BY <1>2, <1>3 DEF SameFile
<1>5. /\ n2.data \in Blob \cup {NULL} /\ n2.capacity \in Nat /\ n2.size \in Nat /\ n2.size <= n2.capacity
      /\ n2.data = NULL => n2.capacity = 0
      /\ n2.data # NULL => s2.bytes[n2.data] \in Seq(Units) /\ Len(s2.bytes[n2.data]) = n2.capacity
  BY <1>3, <1>4, FileFact
<1>6. n2.data # NULL
  BY <1>0, <1>3, <1>5
<1>7. s2 \in DataStates
  BY <1>3 DEF DataOK
<1> HIDE DEF s2
<1>8. size \in Nat /\ size <= n2.capacity /\ size = Max({n2.size, length})
  BY <1>0, <1>3, <1>5, MaxFact
<1>9. t = u
  <2> DEFINE by == [s2.bytes EXCEPT ![n2.data] = new]
  <2>1. t = [s2 EXCEPT !.bytes[n2.data] = new, !.node[i].size = Max({n2.size, length})]
    BY DEF Written
  <2>2. t = [s2 EXCEPT !.bytes[n2.data] = new, !.node[i].size = size]
    <3> HIDE DEF new, t, size
    <3>1. QED
      BY <1>8, <2>1
  <2> HIDE DEF new, t, size
  <2>3. t = [s2 EXCEPT !.bytes = by, !.node[i].size = size]
    BY <2>2
  <2>4. u = WithNode(s2, i, [s2.node[i] EXCEPT !.size = size], by, s2.count)
    OBVIOUS
  <2> HIDE DEF by, u
  <2>5. QED
    BY <1>7, <2>3, <2>4, SizeAndBytes
<1>10. /\ new \in Seq(Units) /\ Len(new) = n2.capacity
       /\ \A k \in 1 .. n2.capacity : new[k] = IF k = length THEN b ELSE s2.bytes[n2.data][k]
  <2> DEFINE e(k) == IF k = length THEN b ELSE s2.bytes[n2.data][k]
  <2>1. \A k \in 1 .. n2.capacity : e(k) \in Units
    BY <1>5, <1>6 DEF Units
  <2>2. new = [k \in 1 .. n2.capacity |-> e(k)]
    OBVIOUS
  <2> HIDE DEF e, new
  <2>3. new \in Seq(Units) /\ Len(new) = n2.capacity /\ \A k \in 1 .. n2.capacity : new[k] = e(k)
    BY <1>5, <2>1, <2>2
  <2>4. QED
    BY <2>3 DEF e
<1> HIDE DEF new, size
<1>11. /\ DataOK(u) /\ Only(s2, u, i)
       /\ u.node[i].path = n2.path /\ u.node[i].mode = REG /\ u.node[i].size = size
       /\ u.node[i].data = n2.data /\ u.bytes[u.node[i].data] = new
  <2>1. DataOK(s2) /\ Sole(s2, i) /\ s2.node[i].mode = REG /\ s2.node[i].data # NULL
    BY <1>3, <1>4, <1>6
  <2>2. new \in Seq(Units) /\ Len(new) = s2.node[i].capacity
    BY <1>10
  <2>3. size \in Nat /\ size <= s2.node[i].capacity
    BY <1>8
  <2>4. u = Filled(s2, i, new, size)
    BY DEF Filled
  <2> HIDE DEF u
  <2>5. QED
    BY <2>1, <2>2, <2>3, <2>4, FillFact
<1> HIDE DEF u, n1, n2, t
<1>12. PutAt(s, u, i, offset, b)
  <2>1. ASSUME NEW k \in 1 .. size
        PROVE  /\ new[k] \in Units
               /\ k = length => new[k] = b
               /\ k # length /\ k <= s.node[i].size => new[k] = s.bytes[s.node[i].data][k]
    <3>1. k \in 1 .. n2.capacity
      BY <1>5, <1>8
    <3>2. new[k] \in Units
      BY <1>5, <1>10, <3>1
    <3>3. ASSUME k # length, k <= n1.size PROVE new[k] = s.bytes[s.node[i].data][k]
      <4>1. k \in 1 .. n1.size
        BY <1>4, <1>5, <3>3
      <4>2. QED
        BY <1>2, <1>4, <1>10, <3>1, <3>3, <4>1
    <3>4. QED
      BY <1>2, <1>10, <3>1, <3>2, <3>3
  <2>2. u.node[i].size = IF length > s.node[i].size THEN length ELSE s.node[i].size
    BY <1>2, <1>4, <1>11 DEF size
  <2>3. QED
    BY <1>2, <1>4, <1>11, <2>1, <2>2 DEF PutAt
<1>13. Only(s, u, i)
  BY <1>1, <1>3, <1>11, OnlyTrans
<1>14. QED
  BY <1>9, <1>11, <1>12, <1>13 DEF t, s2, s1

\* A new node holds nothing.
LEMMA NewNodeFact ==
  ASSUME NEW p \in Path, NEW mode \in Modes
  PROVE  LET m == NewNode(p, mode)
         IN  /\ m \in NodeRecords /\ m.path = p /\ m.mode = mode /\ m.data = NULL /\ m.size = 0
             /\ m.capacity = 0 /\ m.data_refs = NULL
BY DEF NewNode, NoNode, NodeRecords

\* Neither does one that is not there.
LEMMA NoNodeFact ==
  /\ NoNode \in NodeRecords /\ NoNode.mode = "NONE" /\ NoNode.data = NULL /\ NoNode.data_refs = NULL
  /\ NoNode.size = 0 /\ NoNode.capacity = 0
BY DEF NoNode, NodeRecords, Modes

\* A node without data comes into the list.
LEMMA AddFact ==
  ASSUME NEW s, DataOK(s), NEW i \in Ino, s.node[i] = NoNode, NEW p \in Path, NEW mode \in {REG, DIR, LNK}
  PROVE  LET t == WithNode(s, i, NewNode(p, mode), s.bytes, s.count)
         IN  DataOK(t) /\ Only(s, t, i)
<1> DEFINE m == NewNode(p, mode)
<1>1. mode \in Modes /\ mode # "NONE"
  BY DEF Modes, REG, DIR, LNK
<1>2. /\ m \in NodeRecords /\ m.path = p /\ m.mode = mode /\ m.data = NULL /\ m.size = 0
      /\ m.capacity = 0 /\ m.data_refs = NULL
  BY <1>1, NewNodeFact
<1> HIDE DEF m
<1>3. FitsCount(s, i, m, s.count)
  BY <1>2, NoNodeFact DEF FitsCount
<1>4. FitsBlob(s, i, m, s.bytes)
  <2>1. NodeOK(m, s.bytes)
    BY <1>1, <1>2 DEF NodeOK
  <2>2. ASSUME NEW b \in Blob
        PROVE  s.bytes[b] # << >> <=> b = m.data \/ \E j \in Ino \ {i} : s.node[j].data = b
    <3>1. b # NULL
      BY InoFact DEF NULL
    <3>2. s.bytes[b] # << >> <=> \E j \in Ino : s.node[j].data = b
      BY DEF DataOK
    <3>3. QED
      BY <1>2, <3>1, <3>2, NoNodeFact
  <2>3. QED
    BY <1>2, <2>1, <2>2 DEF FitsBlob
<1>5. s.bytes \in [Blob -> Seq(Words)] /\ s.count \in [Blob -> Nat]
  BY DEF DataOK, DataStates
<1>6. QED
  BY <1>2, <1>3, <1>4, <1>5, OneNode DEF m

\* So does a link, with its text in a blob.
TextNode(p, b, target) ==
  [NewNode(p, LNK) EXCEPT !.data = b, !.size = Len(target), !.capacity = Len(target) + 1]
\* A symbolic link takes a fresh blob for its target.
LEMMA AddLinkFact ==
  ASSUME NEW s, DataOK(s), NEW i \in Ino, s.node[i] = NoNode, NEW p \in Path, NEW target \in Targets
  PROVE  LET b == free_blob(s, i)
             t == WithNode(s, i, TextNode(p, b, target), [s.bytes EXCEPT ![b] = target], s.count)
         IN  /\ DataOK(t) /\ Only(s, t, i)
             /\ t.node[i].path = p /\ t.node[i].mode = LNK /\ t.node[i].data # NULL
             /\ t.bytes[t.node[i].data] = target
<1> DEFINE b == free_blob(s, i)
           n == NewNode(p, LNK)
           m == [n EXCEPT !.data = b, !.size = Len(target), !.capacity = Len(target) + 1]
           by == [s.bytes EXCEPT ![b] = target]
           t == WithNode(s, i, m, by, s.count)
<1>1. b \in Blob /\ s.bytes[b] = << >> /\ \A j \in Ino : s.node[j].data # b
  BY FreeFact
<1>2. b # NULL
  BY <1>1, InoFact DEF NULL
<1>3. target # << >> /\ target \in Seq(Words) /\ Len(target) \in Nat
  <2>1. target # << >> /\ target \in Seq(Names \cup {SLASH, UP})
    BY VfsAssumption
  <2>2. Names \cup {SLASH, UP} \subseteq Words
    BY DEF Words
  <2>3. QED
    BY <2>1, <2>2
<1>4. /\ n \in NodeRecords /\ n.path = p /\ n.mode = LNK /\ n.data_refs = NULL
  BY NewNodeFact DEF Modes
<1> HIDE DEF b, n
<1>5. /\ m \in NodeRecords /\ m.path = p /\ m.mode = LNK /\ m.data = b /\ m.size = Len(target)
      /\ m.capacity = Len(target) + 1 /\ m.data_refs = NULL
  <2> DEFINE size == Len(target)
  <2>1. size \in Nat /\ size + 1 \in Nat
    BY <1>3
  <2> HIDE DEF size
  <2>2. m = [n EXCEPT !.data = b, !.size = size, !.capacity = size + 1]
    BY DEF size
  <2>3. /\ m \in NodeRecords /\ m.path = n.path /\ m.mode = n.mode /\ m.data = b /\ m.size = size
        /\ m.capacity = size + 1 /\ m.data_refs = n.data_refs
    <3> HIDE DEF m
    <3>1. QED
      BY <1>1, <1>4, <2>1, <2>2 DEF NodeRecords
  <2>4. QED
    BY <1>4, <2>3 DEF size
<1>6. s.node \in [Ino -> NodeRecords] /\ s.bytes \in [Blob -> Seq(Words)] /\ s.count \in [Blob -> Nat]
  BY DEF DataOK, DataStates
<1>7. by \in [Blob -> Seq(Words)] /\ by[b] = target /\ \A x \in Blob : x # b => by[x] = s.bytes[x]
  BY <1>1, <1>3, <1>6
<1> HIDE DEF m, by
<1>8. FitsCount(s, i, m, s.count)
  BY <1>5, NoNodeFact DEF FitsCount
<1>9. FitsBlob(s, i, m, by)
  <2>1. NodeOK(m, by)
    BY <1>2, <1>3, <1>5 DEF NodeOK, LNK, REG
  <2>2. ASSUME NEW j \in Ino \ {i}, s.node[j].data # NULL
        PROVE  by[s.node[j].data] = s.bytes[s.node[j].data]
    <3>1. s.node[j].data \in Blob /\ s.node[j].data # b
      BY <1>1, <1>6, <2>2 DEF NodeRecords
    <3>2. QED
      BY <1>7, <3>1
  <2>3. \A j \in Ino \ {i} : s.node[j].data # m.data
    BY <1>1, <1>5
  <2>4. ASSUME NEW x \in Blob PROVE by[x] # << >> <=> x = m.data \/ \E j \in Ino \ {i} : s.node[j].data = x
    <3>1. CASE x = b
      BY <1>3, <1>5, <1>7, <3>1
    <3>2. CASE x # b
      <4>1. by[x] # << >> <=> \E j \in Ino : s.node[j].data = x
        BY <1>7, <3>2 DEF DataOK
      <4>2. x # NULL
        BY InoFact DEF NULL
      <4>3. QED
        BY <1>5, <3>2, <4>1, <4>2, NoNodeFact
    <3>3. QED
      BY <3>1, <3>2
  <2>5. QED
    BY <1>5, <2>1, <2>2, <2>3, <2>4 DEF FitsBlob
<1>10. DataOK(t) /\ Only(s, t, i)
  BY <1>5, <1>6, <1>7, <1>8, <1>9, OneNode
<1>11. t.node[i] = m /\ t.bytes = by
  BY <1>6 DEF WithNode
<1>12. QED
  BY <1>2, <1>5, <1>7, <1>10, <1>11 DEF m, by, b, n, TextNode

\* What a hard link has from its target, and what stays.
Shared(s, t, i, target) ==
  /\ t.bytes = s.bytes
  /\ t.node[i].path = s.node[i].path /\ t.node[i].mode = s.node[target].mode
  /\ t.node[i].data = s.node[target].data /\ t.node[i].size = s.node[target].size
  /\ \A j \in Ino \ {i} :
       /\ t.node[j].path = s.node[j].path /\ t.node[j].mode = s.node[j].mode
       /\ t.node[j].data = s.node[j].data /\ t.node[j].size = s.node[j].size

\* data_share, where node i has no data yet.
LEMMA ShareFact ==
  ASSUME NEW s, DataOK(s), NEW i \in Ino, NEW target \in Ino, target # i,
         s.node[i].data = NULL, s.node[i].data_refs = NULL, s.node[i].path \in Path,
         s.node[target].mode # "NONE"
  PROVE  LET t == data_share(s, i, target)
         IN  DataOK(t) /\ Shared(s, t, i, target)
<1> DEFINE n == s.node[target]
           c == IF n.data_refs = NULL THEN free_cell(s, target) ELSE n.data_refs
           k == IF n.data_refs = NULL THEN 1 ELSE s.count[c]
           m == [n EXCEPT !.data_refs = c]
           m2 == [n EXCEPT !.path = s.node[i].path, !.data_refs = c]
           ct == [s.count EXCEPT ![c] = k]
           ct2 == [s.count EXCEPT ![c] = k + 1]
           u == WithNode(s, target, m, s.bytes, ct)
           t == data_share(s, i, target)
<1>1. s.node \in [Ino -> NodeRecords] /\ s.bytes \in [Blob -> Seq(Words)] /\ s.count \in [Blob -> Nat]
  BY DEF DataOK, DataStates
<1>2. n \in NodeRecords /\ NodeOK(n, s.bytes) /\ n.data \in Blob \cup {NULL} /\ n.data_refs \in Blob \cup {NULL}
  BY <1>1 DEF DataOK, NodeRecords
<1>3. c \in Blob /\ k \in Nat /\ (n.data_refs # NULL => c = n.data_refs /\ k = s.count[c])
      /\ (n.data_refs = NULL => k = 1 /\ s.count[c] = 0 /\ \A j \in Ino : s.node[j].data_refs # c)
  <2>1. /\ free_cell(s, target) \in Blob /\ s.count[free_cell(s, target)] = 0
        /\ \A j \in Ino : s.node[j].data_refs # free_cell(s, target)
    BY FreeFact
  <2>2. QED
    BY <1>1, <1>2, <2>1
<1>4. t = [node  |-> [s.node EXCEPT ![target].data_refs = c, ![i] = m2], bytes |-> s.bytes, count |-> ct2]
  BY DEF data_share
<1>5. c # NULL
  BY <1>3, InoFact DEF NULL
<1> HIDE DEF c, k
<1>6. /\ m \in NodeRecords /\ m.path = n.path /\ m.mode = n.mode /\ m.data = n.data /\ m.size = n.size
      /\ m.capacity = n.capacity /\ m.data_refs = c
  BY <1>2, <1>3 DEF NodeRecords
<1>7. /\ m2 \in NodeRecords /\ m2.path = s.node[i].path /\ m2.mode = n.mode /\ m2.data = n.data
      /\ m2.size = n.size /\ m2.capacity = n.capacity /\ m2.data_refs = c
  BY <1>2, <1>3 DEF NodeRecords
<1>8. ct \in [Blob -> Nat] /\ ct[c] = k /\ \A x \in Blob : x # c => ct[x] = s.count[x]
  BY <1>1, <1>3
<1>9. ct2 \in [Blob -> Nat] /\ ct2[c] = k + 1 /\ \A x \in Blob : x # c => ct2[x] = s.count[x]
  BY <1>1, <1>3
<1>10. [s.node EXCEPT ![target].data_refs = c, ![i] = m2] = [[s.node EXCEPT ![target] = m] EXCEPT ![i] = m2]
  <2>1. [s.node EXCEPT ![target].data_refs = c] = [s.node EXCEPT ![target] = m]
    BY <1>1
  <2> HIDE DEF m, m2
  <2>2. QED
    BY <2>1
<1> HIDE DEF m, m2, ct, ct2
<1>11. DataOK(u) /\ Only(s, u, target)
  <2>1. FitsCount(s, target, m, ct)
    <3>1. ASSUME NEW x \in Blob
          PROVE  ct[x] = IF n.data_refs = m.data_refs THEN s.count[x]
                         ELSE IF x = n.data_refs THEN s.count[x] - 1
                         ELSE IF x = m.data_refs THEN s.count[x] + 1
                         ELSE s.count[x]
      <4>1. CASE n.data_refs = NULL
        <5>1. x # NULL
          BY InoFact DEF NULL
        <5>2. QED
          BY <1>3, <1>5, <1>6, <1>8, <4>1, <5>1
      <4>2. CASE n.data_refs # NULL
        BY <1>3, <1>6, <1>8, <4>2
      <4>3. QED
        BY <4>1, <4>2
    <3>2. QED
      BY <3>1 DEF FitsCount
  <2>2. FitsBlob(s, target, m, s.bytes)
    <3>1. NodeOK(m, s.bytes)
      BY <1>2, <1>6 DEF NodeOK
    <3>2. ASSUME NEW j \in Ino \ {target}, m.data # NULL, s.node[j].data = m.data
          PROVE  m.data_refs # NULL /\ m.data_refs = s.node[j].data_refs
      <4>1. n.data_refs # NULL /\ n.data_refs = s.node[j].data_refs
        BY <1>6, <3>2 DEF DataOK
      <4>2. QED
        BY <1>3, <1>6, <4>1
    <3>3. ASSUME NEW j \in Ino \ {target}, m.data_refs # NULL, s.node[j].data_refs = m.data_refs
          PROVE  m.data = s.node[j].data
      <4>1. n.data_refs # NULL /\ s.node[j].data_refs = n.data_refs
        BY <1>3, <1>6, <3>3
      <4>2. QED
        BY <1>6, <4>1 DEF DataOK
    <3>4. ASSUME NEW x \in Blob
          PROVE  s.bytes[x] # << >> <=> x = m.data \/ \E j \in Ino \ {target} : s.node[j].data = x
      <4>1. s.bytes[x] # << >> <=> \E j \in Ino : s.node[j].data = x
        BY DEF DataOK
      <4>2. QED
        BY <1>6, <4>1
    <3>5. QED
      BY <3>1, <3>2, <3>3, <3>4 DEF FitsBlob
  <2>3. QED
    BY <1>1, <1>6, <1>8, <2>1, <2>2, OneNode
<1>12. u.node[target] = m /\ u.bytes = s.bytes /\ u.count = ct /\ u.node = [s.node EXCEPT ![target] = m]
       /\ u.node[i] = s.node[i] /\ \A j \in Ino \ {target} : u.node[j] = s.node[j]
  BY <1>1 DEF WithNode
<1>13. t = WithNode(u, i, m2, s.bytes, ct2)
  BY <1>4, <1>10, <1>12, Zenon DEF WithNode
<1> HIDE DEF u, t
<1>14. FitsCount(u, i, m2, ct2)
  <2>1. ASSUME NEW x \in Blob
        PROVE  ct2[x] = IF u.node[i].data_refs = m2.data_refs THEN u.count[x]
                        ELSE IF x = u.node[i].data_refs THEN u.count[x] - 1
                        ELSE IF x = m2.data_refs THEN u.count[x] + 1
                        ELSE u.count[x]
    <3>1. x # NULL
      BY InoFact DEF NULL
    <3>2. QED
      BY <1>5, <1>7, <1>8, <1>9, <1>12, <3>1
  <2>2. QED
    BY <2>1 DEF FitsCount
<1>15. FitsBlob(u, i, m2, s.bytes)
  <2>1. NodeOK(m2, s.bytes)
    BY <1>2, <1>7 DEF NodeOK
  <2>2. ASSUME NEW j \in Ino \ {i}, m2.data # NULL, u.node[j].data = m2.data
        PROVE  m2.data_refs # NULL /\ m2.data_refs = u.node[j].data_refs
    <3>1. CASE j = target
      BY <1>5, <1>6, <1>7, <1>12, <3>1
    <3>2. CASE j # target
      BY <1>6, <1>7, <1>11, <1>12, <2>2, <3>2 DEF DataOK
    <3>3. QED
      BY <3>1, <3>2
  <2>3. ASSUME NEW j \in Ino \ {i}, m2.data_refs # NULL, u.node[j].data_refs = m2.data_refs
        PROVE  m2.data = u.node[j].data
    <3>1. u.node[target].data_refs = u.node[j].data_refs /\ u.node[target].data_refs # NULL
      BY <1>6, <1>7, <1>12, <2>3
    <3>2. u.node[target].data = u.node[j].data
      BY <1>11, <3>1 DEF DataOK
    <3>3. QED
      BY <1>6, <1>7, <1>12, <3>2
  <2>4. ASSUME NEW x \in Blob
        PROVE  s.bytes[x] # << >> <=> x = m2.data \/ \E j \in Ino \ {i} : u.node[j].data = x
    <3>1. u.bytes[x] # << >> <=> \E j \in Ino : u.node[j].data = x
      BY <1>11 DEF DataOK
    <3>2. x # u.node[i].data
      BY <1>12, InoFact DEF NULL
    <3>3. target \in Ino \ {i} /\ u.node[target].data = m2.data
      BY <1>6, <1>7, <1>12
    <3>4. QED
      BY <1>12, <3>1, <3>2, <3>3
  <2>5. QED
    BY <1>12, <2>1, <2>2, <2>3, <2>4 DEF FitsBlob
<1>16. DataOK(t)
  BY <1>1, <1>7, <1>9, <1>11, <1>13, <1>14, <1>15, OneNode
<1>17. Shared(s, t, i, target)
  <2>1. u.node \in [Ino -> NodeRecords]
    BY <1>11 DEF DataOK, DataStates
  <2>2. t.node[i] = m2 /\ t.bytes = s.bytes /\ \A j \in Ino \ {i} : t.node[j] = u.node[j]
    BY <1>13, <2>1 DEF WithNode
  <2>3. ASSUME NEW j \in Ino \ {i}
        PROVE  /\ t.node[j].path = s.node[j].path /\ t.node[j].mode = s.node[j].mode
               /\ t.node[j].data = s.node[j].data /\ t.node[j].size = s.node[j].size
    BY <1>6, <1>12, <2>2
  <2>4. QED
    BY <1>7, <2>2, <2>3 DEF Shared
<1>18. QED
  BY <1>16, <1>17 DEF t

Unlinked(s, i) ==
  LET n == s.node[i]
  IN  [data_release(s, i) EXCEPT
        !.node[i] = NoNode,
        !.bytes = IF n.data_refs = NULL /\ n.data # NULL
                  THEN [@ EXCEPT ![n.data] = << >>] ELSE @]

\* A node goes, with its blob when nobody else has it.
LEMMA UnlinkFact ==
  ASSUME NEW s, DataOK(s), NEW i \in Ino
  PROVE  LET t == Unlinked(s, i)
         IN  DataOK(t) /\ Only(s, t, i) /\ t.node[i] = NoNode
<1> DEFINE n == s.node[i]
           r == n.data_refs
           d == n.data
           alone == r = NULL \/ s.count[r] = 1
           by == IF alone /\ d # NULL THEN [s.bytes EXCEPT ![d] = << >>] ELSE s.bytes
           ct == IF r = NULL THEN s.count ELSE [s.count EXCEPT ![r] = @ - 1]
           t == Unlinked(s, i)
           nd == [s.node EXCEPT ![i] = NoNode]
<1>1. s.node \in [Ino -> NodeRecords] /\ s.bytes \in [Blob -> Seq(Words)] /\ s.count \in [Blob -> Nat]
  BY DEF DataOK, DataStates
<1>2. d \in Blob \cup {NULL} /\ r \in Blob \cup {NULL}
  BY <1>1 DEF NodeRecords
<1>3. t = WithNode(s, i, NoNode, by, ct)
  <2> SUFFICES t = [node |-> nd, bytes |-> by, count |-> ct]
    BY DEF WithNode
  <2>1. CASE r = NULL
    <3>1. data_release(s, i) = s
      BY <2>1 DEF data_release
    <3>2. t = [s EXCEPT !.node[i] = NoNode, !.bytes = IF r = NULL /\ d # NULL
                           THEN [@ EXCEPT ![d] = << >>] ELSE @]
      BY <3>1 DEF Unlinked
    <3>3. t = [s EXCEPT !.node = nd, !.bytes = by]
      BY <2>1, <3>2
    <3>4. s = [node |-> s.node, bytes |-> s.bytes, count |-> s.count]
      BY AsRecord DEF DataOK
    <3>5. ct = s.count
      BY <2>1
    <3> HIDE DEF t, nd, by, ct
    <3>6. [s EXCEPT !.node = nd, !.bytes = by] = [node |-> nd, bytes |-> by, count |-> s.count]
      BY <3>4, RecordExcept, Zenon
    <3>7. QED
      BY <3>3, <3>5, <3>6, Zenon
  <2>2. CASE r # NULL
    <3> DEFINE a == [s.node EXCEPT ![i].data = NULL, ![i].data_refs = NULL]
               u == [node |-> a, bytes |-> by, count |-> ct]
    <3>1. data_release(s, i) = u
      BY <2>2 DEF data_release
    <3>2. t = [u EXCEPT !.node[i] = NoNode, !.bytes = IF r = NULL /\ d # NULL
                           THEN [@ EXCEPT ![d] = << >>] ELSE @]
      <4> HIDE DEF u
      <4>1. QED
        BY <3>1 DEF Unlinked
    <3>3. [a EXCEPT ![i] = NoNode] = nd
      BY <1>1
    <3>4. u = [node |-> u.node, bytes |-> u.bytes, count |-> u.count] /\ u.node = a /\ u.bytes = by /\ u.count = ct
      OBVIOUS
    <3> HIDE DEF u, a, by, ct, t, nd
    <3>5. t = [u EXCEPT !.node = nd, !.bytes = by]
      BY <2>2, <3>2, <3>3, <3>4, ZenonT(40)
    <3>6. [u EXCEPT !.node = nd, !.bytes = by] = [node |-> nd, bytes |-> by, count |-> u.count]
      BY <3>4, RecordExcept, ZenonT(40)
    <3>7. QED
      BY <3>4, <3>5, <3>6, Zenon
  <2>3. QED
    BY <2>1, <2>2
<1>4. r # NULL => r \in Blob /\ s.count[r] \in Nat /\ s.count[r] >= 1
  <2> SUFFICES ASSUME r # NULL PROVE r \in Blob /\ s.count[r] \in Nat /\ s.count[r] >= 1
    OBVIOUS
  <2>1. r \in Blob /\ s.count[r] \in Nat
    BY <1>1, <1>2
  <2>2. ASSUME s.count[r] = 0 PROVE FALSE
    <3>1. s.count[r] = Cardinality(Holding(s.node, r)) /\ i \in Holding(s.node, r)
      BY <2>1 DEF DataOK, Holding
    <3>2. Holding(s.node, r) \in SUBSET Ino
      BY DEF Holding
    <3>3. IsFiniteSet(Holding(s.node, r))
      BY <3>2, InoFact, FS_Subset
    <3>4. QED
      BY <2>2, <3>1, <3>3, FS_EmptySet
  <2>3. QED
    BY <2>1, <2>2
<1>5. ct \in [Blob -> Nat] /\ \A x \in Blob : ct[x] = IF x = r THEN s.count[x] - 1 ELSE s.count[x]
  <2>1. CASE r = NULL
    <3>1. \A x \in Blob : x # r
      BY <2>1, InoFact DEF NULL
    <3>2. QED
      BY <1>1, <2>1, <3>1
  <2>2. CASE r # NULL
    <3> DEFINE f == s.count
    <3>1. f \in [Blob -> Nat] /\ r \in Blob /\ f[r] >= 1 /\ ct = [f EXCEPT ![r] = f[r] - 1]
      BY <1>1, <1>4, <2>2
    <3> HIDE DEF f, r, ct
    <3>2. ct \in [Blob -> Nat] /\ \A x \in Blob : ct[x] = IF x = r THEN f[x] - 1 ELSE f[x]
      BY <3>1
    <3>3. QED
      BY <3>2 DEF f
  <2>3. QED
    BY <2>1, <2>2
<1>6. /\ by \in [Blob -> Seq(Words)] /\ \A x \in Blob : x # d \/ ~alone => by[x] = s.bytes[x]
      /\ alone /\ d # NULL => by[d] = << >>
  <2>1. << >> \in Seq(Words)
    OBVIOUS
  <2>2. QED
    BY <1>1, <1>2, <2>1
<1>7. alone => Sole(s, i)
  BY <1>1, <1>4, SoleFact
<1> HIDE DEF by, ct, t
<1>8. FitsCount(s, i, NoNode, ct)
  <2>1. \A x \in Blob : x # NULL
    BY InoFact DEF NULL
  <2>2. QED
    BY <1>5, <2>1, NoNodeFact DEF FitsCount
<1>9. FitsBlob(s, i, NoNode, by)
  <2>1. NodeOK(NoNode, by)
    BY NoNodeFact DEF NodeOK, REG
  <2>2. ASSUME NEW j \in Ino \ {i}, s.node[j].data # NULL
        PROVE  by[s.node[j].data] = s.bytes[s.node[j].data]
    <3>1. s.node[j].data \in Blob
      BY <1>1, <2>2 DEF NodeRecords
    <3>2. alone => s.node[j].data # d
      BY <1>7, <2>2 DEF Sole
    <3> HIDE DEF alone, d
    <3>3. QED
      BY <1>6, <3>1, <3>2
  <2>3. ASSUME NEW x \in Blob PROVE by[x] # << >> <=> x = NULL \/ \E j \in Ino \ {i} : s.node[j].data = x
    <3>1. x # NULL
      BY InoFact DEF NULL
    <3>2. s.bytes[x] # << >> <=> \E j \in Ino : s.node[j].data = x
      BY DEF DataOK
    <3>3. CASE x # d
      BY <1>6, <3>1, <3>2, <3>3
    <3>4. CASE x = d /\ alone
      <4>1. by[x] = << >>
        BY <1>6, <3>1, <3>4
      <4>2. \A j \in Ino \ {i} : s.node[j].data # x
        BY <1>7, <3>1, <3>4 DEF Sole
      <4>3. QED
        BY <3>1, <4>1, <4>2
    <3>5. CASE x = d /\ ~alone
      <4>1. r # NULL /\ ~(s.count[r] <= 1)
        BY <1>4, <3>5
      <4>2. PICK j \in Ino \ {i} : s.node[j].data_refs = s.node[i].data_refs
        BY <4>1, AnotherHolds
      <4>3. s.node[j].data = x
        BY <3>5, <4>1, <4>2 DEF DataOK
      <4>4. by[x] = s.bytes[x]
        BY <1>6, <3>5
      <4>5. QED
        BY <3>2, <4>3, <4>4
    <3>6. QED
      BY <3>3, <3>4, <3>5
  <2>4. QED
    BY <2>1, <2>2, <2>3, NoNodeFact DEF FitsBlob
<1>10. DataOK(t) /\ Only(s, t, i)
  BY <1>3, <1>5, <1>6, <1>8, <1>9, NoNodeFact, OneNode
<1>11. t.node[i] = NoNode
  BY <1>1, <1>3 DEF WithNode
<1>12. QED
  BY <1>10, <1>11 DEF t

---------------------------------------------------------------------------
(* The calls *)

\* The state of the data, part by part.
LEMMA DataFields ==
  /\ Data.node = node /\ Data.bytes = bytes /\ Data.count = count
  /\ Data'.node = node' /\ Data'.bytes = bytes' /\ Data'.count = count'
BY DEF Data

\* SetData is an assignment of all three variables.
LEMMA SetDataFact ==
  ASSUME NEW t \in DataStates, SetData(t)
  PROVE  Data' = t
BY AsRecord, Zenon DEF SetData, Data

\* The head of the list that has the path.
LEMMA FindFact ==
  ASSUME NEW p
  PROVE  /\ find_node(p) # NULL => find_node(p) \in Nodes /\ node[find_node(p)].path = p
         /\ find_node(p) = NULL <=> \A i \in Nodes : node[i].path # p
<1> DEFINE found == {i \in Nodes : node[i].path = p}
<1>1. found \in SUBSET Nat /\ found \in SUBSET Ino /\ \A i \in Ino : i <= MaxIno /\ i \in Nat
  BY InoFact DEF Nodes, Ino
<1>2. CASE found = {}
  BY <1>2 DEF find_node
<1>3. CASE found # {}
  <2> DEFINE S == {k \in Nat : \E i \in found : k = MaxIno - i}
  <2>1. S \in SUBSET Nat /\ S # {}
    <3>1. PICK i \in found : TRUE
      BY <1>3
    <3>2. MaxIno - i \in Nat
      BY <1>1, InoFact
    <3>3. QED
      BY <3>1, <3>2
  <2>2. PICK k \in S : \A l \in S : k <= l
    <3> HIDE DEF S
    <3>1. QED
      BY <2>1, LeastExists
  <2>3. PICK i \in found : k = MaxIno - i
    BY <2>2
  <2>4. \A j \in found : j <= i
    <3> TAKE j \in found
    <3>1. MaxIno - j \in S /\ i \in Nat /\ j \in Nat
      BY <1>1, InoFact
    <3>2. k <= MaxIno - j
      BY <2>2, <3>1
    <3>3. QED
      BY <2>3, <3>1, <3>2, InoFact
  <2>5. find_node(p) = CHOOSE x \in found : \A j \in found : j <= x
    BY <1>3 DEF find_node
  <2>6. find_node(p) \in found
    <3> HIDE DEF found
    <3>1. QED
      BY <2>4, <2>5
  <2>7. find_node(p) # NULL
    BY <1>1, <2>6, InoFact DEF NULL
  <2>8. QED
    BY <2>6, <2>7
<1>4. QED
  BY <1>2, <1>3

\* What the invariant says of the variables.
LEMMA NodesFact ==
  ASSUME VfsInv
  PROVE  /\ node \in [Ino -> NodeRecords] /\ Nodes \in SUBSET Ino
         /\ \A i \in Ino : i \notin Nodes => node[i] = NoNode
         /\ \A i \in Nodes : node[i].mode \in {REG, DIR, LNK} /\ node[i].path \in Path /\ node[i].path # Root
         /\ \A i \in Ino : node[i].mode = "NONE" <=> i \notin Nodes
<1>1. Data.node \in [Ino -> NodeRecords] /\ \A i \in Ino : NodeOK(Data.node[i], Data.bytes)
  BY DEF VfsInv, DataOK, DataStates
<1>2. node \in [Ino -> NodeRecords] /\ \A i \in Ino : NodeOK(node[i], bytes)
  BY <1>1, DataFields
<1>3. \A i \in Ino : node[i].mode \in Modes
  BY <1>2 DEF NodeRecords
<1>4. \A i \in Ino : /\ node[i].mode = "NONE" => node[i] = NoNode
                     /\ node[i].mode # "NONE" => node[i].path \in Path
  BY <1>2 DEF NodeOK
<1>5. << >> \notin Path
  BY VfsAssumption
<1>6. QED
  BY <1>2, <1>3, <1>4, <1>5 DEF Nodes, Modes, Root

\* Where a new node goes.
LEMMA InsertFact ==
  ASSUME VfsInv, NEW p, Insert(p)
  PROVE  /\ next_ino \in Ino /\ next_ino \notin Nodes /\ node[next_ino] = NoNode
         /\ \A i \in Nodes : node[i].path # p
         /\ next_ino' = next_ino + 1 /\ next_ino' \in 2 .. MaxIno + 1 /\ tidy' \in BOOLEAN
<1>1. next_ino \in Ino /\ next_ino' = next_ino + 1 /\ next_ino' \in 2 .. MaxIno + 1
  BY InoFact DEF VfsInv, NumbersOK, Insert, Ino
<1>2. ~(next_ino < next_ino)
  BY <1>1, InoFact
<1>3. next_ino \notin Nodes
  BY <1>2 DEF VfsInv, NumbersOK, Nodes
<1>4. node[next_ino] = NoNode
  BY <1>1, <1>3, NodesFact
<1>5. tidy' \in BOOLEAN
  BY DEF Insert
<1>6. QED
  BY <1>1, <1>3, <1>4, <1>5, FindFact DEF Insert

\* A call that inserts a node uses up one inode number.
LEMMA InsertNumbers ==
  ASSUME VfsInv, NEW p, Insert(p),
         \A j \in Ino \ {next_ino} : node'[j].mode # "NONE" => node[j].mode # "NONE"
  PROVE  NumbersOK'
<1>1. /\ next_ino \in Ino /\ next_ino' = next_ino + 1 /\ next_ino' \in 2 .. MaxIno + 1 /\ tidy' \in BOOLEAN
  BY InsertFact
<1>2. ASSUME NEW i \in Ino, node'[i].mode # "NONE" PROVE i < next_ino'
  <2>1. CASE i = next_ino
    BY <1>1, <2>1, InoFact
  <2>2. CASE i # next_ino
    <3>1. i < next_ino
      BY <1>2, <2>2 DEF VfsInv, NumbersOK
    <3>2. QED
      BY <1>1, <3>1, InoFact
  <2>3. QED
    BY <2>1, <2>2
<1>3. QED
  BY <1>1, <1>2 DEF NumbersOK

\* open with O_CREAT and mkdir.
LEMMA MakeFact ==
  ASSUME VfsInv, NEW p \in Path, NEW mode \in {REG, DIR}, Insert(p),
         node' = [node EXCEPT ![next_ino] = NewNode(p, mode)], UNCHANGED <<bytes, count>>
  PROVE  /\ VfsInv' /\ next_ino \in Ino /\ next_ino \notin Nodes /\ Only(Data, Data', next_ino)
         /\ node'[next_ino] = NewNode(p, mode)
<1>1. next_ino \in Ino /\ next_ino \notin Nodes /\ node[next_ino] = NoNode
  BY InsertFact
<1>2. DataOK(Data)
  BY DEF VfsInv
<1> DEFINE t == WithNode(Data, next_ino, NewNode(p, mode), Data.bytes, Data.count)
<1>3. DataOK(t) /\ Only(Data, t, next_ino)
  BY <1>1, <1>2, AddFact, DataFields
<1>4. Data' = t
  BY DEF Data, WithNode
<1>5. node'[next_ino] = NewNode(p, mode)
  BY <1>1, NodesFact
<1>6. \A j \in Ino \ {next_ino} : node'[j] = node[j]
  BY NodesFact
<1>7. NumbersOK'
  BY <1>6, InsertNumbers
<1>8. DataOK(Data)'
  BY <1>3, <1>4
<1>9. QED
  BY <1>1, <1>3, <1>4, <1>5, <1>7, <1>8 DEF VfsInv

\* Symlink keeps the invariant; one node is new, and its text is the target.
LEMMA SymlinkFact ==
  ASSUME VfsInv, NEW p \in Path, NEW target \in Targets, Symlink(target, p)
  PROVE  /\ VfsInv' /\ next_ino \in Ino /\ next_ino \notin Nodes /\ Only(Data, Data', next_ino)
         /\ node'[next_ino].path = p /\ node'[next_ino].mode = LNK /\ node'[next_ino].data # NULL
         /\ bytes'[node'[next_ino].data] = target
<1>1. Insert(p)
  BY DEF Symlink
<1>2. next_ino \in Ino /\ next_ino \notin Nodes /\ node[next_ino] = NoNode
  BY <1>1, InsertFact
<1>3. DataOK(Data) /\ Data.node[next_ino] = NoNode
  BY <1>2, DataFields DEF VfsInv
<1> DEFINE b == free_blob(Data, next_ino)
           m == TextNode(p, b, target)
           t == WithNode(Data, next_ino, m, [Data.bytes EXCEPT ![b] = target], Data.count)
<1>4. /\ DataOK(t) /\ Only(Data, t, next_ino)
      /\ t.node[next_ino].path = p /\ t.node[next_ino].mode = LNK /\ t.node[next_ino].data # NULL
      /\ t.bytes[t.node[next_ino].data] = target
  BY <1>2, <1>3, AddLinkFact
<1>5. node' = [node EXCEPT ![next_ino] = m] /\ bytes' = [bytes EXCEPT ![b] = target] /\ count' = count
  BY DEF Symlink, TextNode
<1> HIDE DEF m, b
<1>6. Data' = t
  BY <1>5 DEF Data, WithNode
<1>7. \A j \in Ino \ {next_ino} : node'[j] = node[j]
  BY <1>5, NodesFact
<1>8. NumbersOK'
  BY <1>1, <1>7, InsertNumbers
<1> HIDE DEF t
<1>9. DataOK(Data)'
  BY <1>4, <1>6
<1>10. QED
  BY <1>2, <1>4, <1>6, <1>8, <1>9, DataFields DEF VfsInv

\* A call that inserts no node leaves the numbers as they are.
LEMMA KeepNumbers ==
  ASSUME VfsInv, next_ino' = next_ino, tidy' \in BOOLEAN,
         \A j \in Ino : node'[j].mode # "NONE" => node[j].mode # "NONE"
  PROVE  NumbersOK'
BY DEF VfsInv, NumbersOK

LinkEffect(i, p, t) ==
  /\ bytes' = bytes
  /\ node'[i].path = p /\ node'[i].mode = node[t].mode
  /\ node'[i].data = node[t].data /\ node'[i].size = node[t].size
  /\ \A j \in Ino \ {i} :
       /\ node'[j].path = node[j].path /\ node'[j].mode = node[j].mode
       /\ node'[j].data = node[j].data /\ node'[j].size = node[j].size

\* Link keeps the invariant, and does what LinkEffect says.
LEMMA LinkFact ==
  ASSUME VfsInv, NEW p \in Path, NEW q \in Path, Link(p, q)
  PROVE  /\ VfsInv' /\ next_ino \in Ino /\ next_ino \notin Nodes
         /\ find_node(q) \in Nodes /\ node[find_node(q)].mode # DIR
         /\ LinkEffect(next_ino, p, find_node(q))
<1> DEFINE i == next_ino
           x == find_node(q)
           m == NewNode(p, REG)
           s == WithNode(Data, i, m, Data.bytes, Data.count)
           t == data_share(s, i, x)
<1>1. Insert(p) /\ x # NULL /\ node[x].mode # DIR
  BY DEF Link
<1>2. i \in Ino /\ i \notin Nodes /\ node[i] = NoNode
  BY <1>1, InsertFact
<1>3. DataOK(Data) /\ Data.node[i] = NoNode
  BY <1>2, DataFields DEF VfsInv
<1>4. x \in Nodes /\ x \in Ino /\ x # i /\ node[x].mode # "NONE"
  BY <1>1, <1>2, FindFact, NodesFact
<1>5. DataOK(s) /\ Only(Data, s, i)
  BY <1>2, <1>3, AddFact
<1>6. /\ s.node[i] = m /\ s.bytes = bytes /\ \A j \in Ino \ {i} : s.node[j] = node[j]
  BY <1>2, NodesFact, DataFields DEF WithNode
<1>7. m.path = p /\ m.data = NULL /\ m.data_refs = NULL
  BY NewNodeFact DEF Modes
<1>8. SetData(t)
  <2>1. [Data EXCEPT !.node[i] = m] = s
    <3> DEFINE a == [node EXCEPT ![i] = m]
    <3>1. [Data EXCEPT !.node[i] = m] = [Data EXCEPT !.node = a]
      BY DataFields
    <3>2. s = [node |-> a, bytes |-> Data.bytes, count |-> Data.count]
      BY DataFields, Zenon DEF WithNode
    <3>3. Data = [node |-> Data.node, bytes |-> Data.bytes, count |-> Data.count]
      BY <1>3, AsRecord DEF DataOK
    <3> HIDE DEF a, m, i, s
    <3>4. [Data EXCEPT !.node = a] = [node |-> a, bytes |-> Data.bytes, count |-> Data.count]
      BY <3>3, RecordNode, Zenon
    <3>5. QED
      BY <3>1, <3>2, <3>4, Zenon
  <2>2. SetData(data_share([Data EXCEPT !.node[i] = m], i, x))
    BY DEF Link
  <2> HIDE DEF s
  <2>3. QED
    BY <2>1, <2>2, Zenon
<1> HIDE DEF s, m, x
<1>9. DataOK(t) /\ Shared(s, t, i, x)
  BY <1>2, <1>4, <1>5, <1>6, <1>7, ShareFact
<1> HIDE DEF t
<1>10. Data' = t
  BY <1>8, <1>9, SetDataFact DEF DataOK
<1>11. LinkEffect(i, p, x)
  BY <1>4, <1>6, <1>7, <1>9, <1>10, DataFields DEF Shared, LinkEffect
<1>12. NumbersOK'
  BY <1>1, <1>11, InsertNumbers DEF LinkEffect
<1>13. DataOK(Data)'
  BY <1>9, <1>10
<1>14. QED
  BY <1>1, <1>2, <1>4, <1>11, <1>12, <1>13 DEF VfsInv, x

\* Truncations: of a file, and of something that is none.
LEMMA CutFact ==
  ASSUME VfsInv, NEW i \in Nodes, NEW length \in Nat,
         SetData(vfs_truncate(Data, i, length)), UNCHANGED <<next_ino, tidy>>
  PROVE  /\ VfsInv'
         /\ node[i].mode = REG => Only(Data, Data', i) /\ CutTo(Data, Data', i, length)
         /\ node[i].mode # REG => UNCHANGED <<node, bytes, count>>
<1> DEFINE t == vfs_truncate(Data, i, length)
<1>1. i \in Ino /\ DataOK(Data) /\ Data.node[i] = node[i]
  BY NodesFact, DataFields DEF VfsInv
<1>2. CASE node[i].mode = REG
  <2>1. DataOK(t) /\ Only(Data, t, i) /\ CutTo(Data, t, i, length)
    BY <1>1, <1>2, TruncateFact
  <2> HIDE DEF t
  <2>2. Data' = t
    BY <2>1, SetDataFact DEF DataOK, t
  <2>3. \A j \in Ino \ {i} : node'[j] = node[j]
    BY <2>1, <2>2, DataFields DEF Only
  <2>4. node'[i].mode = node[i].mode
    BY <2>1, <2>2, DataFields DEF CutTo
  <2>5. NumbersOK'
    BY <2>3, <2>4, KeepNumbers DEF VfsInv, NumbersOK
  <2>6. DataOK(Data)'
    BY <2>1, <2>2
  <2>7. QED
    BY <1>2, <2>1, <2>2, <2>5, <2>6 DEF VfsInv
<1>3. CASE node[i].mode # REG
  <2>1. t = Data
    BY <1>1, <1>3 DEF vfs_truncate
  <2> HIDE DEF t
  <2>2. UNCHANGED <<node, bytes, count>>
    BY <2>1, DataFields DEF SetData, t
  <2>3. Data' = Data
    BY <2>2 DEF Data
  <2>4. DataOK(Data)'
    BY <1>1, <2>3
  <2>5. NumbersOK'
    BY <2>2 DEF VfsInv, NumbersOK
  <2>6. QED
    BY <1>3, <2>2, <2>4, <2>5 DEF VfsInv
<1>4. QED
  BY <1>2, <1>3

\* Write keeps the invariant and puts one byte.
LEMMA PutFact ==
  ASSUME VfsInv, NEW i \in Nodes, NEW offset \in Nat, NEW b \in Byte, Write(i, offset, b)
  PROVE  /\ VfsInv' /\ node[i].mode = REG
         /\ Only(Data, Data', i) /\ PutAt(Data, Data', i, offset, b)
<1> DEFINE s == reserve(data_cow(Data, i), i, offset + 1)
           t == Written(s, i, offset, b)
<1>1. i \in Ino /\ DataOK(Data) /\ Data.node[i] = node[i]
  BY NodesFact, DataFields DEF VfsInv
<1>2. node[i].mode = REG
  BY DEF Write
<1>3. SetData(t)
  BY DEF Write, Written
<1>4. DataOK(t) /\ Only(Data, t, i) /\ PutAt(Data, t, i, offset, b)
  BY <1>1, <1>2, WriteFact
<1> HIDE DEF t
<1>5. Data' = t
  BY <1>3, <1>4, SetDataFact DEF DataOK
<1>6. \A j \in Ino \ {i} : node'[j] = node[j]
  BY <1>4, <1>5, DataFields DEF Only
<1>7. node'[i].mode = node[i].mode
  BY <1>4, <1>5, DataFields DEF PutAt
<1>8. NumbersOK'
  BY <1>6, <1>7, KeepNumbers DEF VfsInv, NumbersOK, Write
<1>9. DataOK(Data)'
  BY <1>4, <1>5
<1>10. QED
  BY <1>2, <1>4, <1>5, <1>8, <1>9 DEF VfsInv

\* Unlink keeps the invariant and takes one node away.
LEMMA RemoveFact ==
  ASSUME VfsInv, NEW p, vfs_unlink(p), tidy' = tidy
  PROVE  /\ VfsInv' /\ find_node(p) \in Nodes /\ node[find_node(p)].path = p
         /\ Only(Data, Data', find_node(p)) /\ node'[find_node(p)] = NoNode
<1> DEFINE i == find_node(p)
           t == Unlinked(Data, i)
<1>1. i # NULL /\ next_ino' = next_ino
  BY DEF vfs_unlink
<1>2. i \in Nodes /\ node[i].path = p
  BY <1>1, FindFact
<1>3. i \in Ino /\ DataOK(Data) /\ Data.node[i] = node[i]
  BY <1>2, NodesFact, DataFields DEF VfsInv
<1>4. SetData(t)
  BY DataFields DEF vfs_unlink, Unlinked
<1> HIDE DEF i
<1>5. DataOK(t) /\ Only(Data, t, i) /\ t.node[i] = NoNode
  BY <1>3, UnlinkFact
<1> HIDE DEF t
<1>6. Data' = t
  BY <1>4, <1>5, SetDataFact DEF DataOK
<1>7. \A j \in Ino \ {i} : node'[j] = node[j]
  BY <1>5, <1>6, DataFields DEF Only
<1>8. node'[i] = NoNode
  BY <1>5, <1>6, DataFields
<1>9. NumbersOK'
  BY <1>1, <1>7, <1>8, KeepNumbers, NoNodeFact DEF VfsInv, NumbersOK
<1>10. DataOK(Data)'
  BY <1>5, <1>6
<1>11. QED
  BY <1>2, <1>5, <1>6, <1>8, <1>9, <1>10 DEF VfsInv, i

\* Where a rename takes the node that is called, and the others.
new_path(i, j, old, new) ==
  IF j = i THEN new
  ELSE IF j \in Nodes /\ node[i].mode = DIR THEN moved(node[j].path, old, new) ELSE node[j].path

\* Rename keeps the invariant and changes paths only.
LEMMA MoveFact ==
  ASSUME VfsInv, NEW old, NEW new \in Path, Rename(old, new)
  PROVE  /\ VfsInv' /\ find_node(old) \in Nodes /\ node[find_node(old)].path = old
         /\ \A j \in Nodes : node[j].path # new
         /\ bytes' = bytes
         /\ \A j \in Ino : /\ node'[j].path = new_path(find_node(old), j, old, new)
                           /\ node'[j].mode = node[j].mode /\ node'[j].data = node[j].data
                           /\ node'[j].size = node[j].size
         /\ \A j \in Nodes : node'[j].path \in Path
<1> DEFINE i == find_node(old)
           f(j) == new_path(i, j, old, new)
<1>1. /\ i # NULL /\ find_node(new) = NULL
      /\ \A j \in Nodes : node'[j].path \in Path
      /\ tidy' = (tidy /\ is_dir(path_parent_dir(new)) /\ ~Below(new, old))
      /\ bytes' = bytes /\ count' = count /\ next_ino' = next_ino
  BY DEF Rename
<1>2. i \in Nodes /\ node[i].path = old /\ \A j \in Nodes : node[j].path # new
  BY <1>1, FindFact
<1>3. node' = [j \in Ino |-> [node[j] EXCEPT !.path = f(j)]]
  BY DEF Rename, new_path
<1> HIDE DEF f, i
<1>4. node \in [Ino -> NodeRecords] /\ \A j \in Ino : j \notin Nodes => node[j] = NoNode
  BY NodesFact
<1>5. ASSUME NEW j \in Ino
      PROVE  /\ node'[j].path = f(j) /\ node'[j].mode = node[j].mode /\ node'[j].data = node[j].data
             /\ node'[j].size = node[j].size /\ node'[j].capacity = node[j].capacity
             /\ node'[j].data_refs = node[j].data_refs
  <2>1. node[j] \in NodeRecords /\ node'[j] = [node[j] EXCEPT !.path = f(j)]
    BY <1>3, <1>4
  <2>2. QED
    BY <2>1 DEF NodeRecords
<1>6. ASSUME NEW j \in Ino, j \notin Nodes PROVE node'[j] = NoNode
  <2>1. node[j] = NoNode /\ f(j) = node[j].path
    BY <1>2, <1>4, <1>6 DEF f, new_path
  <2>2. node'[j] = [NoNode EXCEPT !.path = NoNode.path]
    BY <1>3, <2>1
  <2>3. QED
    BY <2>2 DEF NoNode
<1>7. node' \in [Ino -> NodeRecords]
  <2>1. ASSUME NEW j \in Ino PROVE [node[j] EXCEPT !.path = f(j)] \in NodeRecords
    <3>1. node[j] \in NodeRecords /\ node'[j] = [node[j] EXCEPT !.path = f(j)]
      BY <1>3, <1>4
    <3>2. f(j) \in Path \cup {Root}
      <4>1. CASE j \in Nodes
        BY <1>1, <1>5, <4>1
      <4>2. CASE j \notin Nodes
        BY <1>5, <1>6, <4>2, NoNodeFact DEF NodeRecords
      <4>3. QED
        BY <4>1, <4>2
    <3>3. QED
      BY <3>1, <3>2 DEF NodeRecords
  <2>2. QED
    BY <1>3, <2>1
<1>8. NumbersOK'
  <2>1. tidy' \in BOOLEAN
    BY <1>1
  <2>2. QED
    BY <1>1, <1>5, <2>1, KeepNumbers
<1>9. DataOK(Data)'
  <2>1. Data \in DataStates /\ Data' \in DataStates
    <3>1. Data \in DataStates
      BY DEF VfsInv, DataOK
    <3>2. bytes \in [Blob -> Seq(Words)] /\ count \in [Blob -> Nat]
      BY <3>1 DEF DataStates, Data
    <3>3. QED
      BY <1>1, <1>7, <3>1, <3>2 DEF DataStates, Data
  <2>2. ASSUME NEW j \in Ino PROVE NodeOK(node'[j], bytes')
    <3>1. NodeOK(node[j], bytes)
      BY DataFields DEF VfsInv, DataOK
    <3>2. node[j].mode = "NONE" <=> j \notin Nodes
      BY NodesFact
    <3>3. node'[j].mode = "NONE" => node'[j] = NoNode
      BY <1>5, <1>6, <3>2
    <3>4. node'[j].mode # "NONE" => node'[j].path \in Path
      BY <1>1, <1>5, <3>2
    <3>5. QED
      BY <1>1, <1>5, <3>1, <3>3, <3>4 DEF NodeOK
  <2>3. ASSUME NEW c \in Blob PROVE count'[c] = Cardinality(Holding(node', c))
    <3>1. count[c] = Cardinality(Holding(node, c))
      BY DataFields DEF VfsInv, DataOK
    <3>2. Holding(node', c) = Holding(node, c)
      BY <1>5 DEF Holding
    <3>3. QED
      BY <1>1, <3>1, <3>2
  <2>4. ASSUME NEW b \in Blob PROVE bytes'[b] # << >> <=> \E j \in Ino : node'[j].data = b
    <3>1. bytes[b] # << >> <=> \E j \in Ino : node[j].data = b
      BY DataFields DEF VfsInv, DataOK
    <3>2. QED
      BY <1>1, <1>5, <3>1
  <2>5. ASSUME NEW j \in Ino, NEW k \in Ino
        PROVE  /\ node'[j].data_refs # NULL /\ node'[j].data_refs = node'[k].data_refs =>
                    node'[j].data = node'[k].data
               /\ j # k /\ node'[j].data # NULL /\ node'[j].data = node'[k].data =>
                    node'[j].data_refs # NULL /\ node'[j].data_refs = node'[k].data_refs
    <3>1. /\ node[j].data_refs # NULL /\ node[j].data_refs = node[k].data_refs =>
               node[j].data = node[k].data
          /\ j # k /\ node[j].data # NULL /\ node[j].data = node[k].data =>
               node[j].data_refs # NULL /\ node[j].data_refs = node[k].data_refs
      BY DataFields DEF VfsInv, DataOK
    <3>2. QED
      BY <1>5, <3>1
  <2>6. DataOK(Data')
    BY <2>1, <2>2, <2>3, <2>4, <2>5, DataFields DEF DataOK
  <2>7. QED
    BY <2>6
<1>10. QED
  BY <1>1, <1>2, <1>5, <1>8, <1>9 DEF VfsInv, f, i

\* An open that succeeds finds a node.
LEMMA OpenNodeFact ==
  ASSUME NEW p, NEW creat, open_node(p, creat) # NULL
  PROVE  open_node(p, creat) \in Nodes
<1>1. PICK q : open_node(p, creat) = find_node(q)
  BY Zenon DEF open_node
<1>2. QED
  BY <1>1, FindFact

\* The empty file system satisfies the invariant.
LEMMA InitInv == Init => VfsInv
<1> SUFFICES ASSUME Init PROVE VfsInv
  OBVIOUS
<1>1. /\ node \in [Ino -> NodeRecords] /\ \A i \in Ino : node[i] = NoNode
  BY NoNodeFact DEF Init
<1>2. bytes \in [Blob -> Seq(Words)] /\ count \in [Blob -> Nat]
      /\ \A b \in Blob : bytes[b] = << >> /\ count[b] = 0
  BY DEF Init
<1>3. Data \in DataStates
  BY <1>1, <1>2 DEF Data, DataStates
<1>4. \A i \in Ino : NodeOK(node[i], bytes)
  BY <1>1, NoNodeFact DEF NodeOK, REG
<1>5. ASSUME NEW c \in Blob PROVE count[c] = Cardinality(Holding(node, c))
  <2>1. c # NULL
    BY InoFact DEF NULL
  <2>2. Holding(node, c) = {}
    BY <1>1, <2>1, NoNodeFact DEF Holding
  <2>3. Cardinality({}) = 0
    BY FS_EmptySet
  <2>4. QED
    BY <1>2, <2>2, <2>3
<1>6. \A b \in Blob : b # NULL
  BY InoFact DEF NULL
<1>7. DataOK(Data)
  BY <1>1, <1>2, <1>3, <1>4, <1>5, <1>6, NoNodeFact, DataFields DEF DataOK
<1>8. NumbersOK
  BY <1>1, NoNodeFact, InoFact DEF NumbersOK, Init
<1>9. QED
  BY <1>7, <1>8 DEF VfsInv

\* Every call keeps it.
LEMMA StepInv == ASSUME VfsInv, [Next]_vars PROVE VfsInv'
<1>1. CASE UNCHANGED vars
  <2>1. Data' = Data /\ node' = node /\ next_ino' = next_ino /\ tidy' = tidy
    BY <1>1 DEF vars, Data
  <2>2. DataOK(Data)'
    BY <2>1 DEF VfsInv
  <2>3. NumbersOK'
    BY <2>1 DEF VfsInv, NumbersOK
  <2>4. QED
    BY <2>2, <2>3 DEF VfsInv
<1>2. ASSUME NEW p \in Path, Create(p) PROVE VfsInv'
  BY <1>2, MakeFact DEF Create
<1>3. ASSUME NEW p \in Path, Mkdir(p) PROVE VfsInv'
  BY <1>3, MakeFact DEF Mkdir
<1>4. ASSUME NEW p \in Path, NEW t \in Targets, Symlink(t, p) PROVE VfsInv'
  BY <1>4, SymlinkFact
<1>5. ASSUME NEW p \in Path, NEW q \in Path, Link(p, q) PROVE VfsInv'
  BY <1>5, LinkFact
<1>6. ASSUME NEW p \in Path, NEW q \in Path, Rename(p, q) PROVE VfsInv'
  BY <1>6, MoveFact
<1>7. ASSUME NEW p \in Path, NEW creat \in BOOLEAN, OpenTrunc(p, creat) PROVE VfsInv'
  BY <1>7, OpenNodeFact, CutFact DEF OpenTrunc
<1>8. ASSUME NEW p \in Path, NEW length \in Lengths, TruncatePath(p, length) PROVE VfsInv'
  <2>1. length \in Nat
    BY VfsAssumption
  <2>2. QED
    BY <1>8, <2>1, FindFact, CutFact DEF TruncatePath
<1>9. ASSUME NEW p \in Path, Unlink(p) \/ Rmdir(p) PROVE VfsInv'
  BY <1>9, RemoveFact DEF Unlink, Rmdir
<1>10. ASSUME NEW i \in Nodes, NEW offset \in Offsets, NEW b \in Byte, Write(i, offset, b) PROVE VfsInv'
  <2>1. offset \in Nat
    BY VfsAssumption
  <2>2. QED
    BY <1>10, <2>1, PutFact
<1>11. ASSUME NEW i \in Nodes, NEW length \in Lengths, Ftruncate(i, length) PROVE VfsInv'
  <2>1. length \in Nat
    BY VfsAssumption
  <2>2. QED
    BY <1>11, <2>1, CutFact DEF Ftruncate
<1>12. QED
  BY <1>1, <1>2, <1>3, <1>4, <1>5, <1>6, <1>7, <1>8, <1>9, <1>10, <1>11, Zenon DEF Next, ReadOnly

\* VfsInv is an invariant.
LEMMA VfsInvariant == Spec => []VfsInv
<1>1. VfsInv /\ [Next]_vars => VfsInv'
  BY StepInv
<1>2. QED
  BY InitInv, <1>1, PTL DEF Spec

\* The nodes of vfs.c stay well formed: what every call leaves behind is a file,
\* a directory or a link at a path, with a size and a capacity that are numbers,
\* and an inode that is not in use has nothing left in it.
THEOREM VfsTypeOK == Spec => []TypeOK
<1>1. VfsInv => TypeOK
  <2> SUFFICES ASSUME VfsInv PROVE TypeOK
    OBVIOUS
  <2>1. \A i \in Nodes : node[i] \in NodeRecords
    BY NodesFact
  <2>2. \A i \in Nodes : /\ node[i].path \in Path /\ node[i].mode \in {REG, DIR, LNK}
                         /\ node[i].data \in Blob \cup {NULL} /\ node[i].data_refs \in Blob \cup {NULL}
                         /\ node[i].size \in Nat /\ node[i].capacity \in Nat
    BY <2>1, NodesFact DEF NodeRecords
  <2>3. count \in [Blob -> Nat]
    BY DataFields DEF VfsInv, DataOK, DataStates
  <2>4. next_ino \in 2 .. MaxIno + 1 /\ tidy \in BOOLEAN
    BY DEF VfsInv, NumbersOK
  <2>5. QED
    BY <2>2, <2>3, <2>4, NodesFact DEF TypeOK
<1>2. QED
  BY VfsInvariant, <1>1, PTL

\* Blobs through vfs_link, vfs_write, vfs_truncate and vfs_unlink in any order,
\* by any number of links: data_refs counts exactly the nodes that share a blob,
\* none is freed while a node holds it and none is lost, and each is as large as
\* the capacity its nodes remember.
THEOREM VfsBlobsOwned == Spec => []BlobsOwned
<1>1. VfsInv => BlobsOwned
  <2> SUFFICES ASSUME VfsInv PROVE BlobsOwned
    OBVIOUS
  <2>1. \A i \in Ino : i \notin Nodes => node[i].data = NULL /\ node[i].data_refs = NULL
    BY NodesFact, NoNodeFact
  <2>2. \A b \in Blob : b # NULL
    BY InoFact DEF NULL
  <2>3. Nodes \in SUBSET Ino
    BY NodesFact
  <2>4. DataOK(Data)
    BY DEF VfsInv
  <2>5. ASSUME NEW c \in Blob
        PROVE  /\ count[c] = Cardinality(Sharers(c))
               /\ \A i, j \in Sharers(c) : node[i].data = node[j].data
    <3>1. Sharers(c) = Holding(node, c)
      BY <2>1, <2>2, <2>3 DEF Sharers, Holding
    <3>2. count[c] = Cardinality(Holding(node, c))
      BY <2>4, DataFields DEF DataOK
    <3>3. \A i, j \in Holding(node, c) : node[i].data = node[j].data
      BY <2>2, <2>4, DataFields DEF DataOK, Holding
    <3>4. QED
      BY <3>1, <3>2, <3>3
  <2>6. ASSUME NEW b \in Blob
        PROVE  /\ bytes[b] # << >> <=> Owners(b) # {}
               /\ \A i, j \in Owners(b) :
                    i # j => node[i].data_refs # NULL /\ node[i].data_refs = node[j].data_refs
    <3>1. bytes[b] # << >> <=> \E i \in Ino : node[i].data = b
      BY <2>4, DataFields DEF DataOK
    <3>2. \A i, j \in Ino : i # j /\ node[i].data # NULL /\ node[i].data = node[j].data =>
            node[i].data_refs # NULL /\ node[i].data_refs = node[j].data_refs
      BY <2>4, DataFields DEF DataOK
    <3>3. \A i \in Ino : i \in Owners(b) <=> node[i].data = b
      BY <2>1, <2>2, <2>3 DEF Owners
    <3>4. Owners(b) \in SUBSET Ino
      BY <2>3 DEF Owners
    <3>5. QED
      BY <2>2, <3>1, <3>2, <3>3, <3>4
  <2>7. ASSUME NEW i \in Nodes
        PROVE  /\ node[i].size <= node[i].capacity
               /\ node[i].mode = REG /\ node[i].data # NULL => Len(bytes[node[i].data]) = node[i].capacity
               /\ node[i].data = NULL => node[i].capacity = 0
    BY <2>3, <2>4, DataFields DEF DataOK, NodeOK
  <2>8. QED
    BY <2>5, <2>6, <2>7 DEF BlobsOwned
<1>2. QED
  BY VfsInvariant, <1>1, PTL

---------------------------------------------------------------------------
(* The volume that a state of the data stands for *)

Shape(s) == {i \in Ino : s.node[i].mode # "NONE"}
Text(s, i) ==
  IF s.node[i].data = NULL THEN << >>
  ELSE IF s.node[i].mode = LNK THEN s.bytes[s.node[i].data]
  ELSE SubSeq(s.bytes[s.node[i].data], 1, s.node[i].size)
Row(s, i) == [path |-> s.node[i].path, mode |-> s.node[i].mode, content |-> Text(s, i)]
View(s) == [i \in Shape(s) |-> Row(s, i)]
Obj == [i \in Nodes |-> [path    |-> node[i].path,
                         mode    |-> node[i].mode,
                         content |-> Content(i)]]

\* The refinement mapping is the view of the current data.
LEMMA ObjIsView == Obj = View(Data) /\ Obj' = View(Data')
<1>1. Obj = View(Data)
  <2>1. Nodes = Shape(Data)
    BY DataFields DEF Nodes, Shape
  <2>2. ASSUME NEW i PROVE Content(i) = Text(Data, i)
    BY DataFields DEF Content, Text
  <2>3. QED
    BY <2>1, <2>2, DataFields DEF Obj, View, Row
<1>2. Obj' = View(Data')
  <2>1. Nodes' = Shape(Data')
    BY DataFields DEF Nodes, Shape
  <2>2. ASSUME NEW CONSTANT i PROVE Content(i)' = Text(Data', i)
    BY DataFields DEF Content, Text
  <2>3. QED
    BY <2>1, <2>2, DataFields DEF Obj, View, Row
<1>3. QED
  BY <1>1, <1>2

\* A view has a row for every node.
LEMMA ViewDomain ==
  ASSUME NEW s
  PROVE  DOMAIN View(s) = Shape(s) /\ \A i \in Shape(s) : View(s)[i] = Row(s, i)
BY DEF View

\* Rows with another path or another content.
LEMMA RowExcept ==
  ASSUME NEW a, NEW b, NEW c, NEW x, NEW r, r = [path |-> a, mode |-> b, content |-> c]
  PROVE  /\ [r EXCEPT !.path = x] = [path |-> x, mode |-> b, content |-> c]
         /\ [r EXCEPT !.content = x] = [path |-> a, mode |-> b, content |-> x]
<1> DEFINE r1 == [r EXCEPT !.path = x]
           r2 == [r EXCEPT !.content = x]
<1>1. \A A, B, C : \A q \in [path : A, mode : B, content : C] :
        q = [path |-> q.path, mode |-> q.mode, content |-> q.content]
  OBVIOUS
<1>2. r \in [path : {a}, mode : {b}, content : {c}]
  OBVIOUS
<1>3. /\ r1 \in [path : {x}, mode : {b}, content : {c}] /\ r1.path = x /\ r1.mode = b /\ r1.content = c
      /\ r2 \in [path : {a}, mode : {b}, content : {x}] /\ r2.path = a /\ r2.mode = b /\ r2.content = x
  BY <1>2
<1> HIDE DEF r1, r2
<1>4. r1 = [path |-> r1.path, mode |-> r1.mode, content |-> r1.content]
  BY <1>1, <1>3, Zenon
<1>5. r2 = [path |-> r2.path, mode |-> r2.mode, content |-> r2.content]
  BY <1>1, <1>3, Zenon
<1>6. QED
  BY <1>3, <1>4, <1>5, Zenon DEF r1, r2

\* The other nodes are seen as they were.
Kept(s, t, i) ==
  \A j \in Ino \ {i} : (j \in Shape(t) <=> j \in Shape(s)) /\ Row(t, j) = Row(s, j)

\* A change of node i leaves the rows of the others alone.
LEMMA RowsKept ==
  ASSUME NEW s, NEW t, NEW i, Only(s, t, i)
  PROVE  Kept(s, t, i)
<1> SUFFICES ASSUME NEW j \in Ino \ {i}
             PROVE  (j \in Shape(t) <=> j \in Shape(s)) /\ Row(t, j) = Row(s, j)
  BY DEF Kept
<1>1. t.node[j] = s.node[j] /\ (s.node[j].data # NULL => t.bytes[s.node[j].data] = s.bytes[s.node[j].data])
  BY DEF Only
<1>2. Text(t, j) = Text(s, j)
  BY <1>1 DEF Text
<1>3. QED
  BY <1>1, <1>2 DEF Shape, Row

\* What a file is seen to hold.
LEMMA FileText ==
  ASSUME NEW s, DataOK(s), NEW i \in Ino, s.node[i].mode = REG
  PROVE  /\ s.node[i].size \in Nat
         /\ Text(s, i) = [k \in 1 .. s.node[i].size |-> s.bytes[s.node[i].data][k]]
         /\ Len(Text(s, i)) = s.node[i].size
<1> DEFINE n == s.node[i]
           e == s.bytes[n.data]
           f == [k \in 1 .. n.size |-> e[k]]
<1>1. /\ n.size \in Nat /\ n.capacity \in Nat /\ n.size <= n.capacity
      /\ n.data = NULL => n.size = 0
      /\ n.data # NULL => e \in Seq(Units) /\ Len(e) = n.capacity
  BY FileFact
<1>2. CASE n.data = NULL
  <2>1. Text(s, i) = << >>
    BY <1>2 DEF Text
  <2>2. f = << >>
    <3>1. 1 .. n.size = {}
      BY <1>1, <1>2
    <3>2. QED
      BY <3>1
  <2>3. QED
    BY <1>1, <1>2, <2>1, <2>2
<1>3. CASE n.data # NULL
  <2>1. Text(s, i) = SubSeq(e, 1, n.size)
    BY <1>3 DEF Text, REG, LNK
  <2> DEFINE z == n.size
  <2>2. z \in Nat /\ e \in Seq(Units) /\ z <= Len(e)
    BY <1>1, <1>3
  <2> HIDE DEF e, z
  <2>3. SubSeq(e, 1, z) = [k \in 1 .. z |-> e[k]] /\ Len(SubSeq(e, 1, z)) = z
    <3>1. SubSeq(e, 1, z) \in Seq(Units) /\ Len(SubSeq(e, 1, z)) = z
          /\ \A k \in 1 .. z : SubSeq(e, 1, z)[k] = e[k]
      BY <2>2
    <3>2. QED
      BY <2>2, <3>1
  <2>4. QED
    BY <1>1, <2>1, <2>3 DEF e, z
<1>4. QED
  BY <1>2, <1>3

\* A node more.
Plus(f, i, r) == [j \in DOMAIN f \cup {i} |-> IF j = i THEN r ELSE f[j]]

\* A view with a new node has one row more.
LEMMA MakeView ==
  ASSUME NEW s, NEW t, NEW i \in Ino, i \notin Shape(s), t.node[i].mode # "NONE",
         Kept(s, t, i)
  PROVE  View(t) = Plus(View(s), i, Row(t, i))
<1>1. Shape(t) = Shape(s) \cup {i}
  BY DEF Shape, Kept
<1>2. Shape(s) \in SUBSET Ino
  BY DEF Shape
<1>3. \A j \in Shape(t) : Row(t, j) = IF j = i THEN Row(t, i) ELSE View(s)[j]
  BY <1>1, <1>2, ViewDomain DEF Kept
<1>4. QED
  BY <1>1, <1>3, ViewDomain DEF View, Plus

\* A file with another content.
LEMMA ContentView ==
  ASSUME NEW s, NEW t, NEW i \in Shape(s), Only(s, t, i),
         t.node[i].path = s.node[i].path, t.node[i].mode = s.node[i].mode
  PROVE  View(t) = [View(s) EXCEPT ![i].content = Text(t, i)]
<1>1. \A j \in Ino \ {i} : (j \in Shape(t) <=> j \in Shape(s)) /\ Row(t, j) = Row(s, j)
  BY RowsKept DEF Kept
<1>2. Shape(t) = Shape(s) /\ i \in Ino /\ Shape(s) \in SUBSET Ino
  BY <1>1 DEF Shape
<1>3. Row(t, i) = [Row(s, i) EXCEPT !.content = Text(t, i)]
  <2> DEFINE P == s.node[i].path
             M == s.node[i].mode
             X == Text(s, i)
             Y == Text(t, i)
  <2>1. Row(s, i) = [path |-> P, mode |-> M, content |-> X] /\ Row(t, i) = [path |-> P, mode |-> M, content |-> Y]
    BY Zenon DEF Row
  <2> HIDE DEF P, M, X, Y
  <2>2. [Row(s, i) EXCEPT !.content = Y] = [path |-> P, mode |-> M, content |-> Y]
    <3> DEFINE R == Row(s, i)
    <3>1. R = [path |-> P, mode |-> M, content |-> X]
      BY <2>1
    <3> HIDE DEF R
    <3>2. [R EXCEPT !.content = Y] = [path |-> P, mode |-> M, content |-> Y]
      BY <3>1, RowExcept
    <3>3. QED
      BY <3>2 DEF R
  <2>3. Row(t, i) = [Row(s, i) EXCEPT !.content = Y]
    BY <2>1, <2>2, Zenon
  <2>4. QED
    BY <2>3 DEF Y
<1>4. [View(s) EXCEPT ![i].content = Text(t, i)] = [View(s) EXCEPT ![i] = [View(s)[i] EXCEPT !.content = Text(t, i)]]
  BY ViewDomain
<1>5. View(s)[i] = Row(s, i)
  BY ViewDomain
<1>6. [View(s) EXCEPT ![i].content = Text(t, i)] = [View(s) EXCEPT ![i] = Row(t, i)]
  BY <1>3, <1>4, <1>5, Zenon
<1>7. View(t) = [View(s) EXCEPT ![i] = Row(t, i)]
  <2>1. \A j \in Shape(s) : Row(t, j) = IF j = i THEN Row(t, i) ELSE Row(s, j)
    BY <1>1, <1>2
  <2>2. QED
    BY <1>2, <2>1 DEF View
<1>8. QED
  BY <1>6, <1>7, Zenon

\* A new row is a Make of the volume.
LEMMA AbsMake ==
  ASSUME NEW p, NEW mode, NEW content, NEW i \in Ino, i \notin Nodes,
         Obj' = Plus(Obj, i, [path |-> p, mode |-> mode, content |-> content])
  PROVE  Objects!Make(p, mode, content)
<1>1. DOMAIN Obj = Nodes
  BY DEF Obj
<1>2. i \in Ino \ DOMAIN Obj
  BY <1>1
<1>3. QED
  BY <1>2, Zenon DEF Objects!Make, Objects!FreshObjects, Obj, Plus

\* A row copied from another is a Link.
LEMMA AbsLink ==
  ASSUME NEW p, NEW i \in Ino, i \notin Nodes, NEW x, Obj[x].mode # "DIR",
         Obj' = Plus(Obj, i, [path |-> p, mode |-> Obj[x].mode, content |-> Obj[x].content])
  PROVE  Objects!Link(p, x)
<1>1. DOMAIN Obj = Nodes
  BY DEF Obj
<1>2. i \in Ino \ DOMAIN Obj
  BY <1>1
<1>3. QED
  BY <1>2, Zenon DEF Objects!Link, Objects!Make, Objects!FreshObjects, Obj, Plus

\* What a file holds after a write and after a truncation.
PutText(old, length, offset, b, hole) ==
  [k \in 1 .. length |-> IF k = offset + 1 THEN b ELSE IF k <= Len(old) THEN old[k] ELSE hole[k]]
CutText(old, length) == [k \in 1 .. length |-> IF k <= Len(old) THEN old[k] ELSE 0]

\* A byte in the text of a row, with any bytes in a gap before it, is a Put.
LEMMA AbsPut ==
  ASSUME NEW i, NEW offset, NEW b, Obj[i].mode = "REG",
         NEW length, length = IF offset + 1 > Len(Obj[i].content) THEN offset + 1 ELSE Len(Obj[i].content),
         NEW hole \in [Len(Obj[i].content) + 1 .. offset -> Units],
         Obj' = [Obj EXCEPT ![i].content = PutText(Obj[i].content, length, offset, b, hole)]
  PROVE  Objects!Put(i, offset, b)
<1> DEFINE old == Obj[i].content
<1>1. LET n == IF offset + 1 > Len(old) THEN offset + 1 ELSE Len(old)
      IN  /\ Obj[i].mode = "REG"
          /\ \E h \in [Len(old) + 1 .. offset -> Byte \cup {0, Junk}] :
               Obj' = [Obj EXCEPT ![i].content =
                         [k \in 1 .. n |-> IF k = offset + 1 THEN b
                                           ELSE IF k <= Len(old) THEN old[k]
                                           ELSE h[k]]]
  BY Zenon DEF PutText, Units
<1>2. QED
  BY <1>1, Zenon DEF Objects!Put, Obj

\* A text cut or filled with zeros is a Cut.
LEMMA AbsCut ==
  ASSUME NEW i, NEW length, Obj[i].mode = "REG", NEW old, old = Obj[i].content,
         Obj' = [Obj EXCEPT ![i].content = CutText(old, length)]
  PROVE  Objects!Cut(i, length)
BY Zenon DEF Objects!Cut, Obj, CutText

\* A node less.
Minus(f, i) == [j \in DOMAIN f \ {i} |-> f[j]]

---------------------------------------------------------------------------
(* Every call is a step of the volume *)

\* The rows of the mapping, and what is in them.
LEMMA ShapeFact ==
  /\ Shape(Data) = Nodes /\ Shape(Data') = Nodes' /\ DOMAIN Obj = Nodes /\ Shape(Data) \in SUBSET Ino
  /\ \A i \in Nodes : Obj[i] = Row(Data, i)
<1>1. Shape(Data) = Nodes /\ Shape(Data') = Nodes' /\ Shape(Data) \in SUBSET Ino
  BY DataFields DEF Shape, Nodes
<1>2. QED
  BY <1>1, ObjIsView, ViewDomain

\* A call that inserts node i adds row i.
LEMMA MakeStep ==
  ASSUME NEW i \in Ino, i \notin Nodes, NEW p, NEW mode, mode # "NONE", NEW content,
         Row(Data', i) = [path |-> p, mode |-> mode, content |-> content],
         node'[i].mode = mode,
         Kept(Data, Data', i)
  PROVE  Obj' = Plus(Obj, i, [path |-> p, mode |-> mode, content |-> content])
<1>1. i \notin Shape(Data) /\ Data'.node[i].mode # "NONE"
  BY ShapeFact, DataFields
<1> DEFINE s == Data
           t == Data'
<1>2. View(t) = Plus(View(s), i, Row(t, i))
  <2>1. i \notin Shape(s) /\ t.node[i].mode # "NONE"
    BY <1>1
  <2>2. Kept(s, t, i)
    OBVIOUS
  <2> HIDE DEF s, t
  <2>3. QED
    BY <2>1, <2>2, MakeView
<1>3. QED
  BY <1>2, ObjIsView

\* Create and Mkdir are a Make.
LEMMA CreateStep ==
  ASSUME VfsInv, NEW p \in Path, NEW mode \in {REG, DIR}, Insert(p),
         node' = [node EXCEPT ![next_ino] = NewNode(p, mode)], UNCHANGED <<bytes, count>>
  PROVE  Objects!Make(p, mode, << >>)
<1> DEFINE i == next_ino
<1>1. i \in Ino /\ i \notin Nodes /\ Only(Data, Data', i) /\ node'[i] = NewNode(p, mode)
  BY MakeFact
<1>2. mode \in Modes /\ mode # "NONE"
  BY DEF Modes, REG, DIR
<1>3. node'[i].path = p /\ node'[i].mode = mode /\ node'[i].data = NULL
  BY <1>1, <1>2, NewNodeFact
<1>4. Text(Data', i) = << >>
  BY <1>3, DataFields DEF Text
<1> DEFINE empty == << >>
<1>5. Row(Data', i) = [path |-> p, mode |-> mode, content |-> empty]
  BY <1>3, <1>4, DataFields DEF Row
<1>6. Kept(Data, Data', i)
  BY <1>1, RowsKept
<1>7. Obj' = Plus(Obj, i, [path |-> p, mode |-> mode, content |-> empty])
  <2> HIDE DEF empty
  <2>1. QED
    BY <1>1, <1>2, <1>3, <1>5, <1>6, MakeStep
<1>8. QED
  BY <1>1, <1>7, AbsMake

\* Symlink is a Make.
LEMMA SymlinkStep ==
  ASSUME VfsInv, NEW p \in Path, NEW target \in Targets, Symlink(target, p)
  PROVE  Objects!Make(p, "LNK", target)
<1> DEFINE i == next_ino
<1>1. /\ i \in Ino /\ i \notin Nodes /\ Only(Data, Data', i)
      /\ node'[i].path = p /\ node'[i].mode = LNK /\ node'[i].data # NULL
      /\ bytes'[node'[i].data] = target
  BY SymlinkFact
<1>2. Text(Data', i) = target
  BY <1>1, DataFields DEF Text
<1>3. Row(Data', i) = [path |-> p, mode |-> "LNK", content |-> target]
  BY <1>1, <1>2, DataFields DEF Row, LNK
<1>4. Kept(Data, Data', i)
  BY <1>1, RowsKept
<1>5. node'[i].mode = "LNK" /\ "LNK" # "NONE"
  BY <1>1 DEF LNK
<1>6. Obj' = Plus(Obj, i, [path |-> p, mode |-> "LNK", content |-> target])
  BY <1>1, <1>3, <1>4, <1>5, MakeStep
<1>7. QED
  BY <1>1, <1>6, AbsMake

\* Link is a Link: the text is shared below and copied above.
LEMMA LinkStep ==
  ASSUME VfsInv, NEW p \in Path, NEW q \in Path, Link(p, q)
  PROVE  find_node(q) \in Nodes /\ Objects!Link(p, find_node(q))
<1> DEFINE i == next_ino
           x == find_node(q)
           mode == node[x].mode
           content == Text(Data, x)
<1>1. i \in Ino /\ i \notin Nodes /\ x \in Nodes /\ mode # DIR /\ LinkEffect(i, p, x)
  BY LinkFact
<1> HIDE DEF x, mode
<1>2. /\ node'[i].path = p /\ node'[i].mode = mode /\ node'[i].data = node[x].data
      /\ node'[i].size = node[x].size /\ bytes' = bytes
  BY <1>1 DEF LinkEffect, mode
<1>3. Text(Data', i) = content
  BY <1>2, DataFields DEF Text, mode
<1>4. Kept(Data, Data', i)
  <2> SUFFICES ASSUME NEW j \in Ino \ {i}
               PROVE  (j \in Shape(Data') <=> j \in Shape(Data)) /\ Row(Data', j) = Row(Data, j)
    BY DEF Kept
  <2>1. /\ node'[j].path = node[j].path /\ node'[j].mode = node[j].mode
        /\ node'[j].data = node[j].data /\ node'[j].size = node[j].size
    BY <1>1 DEF LinkEffect
  <2>2. Text(Data', j) = Text(Data, j)
    BY <1>2, <2>1, DataFields DEF Text
  <2>3. QED
    BY <2>1, <2>2, DataFields DEF Shape, Row
<1>5. Row(Data', i) = [path |-> p, mode |-> mode, content |-> content]
  BY <1>2, <1>3, DataFields DEF Row
<1>6. mode # "NONE"
  BY <1>1 DEF Nodes, mode
<1>7. Obj[x].mode = mode /\ Obj[x].content = content
  <2>1. Obj[x] = Row(Data, x)
    BY <1>1, ShapeFact
  <2>2. QED
    BY <2>1, DataFields DEF Row, mode
<1> HIDE DEF content, i
<1>8. Obj' = Plus(Obj, i, [path |-> p, mode |-> mode, content |-> content])
  BY <1>1, <1>2, <1>4, <1>5, <1>6, MakeStep
<1>9. mode # "DIR"
  BY <1>1 DEF DIR
<1>10. /\ Obj[x].mode # "DIR"
       /\ Obj' = Plus(Obj, i, [path |-> p, mode |-> Obj[x].mode, content |-> Obj[x].content])
  BY <1>7, <1>8, <1>9, Zenon
<1>11. Objects!Link(p, x)
  BY <1>1, <1>10, AbsLink
<1>12. QED
  BY <1>1, <1>11 DEF x

\* A call on the bytes of file i changes the text of row i only.
LEMMA FileStep ==
  ASSUME VfsInv, NEW i \in Nodes, node[i].mode = REG, Only(Data, Data', i),
         node'[i].path = node[i].path, node'[i].mode = node[i].mode
  PROVE  /\ Obj' = [Obj EXCEPT ![i].content = Text(Data', i)]
         /\ Obj[i].mode = "REG" /\ Obj[i].content = Text(Data, i)
<1>1. Obj[i] = Row(Data, i)
  BY ShapeFact
<1>2. Obj[i].mode = "REG" /\ Obj[i].content = Text(Data, i)
  BY <1>1, DataFields DEF Row, REG
<1> DEFINE s == Data
           t == Data'
<1>3. View(t) = [View(s) EXCEPT ![i].content = Text(t, i)]
  <2>1. i \in Shape(s) /\ Only(s, t, i) /\ t.node[i].path = s.node[i].path /\ t.node[i].mode = s.node[i].mode
    BY ShapeFact, DataFields
  <2> HIDE DEF s, t
  <2>2. QED
    BY <2>1, ContentView
<1>4. QED
  BY <1>2, <1>3, ObjIsView

\* Truncation is a Cut, or does nothing.
LEMMA CutStep ==
  ASSUME VfsInv, NEW i \in Nodes, NEW length \in Nat,
         SetData(vfs_truncate(Data, i, length)), UNCHANGED <<next_ino, tidy>>
  PROVE  Objects!Cut(i, length) \/ Obj' = Obj
<1>1. CASE node[i].mode = REG
  <2>1. VfsInv' /\ Only(Data, Data', i) /\ CutTo(Data, Data', i, length)
    BY <1>1, CutFact
  <2>2. i \in Ino /\ DataOK(Data) /\ DataOK(Data')
    BY <2>1, NodesFact DEF VfsInv
  <2>3. /\ node'[i].path = node[i].path /\ node'[i].mode = node[i].mode /\ node'[i].size = length
        /\ \A k \in 1 .. length :
             bytes'[node'[i].data][k] = IF k <= node[i].size THEN bytes[node[i].data][k] ELSE 0
    BY <2>1, DataFields DEF CutTo
  <2>4. /\ Obj' = [Obj EXCEPT ![i].content = Text(Data', i)]
        /\ Obj[i].mode = "REG" /\ Obj[i].content = Text(Data, i)
    BY <1>1, <2>1, <2>3, FileStep
  <2> DEFINE old == Text(Data, i)
             new == Text(Data', i)
  <2>5. /\ node[i].size \in Nat /\ Len(old) = node[i].size
        /\ old = [k \in 1 .. node[i].size |-> bytes[node[i].data][k]]
    BY <1>1, <2>2, FileText, DataFields
  <2>6. new = [k \in 1 .. length |-> bytes'[node'[i].data][k]]
    <3>1. Data'.node[i].mode = REG
      BY <1>1, <2>3, DataFields
    <3>2. new = [k \in 1 .. Data'.node[i].size |-> Data'.bytes[Data'.node[i].data][k]]
      <4> DEFINE t == Data'
      <4>1. DataOK(t) /\ t.node[i].mode = REG
        BY <2>2, <3>1
      <4> HIDE DEF t
      <4>2. Text(t, i) = [k \in 1 .. t.node[i].size |-> t.bytes[t.node[i].data][k]]
        BY <2>2, <4>1, FileText
      <4>3. QED
        BY <4>2 DEF t
    <3>3. QED
      BY <2>3, <3>2, DataFields
  <2> HIDE DEF old, new
  <2>7. new = CutText(old, length)
    <3>1. ASSUME NEW k \in 1 .. length
          PROVE  bytes'[node'[i].data][k] = IF k <= Len(old) THEN old[k] ELSE 0
      <4>1. CASE k <= node[i].size
        <5>1. k \in 1 .. node[i].size
          BY <2>5, <4>1
        <5>2. QED
          BY <2>3, <2>5, <4>1, <5>1
      <4>2. CASE ~(k <= node[i].size)
        BY <2>3, <2>5, <4>2
      <4>3. QED
        BY <4>1, <4>2
    <3>2. QED
      BY <2>6, <3>1 DEF CutText
  <2>8. old = Obj[i].content /\ Obj' = [Obj EXCEPT ![i].content = CutText(old, length)]
    BY <2>4, <2>7 DEF old, new
  <2>9. QED
    BY <2>4, <2>8, AbsCut
<1>2. CASE node[i].mode # REG
  <2>1. UNCHANGED <<node, bytes, count>>
    BY <1>2, CutFact
  <2>2. QED
    BY <2>1, ObjIsView DEF Data
<1>3. QED
  BY <1>1, <1>2

\* Write is a Put.
LEMMA PutStep ==
  ASSUME VfsInv, NEW i \in Nodes, NEW offset \in Nat, NEW b \in Byte, Write(i, offset, b)
  PROVE  Objects!Put(i, offset, b)
<1>1. VfsInv' /\ node[i].mode = REG /\ Only(Data, Data', i) /\ PutAt(Data, Data', i, offset, b)
  BY PutFact
<1>2. i \in Ino /\ DataOK(Data) /\ DataOK(Data')
  BY <1>1, NodesFact DEF VfsInv
<1> DEFINE length == node'[i].size
           e == bytes'[node'[i].data]
           size == node[i].size
           old == Text(Data, i)
           new == Text(Data', i)
<1>3. /\ node'[i].path = node[i].path /\ node'[i].mode = node[i].mode
      /\ length = IF offset + 1 > size THEN offset + 1 ELSE size
      /\ \A k \in 1 .. length : /\ e[k] \in Units
                                /\ k = offset + 1 => e[k] = b
                                /\ k # offset + 1 /\ k <= size => e[k] = bytes[node[i].data][k]
  BY <1>1, DataFields DEF PutAt
<1>4. /\ Obj' = [Obj EXCEPT ![i].content = new]
      /\ Obj[i].mode = "REG" /\ Obj[i].content = old
  BY <1>1, <1>3, FileStep
<1>5. size \in Nat /\ Len(old) = size /\ old = [k \in 1 .. size |-> bytes[node[i].data][k]]
  BY <1>1, <1>2, FileText, DataFields
<1>6. new = [k \in 1 .. length |-> e[k]]
  <2> DEFINE t == Data'
  <2>1. DataOK(t) /\ t.node[i].mode = REG
    BY <1>1, <1>2, <1>3, DataFields
  <2> HIDE DEF t
  <2>2. Text(t, i) = [k \in 1 .. t.node[i].size |-> t.bytes[t.node[i].data][k]]
    BY <1>2, <2>1, FileText
  <2>3. QED
    BY <2>2, DataFields DEF t
<1> HIDE DEF length, e, size, old, new
<1> DEFINE hole == [k \in size + 1 .. offset |-> e[k]]
<1>7. \A k \in size + 1 .. offset : k \in 1 .. length
  BY <1>3, <1>5
<1>8. hole \in [size + 1 .. offset -> Units] /\ \A k \in size + 1 .. offset : hole[k] = e[k]
  BY <1>3, <1>7
<1> HIDE DEF hole
<1>9. new = PutText(old, length, offset, b, hole)
  <2>1. ASSUME NEW k \in 1 .. length
        PROVE  e[k] = IF k = offset + 1 THEN b ELSE IF k <= Len(old) THEN old[k] ELSE hole[k]
    <3>1. CASE k = offset + 1
      BY <1>3, <3>1
    <3>2. CASE k # offset + 1 /\ k <= size
      <4>1. k \in 1 .. size
        BY <1>5, <3>2
      <4>2. QED
        BY <1>3, <1>5, <3>2, <4>1
    <3>3. CASE k # offset + 1 /\ ~(k <= size)
      <4>1. k \in size + 1 .. offset
        BY <1>3, <1>5, <3>3
      <4>2. QED
        BY <1>5, <1>8, <3>3, <4>1
    <3>4. QED
      BY <3>1, <3>2, <3>3
  <2>2. QED
    BY <1>6, <2>1 DEF PutText
<1>10. /\ Obj' = [Obj EXCEPT ![i].content = PutText(Obj[i].content, length, offset, b, hole)]
       /\ length = IF offset + 1 > Len(Obj[i].content) THEN offset + 1 ELSE Len(Obj[i].content)
       /\ hole \in [Len(Obj[i].content) + 1 .. offset -> Units]
  BY <1>3, <1>4, <1>5, <1>8, <1>9
<1>11. QED
  BY <1>4, <1>10, AbsPut

\* Unlink removes a row.
LEMMA RemoveStep ==
  ASSUME VfsInv, NEW p, vfs_unlink(p), tidy' = tidy
  PROVE  find_node(p) \in Nodes /\ Obj' = Minus(Obj, find_node(p))
<1> DEFINE i == find_node(p)
<1>1. i \in Nodes /\ Only(Data, Data', i) /\ node'[i] = NoNode
  BY RemoveFact
<1> HIDE DEF i
<1>2. Kept(Data, Data', i)
  BY <1>1, RowsKept
<1>3. Shape(Data') = Shape(Data) \ {i}
  BY <1>1, <1>2, NoNodeFact, DataFields DEF Kept, Shape
<1>4. \A j \in Shape(Data') : Row(Data', j) = View(Data)[j]
  BY <1>2, <1>3, ShapeFact, ViewDomain DEF Kept
<1>5. View(Data') = Minus(View(Data), i)
  BY <1>3, <1>4, ViewDomain DEF View, Minus
<1>6. Obj' = Minus(Obj, i)
  BY <1>5, ObjIsView
<1>7. QED
  BY <1>1, <1>6 DEF i

\* Every path p(j) of a set of objects, as a function.
Renamed(f, p) == [j \in DOMAIN f |-> [f[j] EXCEPT !.path = p[j]]]

\* New paths for a row and those below it are a Move.
LEMMA AbsMove ==
  ASSUME NEW i, NEW q, NEW p, DOMAIN Obj = Nodes,
         \A j \in Nodes :
           p[j] = IF j = i THEN q
                  ELSE IF Obj[i].mode = "DIR" /\ Below(Obj[j].path, Obj[i].path)
                  THEN q \o SubSeq(Obj[j].path, Len(Obj[i].path) + 1, Len(Obj[j].path))
                  ELSE Obj[j].path,
         Obj' = Renamed(Obj, p)
  PROVE  Objects!Move(i, q)
<1> DEFINE old == Obj[i].path
           e(j) == IF j = i THEN q
                   ELSE IF Obj[i].mode = "DIR" /\ Objects!Below(Obj[j].path, old)
                   THEN q \o SubSeq(Obj[j].path, Len(old) + 1, Len(Obj[j].path))
                   ELSE Obj[j].path
<1>1. \A j \in DOMAIN Obj : p[j] = e(j)
  BY DEF Below, Objects!Below
<1>2. Obj' = [j \in DOMAIN Obj |-> [Obj[j] EXCEPT !.path = e(j)]]
  <2> HIDE DEF e
  <2>1. QED
    BY <1>1 DEF Renamed
<1>3. QED
  BY <1>2, Zenon DEF Objects!Move, Obj

\* Rename is a Move.
LEMMA MoveStep ==
  ASSUME VfsInv, NEW old, NEW new \in Path, Rename(old, new)
  PROVE  find_node(old) \in Nodes /\ Objects!Move(find_node(old), new)
<1> DEFINE i == find_node(old)
           p == [j \in Nodes |-> node'[j].path]
<1>1. /\ i \in Nodes /\ node[i].path = old /\ bytes' = bytes
      /\ \A j \in Ino : /\ node'[j].path = new_path(i, j, old, new)
                        /\ node'[j].mode = node[j].mode /\ node'[j].data = node[j].data
                        /\ node'[j].size = node[j].size
  BY MoveFact
<1> HIDE DEF i
<1>2. Shape(Data') = Shape(Data)
  BY <1>1, DataFields DEF Shape
<1>3. \A j \in Nodes : Obj[j] = Row(Data, j) /\ j \in Ino
  BY ShapeFact
<1>4. \A j \in Nodes : p[j] = node'[j].path
  OBVIOUS
<1> HIDE DEF p
<1>5. Obj' = Renamed(Obj, p)
  <2>1. ASSUME NEW j \in Nodes PROVE Row(Data', j) = [Obj[j] EXCEPT !.path = p[j]]
    <3> DEFINE P == node[j].path
               M == node[j].mode
               X == Text(Data, j)
               Q == p[j]
               R == Obj[j]
    <3>1. Text(Data', j) = X
      BY <1>1, <1>3, DataFields DEF Text
    <3>2. R = [path |-> P, mode |-> M, content |-> X]
      BY <1>3, DataFields DEF Row
    <3>3. Row(Data', j) = [path |-> Q, mode |-> M, content |-> X]
      BY <1>1, <1>3, <1>4, <3>1, DataFields DEF Row
    <3> HIDE DEF P, M, X, Q, R
    <3>4. [R EXCEPT !.path = Q] = [path |-> Q, mode |-> M, content |-> X]
      BY <3>2, RowExcept
    <3>5. QED
      BY <3>3, <3>4 DEF Q, R
  <2>2. View(Data') = [j \in Nodes |-> Row(Data', j)] /\ DOMAIN Obj = Nodes
    BY <1>2, ShapeFact DEF View
  <2>3. QED
    BY <2>1, <2>2, ObjIsView DEF Renamed
<1>6. ASSUME NEW j \in Nodes
      PROVE  p[j] = IF j = i THEN new
                    ELSE IF Obj[i].mode = "DIR" /\ Below(Obj[j].path, Obj[i].path)
                    THEN new \o SubSeq(Obj[j].path, Len(Obj[i].path) + 1, Len(Obj[j].path))
                    ELSE Obj[j].path
  <2>1. Obj[j].path = node[j].path /\ Obj[i].mode = node[i].mode /\ Obj[i].path = old
    <3>1. Obj[j] = Row(Data, j) /\ Obj[i] = Row(Data, i)
      BY <1>1, <1>3
    <3>2. QED
      BY <1>1, <3>1, DataFields DEF Row
  <2>2. p[j] = new_path(i, j, old, new)
    BY <1>1, <1>3, <1>4
  <2>3. QED
    BY <2>1, <2>2, Zenon DEF new_path, moved, DIR
<1>7. Objects!Move(i, new)
  BY <1>5, <1>6, ShapeFact, AbsMove
<1>8. QED
  BY <1>1, <1>7 DEF i

\* Every call is a step of the volume, or changes nothing in it.
LEMMA VolumeStep == ASSUME VfsInv, [Next]_vars PROVE Objects!Next \/ Obj' = Obj
<1>0. DOMAIN Obj = Nodes
  BY ShapeFact
<1>1. CASE UNCHANGED vars
  BY <1>1, ObjIsView DEF vars, Data
<1>2. ASSUME NEW p \in Path, Create(p) PROVE Objects!Next
  <2>1. Objects!Make(p, "REG", << >>)
    BY <1>2, CreateStep DEF Create, REG
  <2>2. QED
    BY <2>1, Zenon DEF Objects!Next
<1>3. ASSUME NEW p \in Path, Mkdir(p) PROVE Objects!Next
  <2>1. Objects!Make(p, "DIR", << >>)
    BY <1>3, CreateStep DEF Mkdir, DIR
  <2>2. QED
    BY <2>1, Zenon DEF Objects!Next
<1>4. ASSUME NEW p \in Path, NEW t \in Targets, Symlink(t, p) PROVE Objects!Next
  <2>1. Objects!Make(p, "LNK", t)
    BY <1>4, SymlinkStep
  <2>2. QED
    BY <2>1, Zenon DEF Objects!Next
<1>5. ASSUME NEW p \in Path, NEW q \in Path, Link(p, q) PROVE Objects!Next
  <2>1. find_node(q) \in DOMAIN Obj /\ Objects!Link(p, find_node(q))
    BY <1>0, <1>5, LinkStep
  <2>2. QED
    BY <2>1, Zenon DEF Objects!Next, Obj
<1>6. ASSUME NEW p \in Path, NEW q \in Path, Rename(p, q) PROVE Objects!Next
  <2>1. find_node(p) \in DOMAIN Obj /\ Objects!Move(find_node(p), q)
    BY <1>0, <1>6, MoveStep
  <2>2. QED
    BY <2>1, Zenon DEF Objects!Next, Obj
<1>7. ASSUME NEW p \in Path, NEW creat \in BOOLEAN, OpenTrunc(p, creat) PROVE Objects!Next \/ Obj' = Obj
  <2> DEFINE i == open_node(p, creat)
  <2>1. i \in Nodes /\ SetData(vfs_truncate(Data, i, 0)) /\ UNCHANGED <<next_ino, tidy>>
    BY <1>7, OpenNodeFact DEF OpenTrunc
  <2>2. Objects!Cut(i, 0) \/ Obj' = Obj
    BY <2>1, CutStep
  <2>3. i \in DOMAIN Obj /\ 0 \in Lengths \cup {0}
    BY <1>0, <2>1
  <2>4. QED
    BY <2>2, <2>3, Zenon DEF Objects!Next, Obj
<1>8. ASSUME NEW p \in Path, NEW length \in Lengths, TruncatePath(p, length) PROVE Objects!Next \/ Obj' = Obj
  <2> DEFINE i == find_node(follow_symlinks(p))
  <2>1. i \in Nodes /\ SetData(vfs_truncate(Data, i, length)) /\ UNCHANGED <<next_ino, tidy>>
    BY <1>8, FindFact DEF TruncatePath
  <2>2. length \in Nat
    BY VfsAssumption
  <2>3. Objects!Cut(i, length) \/ Obj' = Obj
    BY <2>1, <2>2, CutStep
  <2>4. i \in DOMAIN Obj /\ length \in Lengths \cup {0}
    BY <1>0, <2>1
  <2>5. QED
    BY <2>3, <2>4, Zenon DEF Objects!Next, Obj
<1>9. ASSUME NEW p \in Path, Unlink(p) \/ Rmdir(p) PROVE Objects!Next
  <2>1. vfs_unlink(p) /\ tidy' = tidy
    BY <1>9 DEF Unlink, Rmdir
  <2>2. find_node(p) \in DOMAIN Obj /\ Obj' = Minus(Obj, find_node(p))
    BY <1>0, <2>1, RemoveStep
  <2>3. \E i \in DOMAIN Obj : Obj' = [j \in DOMAIN Obj \ {i} |-> Obj[j]]
    BY <2>2 DEF Minus
  <2>4. \E i \in DOMAIN Obj : Objects!Remove(i)
    BY <2>3, Zenon DEF Objects!Remove, Obj
  <2>5. QED
    BY <2>4, Zenon DEF Objects!Next, Obj
<1>10. ASSUME NEW i \in Nodes, NEW offset \in Offsets, NEW b \in Byte, Write(i, offset, b) PROVE Objects!Next
  <2>1. offset \in Nat /\ i \in DOMAIN Obj
    BY <1>0, VfsAssumption
  <2>2. Objects!Put(i, offset, b)
    BY <1>10, <2>1, PutStep
  <2>3. QED
    BY <2>1, <2>2, Zenon DEF Objects!Next, Obj
<1>11. ASSUME NEW i \in Nodes, NEW length \in Lengths, Ftruncate(i, length) PROVE Objects!Next \/ Obj' = Obj
  <2>1. length \in Nat /\ length \in Lengths \cup {0} /\ i \in DOMAIN Obj
    BY <1>0, VfsAssumption
  <2>2. Objects!Cut(i, length) \/ Obj' = Obj
    BY <1>11, <2>1, CutStep DEF Ftruncate
  <2>3. QED
    BY <2>1, <2>2, Zenon DEF Objects!Next, Obj
<1>12. QED
  BY <1>1, <1>2, <1>3, <1>4, <1>5, <1>6, <1>7, <1>8, <1>9, <1>10, <1>11, Zenon DEF Next, ReadOnly

\* Copy on write is not observable: vfs.c with its shared blobs implements the
\* volume in which every node has bytes of its own, so that a write, a
\* truncation or an unlink through one hard link never changes another.
THEOREM VfsImplementsVolume == Spec => ImplementsVolume
<1>1. Init => Objects!Init
  <2> SUFFICES ASSUME Init PROVE Obj = << >>
    BY Zenon DEF Objects!Init, Obj
  <2>1. Nodes = {}
    BY NoNodeFact DEF Init, Nodes
  <2>2. DOMAIN Obj = {}
    BY <2>1 DEF Obj
  <2>3. QED
    BY <2>1 DEF Obj
<1>2. VfsInv /\ [Next]_vars => [Objects!Next]_Obj
  BY VolumeStep, Zenon
<1>3. VfsInv /\ [Next]_vars => [Objects!Next]_[i \in Nodes |-> [path    |-> node[i].path,
                                                                mode    |-> node[i].mode,
                                                                content |-> Content(i)]]
  BY <1>2, Zenon DEF Obj
<1>4. QED
  BY VfsInvariant, <1>1, <1>3, PTL DEF Spec, ImplementsVolume, Objects!Spec

---------------------------------------------------------------------------
(* Paths *)

\* Paths with the same names are the same.
LEMMA SamePath ==
  ASSUME NEW p \in Seq(Names), NEW q \in Seq(Names), Len(p) = Len(q), \A k \in 1 .. Len(p) : p[k] = q[k]
  PROVE  p = q
OBVIOUS

\* The parent of a path is the path without its last name.
LEMMA ParentFact ==
  ASSUME NEW p \in Seq(Names), p # << >>
  PROVE  LET q == path_parent_dir(p)
         IN  /\ q \in Seq(Names) /\ Len(p) \in Nat /\ Len(p) >= 1 /\ Len(q) = Len(p) - 1
             /\ \A k \in 1 .. Len(p) - 1 : q[k] = p[k]
<1>1. Len(p) \in Nat /\ Len(p) >= 1
  OBVIOUS
<1> DEFINE n == Len(p) - 1
<1>2. n \in Nat /\ \A k \in 1 .. n : k \in 1 .. Len(p) /\ p[k] \in Names
  BY <1>1
<1>3. SubSeq(p, 1, n) = [k \in 1 .. n |-> p[k]]
  BY <1>2
<1> HIDE DEF n
<1>4. SubSeq(p, 1, n) \in Seq(Names) /\ Len(SubSeq(p, 1, n)) = n /\ \A k \in 1 .. n : SubSeq(p, 1, n)[k] = p[k]
  BY <1>2, <1>3
<1>5. QED
  BY <1>1, <1>4 DEF path_parent_dir, n

\* A path is below its proper prefixes.
LEMMA BelowFact ==
  ASSUME NEW p \in Seq(Names), NEW q \in Seq(Names)
  PROVE  /\ Len(p) \in Nat /\ Len(q) \in Nat
         /\ Below(p, q) <=> Len(p) > Len(q) /\ \A k \in 1 .. Len(q) : p[k] = q[k]
<1>1. Len(p) \in Nat /\ Len(q) \in Nat
  OBVIOUS
<1>2. ASSUME Len(p) > Len(q) PROVE SubSeq(p, 1, Len(q)) = q <=> \A k \in 1 .. Len(q) : p[k] = q[k]
  <2> DEFINE f == SubSeq(p, 1, Len(q))
  <2>1. f \in Seq(Names) /\ Len(f) = Len(q) /\ \A k \in 1 .. Len(q) : f[k] = p[k]
    BY <1>1, <1>2
  <2> HIDE DEF f
  <2>2. f = q <=> \A k \in 1 .. Len(q) : p[k] = q[k]
    BY <2>1, SamePath
  <2>3. QED
    BY <2>2 DEF f
<1>3. QED
  BY <1>1, <1>2 DEF Below

\* A path is below its parent, and what it is below its parent is or is below.
LEMMA ParentBelow ==
  ASSUME NEW p \in Seq(Names), p # << >>, NEW q \in Seq(Names)
  PROVE  /\ Below(p, path_parent_dir(p))
         /\ Below(p, q) <=> path_parent_dir(p) = q \/ Below(path_parent_dir(p), q)
<1> DEFINE r == path_parent_dir(p)
<1>1. /\ r \in Seq(Names) /\ Len(p) \in Nat /\ Len(p) >= 1 /\ Len(r) = Len(p) - 1
      /\ \A k \in 1 .. Len(p) - 1 : r[k] = p[k]
  BY ParentFact
<1> HIDE DEF r
<1>2. Below(p, r)
  BY <1>1, BelowFact
<1>3. ASSUME Below(p, q), r # q PROVE Below(r, q)
  <2>1. Len(q) \in Nat /\ Len(p) > Len(q) /\ \A k \in 1 .. Len(q) : p[k] = q[k]
    BY <1>3, BelowFact
  <2>2. \A k \in 1 .. Len(q) : r[k] = q[k]
    BY <1>1, <2>1
  <2>3. Len(r) # Len(q)
    BY <1>1, <1>3, <2>2, SamePath
  <2>4. Len(r) > Len(q)
    BY <1>1, <2>1, <2>3
  <2>5. QED
    BY <1>1, <2>2, <2>4, BelowFact
<1>4. ASSUME Below(r, q) PROVE Below(p, q)
  <2>0. r \in Seq(Names)
    BY <1>1
  <2>1. Len(q) \in Nat /\ Len(r) > Len(q) /\ \A k \in 1 .. Len(q) : r[k] = q[k]
    BY <1>4, <2>0, BelowFact
  <2>2. Len(p) > Len(q)
    <3>1. Len(r) \in Nat /\ Len(r) = Len(p) - 1
      BY <1>1
    <3>2. QED
      BY <1>1, <2>1, <3>1
  <2>3. ASSUME NEW k \in 1 .. Len(q) PROVE p[k] = q[k]
    <3>1. k \in 1 .. Len(p) - 1
      BY <1>1, <2>1, <2>2
    <3>2. QED
      BY <1>1, <2>1, <3>1
  <2>4. QED
    BY <2>2, <2>3, BelowFact
<1>5. QED
  BY <1>2, <1>3, <1>4 DEF r

\* What is below old is below new after the move, in the same place.
LEMMA MovedFact ==
  ASSUME NEW old \in Seq(Names), NEW new \in Seq(Names), NEW p \in Seq(Names), Below(p, old)
  PROVE  LET m == moved(p, old, new)
         IN  /\ m \in Seq(Names) /\ Len(m) = Len(new) + (Len(p) - Len(old))
             /\ \A k \in 1 .. Len(new) : m[k] = new[k]
             /\ \A k \in 1 .. Len(p) - Len(old) : m[Len(new) + k] = p[Len(old) + k]
<1> DEFINE s == SubSeq(p, Len(old) + 1, Len(p))
<1>1. Len(p) \in Nat /\ Len(old) \in Nat /\ Len(p) > Len(old) /\ Len(new) \in Nat
  BY BelowFact
<1>2. s \in Seq(Names) /\ Len(s) = Len(p) - Len(old)
      /\ \A k \in 1 .. Len(p) - Len(old) : s[k] = p[Len(old) + k]
  <2>1. \A x \in 1 .. Len(p) : p[x] \in Names
    OBVIOUS
  <2>2. s = [k \in 1 .. Len(p) - Len(old) |-> p[Len(old) + k]]
    BY <1>1
  <2>3. \A k \in 1 .. Len(p) - Len(old) : Len(old) + k \in 1 .. Len(p)
    BY <1>1
  <2>4. Len(p) - Len(old) \in Nat
    BY <1>1
  <2> HIDE DEF s
  <2>5. QED
    BY <2>1, <2>2, <2>3, <2>4
<1> HIDE DEF s
<1>3. moved(p, old, new) = new \o s
  BY DEF moved, s
<1>4. new \o s \in Seq(Names) /\ Len(new \o s) = Len(new) + Len(s)
  <2>1. s \in Seq(Names)
    BY <1>2
  <2>2. QED
    BY <2>1
<1>5. \A k \in 1 .. Len(new) : (new \o s)[k] = new[k]
  BY <1>2
<1>6. ASSUME NEW k \in 1 .. Len(s) PROVE (new \o s)[Len(new) + k] = s[k]
  <2>1. Len(new) + k \in 1 .. Len(new) + Len(s) /\ ~(Len(new) + k <= Len(new)) /\ Len(new) + k - Len(new) = k
    BY <1>1, <1>2
  <2>2. QED
    BY <1>2, <2>1, SMTT(40)
<1>7. QED
  BY <1>2, <1>3, <1>4, <1>5, <1>6

\* What was below the old path is below the new one.
LEMMA MovedBelow ==
  ASSUME NEW old \in Seq(Names), NEW new \in Seq(Names), NEW p \in Seq(Names), Below(p, old)
  PROVE  LET m == moved(p, old, new)
         IN  m \in Seq(Names) /\ m # << >> /\ Below(m, new) /\ m # new
<1> DEFINE m == moved(p, old, new)
<1>1. /\ m \in Seq(Names) /\ Len(m) = Len(new) + (Len(p) - Len(old))
      /\ \A k \in 1 .. Len(new) : m[k] = new[k]
  BY MovedFact
<1> HIDE DEF m
<1>2. Len(p) \in Nat /\ Len(old) \in Nat /\ Len(p) > Len(old) /\ Len(new) \in Nat
  BY BelowFact
<1>3. Len(m) > Len(new)
  BY <1>1, <1>2
<1>4. Below(m, new)
  BY <1>1, <1>3, BelowFact
<1>5. m # new /\ m # << >>
  BY <1>2, <1>3
<1>6. QED
  BY <1>1, <1>4, <1>5 DEF m

\* Different paths stay different.
LEMMA MovedInjective ==
  ASSUME NEW old \in Seq(Names), NEW new \in Seq(Names), NEW p \in Seq(Names), NEW q \in Seq(Names),
         Below(p, old), Below(q, old), moved(p, old, new) = moved(q, old, new)
  PROVE  p = q
<1> DEFINE m == moved(p, old, new)
<1>1. /\ Len(m) = Len(new) + (Len(p) - Len(old))
      /\ \A k \in 1 .. Len(p) - Len(old) : m[Len(new) + k] = p[Len(old) + k]
  BY MovedFact
<1>2. /\ Len(m) = Len(new) + (Len(q) - Len(old))
      /\ \A k \in 1 .. Len(q) - Len(old) : m[Len(new) + k] = q[Len(old) + k]
  <2> DEFINE w == moved(q, old, new)
  <2>1. /\ Len(w) = Len(new) + (Len(q) - Len(old))
        /\ \A k \in 1 .. Len(q) - Len(old) : w[Len(new) + k] = q[Len(old) + k]
    BY MovedFact
  <2>2. m = w
    OBVIOUS
  <2> HIDE DEF m, w
  <2>3. QED
    BY <2>1, <2>2
<1> HIDE DEF m
<1>3. /\ Len(p) \in Nat /\ Len(old) \in Nat /\ Len(p) > Len(old) /\ Len(new) \in Nat /\ Len(q) \in Nat
      /\ \A k \in 1 .. Len(old) : p[k] = old[k] /\ q[k] = old[k]
  BY BelowFact
<1>4. Len(p) = Len(q)
  BY <1>1, <1>2, <1>3
<1>5. ASSUME NEW k \in 1 .. Len(p) PROVE p[k] = q[k]
  <2>1. CASE k <= Len(old)
    BY <1>3, <2>1
  <2>2. CASE ~(k <= Len(old))
    <3> DEFINE j == k - Len(old)
    <3>1. j \in 1 .. Len(p) - Len(old) /\ Len(old) + j = k
      BY <1>3, <2>2
    <3> HIDE DEF j
    <3>2. m[Len(new) + j] = p[Len(old) + j] /\ m[Len(new) + j] = q[Len(old) + j]
      BY <1>1, <1>2, <1>4, <3>1
    <3>3. QED
      BY <3>1, <3>2
  <2>3. QED
    BY <2>1, <2>2
<1>6. QED
  BY <1>4, <1>5, SamePath

\* Parents move along.
LEMMA MovedParent ==
  ASSUME NEW old \in Seq(Names), NEW new \in Seq(Names), NEW p \in Seq(Names), Below(p, old)
  PROVE  path_parent_dir(moved(p, old, new)) =
           IF path_parent_dir(p) = old THEN new ELSE moved(path_parent_dir(p), old, new)
<1> DEFINE m == moved(p, old, new)
           n == path_parent_dir(m)
           r == path_parent_dir(p)
           x == moved(r, old, new)
<1>1. /\ m \in Seq(Names) /\ Len(m) = Len(new) + (Len(p) - Len(old)) /\ m # << >>
      /\ \A k \in 1 .. Len(new) : m[k] = new[k]
      /\ \A k \in 1 .. Len(p) - Len(old) : m[Len(new) + k] = p[Len(old) + k]
  <2>1. m \in Seq(Names) /\ m # << >>
    BY MovedBelow, Zenon
  <2>2. /\ Len(m) = Len(new) + (Len(p) - Len(old))
        /\ \A k \in 1 .. Len(new) : m[k] = new[k]
        /\ \A k \in 1 .. Len(p) - Len(old) : m[Len(new) + k] = p[Len(old) + k]
    BY MovedFact, Zenon
  <2>3. QED
    BY <2>1, <2>2, Zenon
<1> HIDE DEF m
<1>2. n \in Seq(Names) /\ Len(n) = Len(m) - 1 /\ \A k \in 1 .. Len(m) - 1 : n[k] = m[k]
  BY <1>1, ParentFact
<1>3. Len(p) \in Nat /\ Len(old) \in Nat /\ Len(p) > Len(old) /\ Len(new) \in Nat /\ p # << >>
  BY BelowFact
<1>4. r \in Seq(Names) /\ Len(r) = Len(p) - 1 /\ \A k \in 1 .. Len(p) - 1 : r[k] = p[k]
  BY <1>3, ParentFact
<1> HIDE DEF n
<1>5. CASE r = old
  <2>1. Len(n) = Len(new)
    <3>1. Len(old) = Len(p) - 1
      BY <1>4, <1>5
    <3>2. Len(m) = Len(new) + 1
      BY <1>1, <1>3, <3>1
    <3>3. QED
      BY <1>2, <1>3, <3>2
  <2>2. \A k \in 1 .. Len(n) : n[k] = new[k]
    BY <1>1, <1>2, <1>3, <2>1
  <2>3. n = new
    BY <1>2, <2>1, <2>2, SamePath
  <2>4. QED
    BY <1>5, <2>3 DEF n, m
<1>6. CASE r # old
  <2>1. Below(r, old)
    BY <1>3, <1>6, ParentBelow
  <2> HIDE DEF r
  <2>2. /\ x \in Seq(Names) /\ Len(x) = Len(new) + (Len(r) - Len(old))
        /\ \A k \in 1 .. Len(new) : x[k] = new[k]
        /\ \A k \in 1 .. Len(r) - Len(old) : x[Len(new) + k] = r[Len(old) + k]
    BY <1>4, <2>1, MovedFact
  <2> HIDE DEF x
  <2>3. Len(n) = Len(x)
    BY <1>1, <1>2, <1>3, <1>4, <2>2
  <2>4. ASSUME NEW k \in 1 .. Len(n) PROVE n[k] = x[k]
    <3>1. k \in 1 .. Len(m) - 1 /\ n[k] = m[k]
      BY <1>1, <1>2, <1>3
    <3>2. CASE k <= Len(new)
      BY <1>1, <1>3, <2>2, <3>1, <3>2
    <3>3. CASE ~(k <= Len(new))
      <4> DEFINE j == k - Len(new)
      <4>1. j \in 1 .. Len(r) - Len(old) /\ j \in 1 .. Len(p) - Len(old) /\ Len(new) + j = k
            /\ Len(old) + j \in 1 .. Len(p) - 1
        BY <1>1, <1>2, <1>3, <1>4, <3>1, <3>3
      <4> HIDE DEF j
      <4>2. m[Len(new) + j] = p[Len(old) + j] /\ x[Len(new) + j] = r[Len(old) + j] /\ r[Len(old) + j] = p[Len(old) + j]
        BY <1>1, <1>4, <2>2, <4>1
      <4>3. QED
        BY <3>1, <4>1, <4>2
    <3>4. QED
      BY <3>2, <3>3
  <2>5. n = x
    BY <1>2, <2>2, <2>3, <2>4, SamePath
  <2>6. QED
    BY <1>6, <2>5 DEF n, m, x, r
<1>7. QED
  BY <1>5, <1>6

---------------------------------------------------------------------------
(* The tree, said of a list of nodes *)

Listed(nd) == {i \in Ino : nd[i].mode # "NONE"}

\* A directory is there, whether the list finds it first or not.
DirAt(nd, q) == q = Root \/ \E d \in Listed(nd) : nd[d].path = q /\ nd[d].mode = DIR

Tree(nd) ==
  /\ \A i \in Listed(nd) : DirAt(nd, path_parent_dir(nd[i].path))
  /\ \A i, j \in Listed(nd) : nd[i].path = nd[j].path => i = j

TreeInv == tidy => Tree(node)

\* is_dir looks at one node of a path; in a tree there is no other.
LEMMA DirFact ==
  ASSUME NEW q
  PROVE  /\ is_dir(q) => DirAt(node, q)
         /\ DirAt(node, q) /\ (\A i, j \in Nodes : node[i].path = node[j].path => i = j) => is_dir(q)
<1>0. Listed(node) = Nodes
  BY DEF Listed, Nodes
<1>1. ASSUME is_dir(q) PROVE DirAt(node, q)
  <2>1. CASE q = Root
    BY <2>1 DEF DirAt
  <2>2. CASE q # Root
    <3>1. find_node(q) # NULL /\ node[find_node(q)].mode = DIR
      BY <1>1, <2>2 DEF is_dir
    <3>2. find_node(q) \in Nodes /\ node[find_node(q)].path = q
      BY <3>1, FindFact
    <3>3. QED
      BY <1>0, <3>1, <3>2 DEF DirAt
  <2>3. QED
    BY <2>1, <2>2
<1>2. ASSUME DirAt(node, q), \A i, j \in Nodes : node[i].path = node[j].path => i = j PROVE is_dir(q)
  <2>1. CASE q = Root
    BY <2>1 DEF is_dir
  <2>2. CASE q # Root
    <3>1. PICK d \in Nodes : node[d].path = q /\ node[d].mode = DIR
      BY <1>0, <1>2, <2>2 DEF DirAt
    <3>2. find_node(q) # NULL
      BY <3>1, FindFact
    <3>3. find_node(q) \in Nodes /\ node[find_node(q)].path = q
      BY <3>2, FindFact
    <3>4. find_node(q) = d
      BY <1>2, <3>1, <3>3
    <3>5. QED
      BY <3>1, <3>2, <3>4 DEF is_dir
  <2>3. QED
    BY <2>1, <2>2
<1>3. QED
  BY <1>1, <1>2

\* The nodes have paths, made of names.
LEMMA PathsFact ==
  ASSUME VfsInv
  PROVE  /\ Listed(node) = Nodes
         /\ \A i \in Nodes : node[i].path \in Seq(Names) /\ node[i].path # << >>
         /\ \A p \in Path : p \in Seq(Names) /\ p # << >>
<1>1. \A p \in Path : p \in Seq(Names) /\ p # << >>
  BY VfsAssumption
<1>2. Listed(node) = Nodes
  BY DEF Listed, Nodes
<1>3. QED
  BY <1>1, <1>2, NodesFact DEF Root

\* Nothing is below a path that has no node.
LEMMA NothingBelow ==
  ASSUME NEW nd, NEW q \in Seq(Names), q # << >>,
         \A i \in Listed(nd) : nd[i].path \in Seq(Names) /\ nd[i].path # << >>,
         Tree(nd), \A i \in Listed(nd) : nd[i].path # q
  PROVE  \A i \in Listed(nd) : ~Below(nd[i].path, q)
<1> DEFINE L == Listed(nd)
           S == {Len(nd[i].path) : i \in {j \in L : Below(nd[j].path, q)}}
<1> SUFFICES ASSUME NEW x \in L, Below(nd[x].path, q) PROVE FALSE
  OBVIOUS
<1>1. S \in SUBSET Nat /\ S # {}
  <2>1. \A i \in L : Len(nd[i].path) \in Nat
    OBVIOUS
  <2>2. QED
    BY <2>1
<1>2. PICK n \in S : \A k \in S : n <= k
  <2> HIDE DEF S
  <2>1. QED
    BY <1>1, LeastExists
<1>3. PICK i \in L : Below(nd[i].path, q) /\ Len(nd[i].path) = n
  BY <1>2
<1> DEFINE p == nd[i].path
           r == path_parent_dir(p)
<1>4. p \in Seq(Names) /\ p # << >>
  OBVIOUS
<1>5. r = q \/ Below(r, q)
  BY <1>3, <1>4, ParentBelow
<1>6. r \in Seq(Names) /\ Len(p) \in Nat /\ Len(r) = Len(p) - 1 /\ DirAt(nd, r)
  BY <1>4, ParentFact DEF Tree
<1>7. r # Root
  <2>1. CASE r = q
    BY <2>1 DEF Root
  <2>2. CASE Below(r, q)
    <3>1. Len(q) \in Nat /\ Len(r) > Len(q)
      BY <1>6, <2>2, BelowFact
    <3>2. QED
      BY <3>1 DEF Root
  <2>3. QED
    BY <1>5, <2>1, <2>2
<1>8. PICK d \in L : nd[d].path = r /\ nd[d].mode = DIR
  BY <1>6, <1>7 DEF DirAt
<1>9. Below(r, q)
  BY <1>5, <1>8
<1>10. Len(r) \in S
  BY <1>8, <1>9
<1>11. n <= Len(r)
  BY <1>2, <1>10
<1>12. QED
  BY <1>3, <1>6, <1>11

\* Paths and modes are what matters.
LEMMA SameTree ==
  ASSUME NEW nd, NEW nd2, Tree(nd),
         \A j \in Ino : nd2[j].path = nd[j].path /\ nd2[j].mode = nd[j].mode
  PROVE  Tree(nd2)
<1>1. Listed(nd2) = Listed(nd) /\ Listed(nd) \in SUBSET Ino
  BY DEF Listed
<1>2. \A q : DirAt(nd2, q) <=> DirAt(nd, q)
  BY <1>1 DEF DirAt
<1>3. \A i \in Listed(nd2) : DirAt(nd2, path_parent_dir(nd2[i].path))
  BY <1>1, <1>2 DEF Tree
<1>4. QED
  BY <1>1, <1>3 DEF Tree

\* A node more, in a directory that is there.
LEMMA InsertTree ==
  ASSUME NEW nd, NEW nd2, Tree(nd), NEW i \in Ino, i \notin Listed(nd), nd2[i].mode # "NONE",
         \A j \in Listed(nd) : nd[j].path # nd2[i].path,
         DirAt(nd, path_parent_dir(nd2[i].path)),
         \A j \in Ino \ {i} : nd2[j].path = nd[j].path /\ nd2[j].mode = nd[j].mode
  PROVE  Tree(nd2)
<1>1. Listed(nd2) = Listed(nd) \cup {i} /\ Listed(nd) \in SUBSET Ino
  BY DEF Listed
<1>2. \A d \in Listed(nd) : d \in Listed(nd2) /\ nd2[d].path = nd[d].path /\ nd2[d].mode = nd[d].mode
  BY <1>1
<1>3. \A q : DirAt(nd, q) => DirAt(nd2, q)
  BY <1>2 DEF DirAt
<1>4. ASSUME NEW j \in Listed(nd2) PROVE DirAt(nd2, path_parent_dir(nd2[j].path))
  <2>1. CASE j = i
    BY <1>3, <2>1
  <2>2. CASE j # i
    BY <1>1, <1>2, <1>3, <2>2 DEF Tree
  <2>3. QED
    BY <2>1, <2>2
<1>5. QED
  BY <1>1, <1>2, <1>4 DEF Tree

\* A node less, that no other node has for a parent.
LEMMA RemoveTree ==
  ASSUME NEW nd, NEW nd2, Tree(nd), NEW i \in Listed(nd), nd2[i].mode = "NONE",
         \A j \in Ino \ {i} : nd2[j].path = nd[j].path /\ nd2[j].mode = nd[j].mode,
         nd[i].mode = DIR => \A j \in Listed(nd) : path_parent_dir(nd[j].path) # nd[i].path
  PROVE  Tree(nd2)
<1>1. Listed(nd2) = Listed(nd) \ {i} /\ Listed(nd) \in SUBSET Ino
  BY DEF Listed
<1>2. \A d \in Listed(nd) \ {i} : d \in Listed(nd2) /\ nd2[d].path = nd[d].path /\ nd2[d].mode = nd[d].mode
  BY <1>1
<1>3. ASSUME NEW j \in Listed(nd2) PROVE DirAt(nd2, path_parent_dir(nd2[j].path))
  <2> DEFINE q == path_parent_dir(nd[j].path)
  <2>1. j \in Listed(nd) /\ nd2[j].path = nd[j].path /\ DirAt(nd, q)
    BY <1>1, <1>2 DEF Tree
  <2>2. nd[i].mode = DIR => q # nd[i].path
    BY <2>1
  <2> HIDE DEF q
  <2>3. DirAt(nd2, q)
    BY <1>2, <2>1, <2>2 DEF DirAt
  <2>4. QED
    BY <2>1, <2>3 DEF q
<1>4. QED
  BY <1>1, <1>2, <1>3 DEF Tree

\* A node elsewhere, with what is below it when it is a directory.
LEMMA RenameTree ==
  ASSUME NEW nd, NEW nd2, Tree(nd), NEW i \in Listed(nd), NEW new \in Seq(Names), new # << >>,
         \A j \in Listed(nd) : nd[j].path \in Seq(Names) /\ nd[j].path # << >>,
         \A j \in Listed(nd) : nd[j].path # new,
         DirAt(nd, path_parent_dir(new)), ~Below(new, nd[i].path),
         \A j \in Ino : nd2[j].mode = nd[j].mode,
         \A j \in Listed(nd) :
           nd2[j].path = IF j = i THEN new
                         ELSE IF nd[i].mode = DIR THEN moved(nd[j].path, nd[i].path, new)
                         ELSE nd[j].path
  PROVE  Tree(nd2)
<1> DEFINE L == Listed(nd)
           old == nd[i].path
<1>1. Listed(nd2) = L /\ L \in SUBSET Ino
  BY DEF Listed
<1>2. old \in Seq(Names) /\ old # << >> /\ nd2[i].path = new
  OBVIOUS
<1>3. /\ \A j \in L : DirAt(nd, path_parent_dir(nd[j].path))
      /\ \A j, k \in L : nd[j].path = nd[k].path => j = k
  BY DEF Tree
<1>4. CASE nd[i].mode # DIR
  <2>1. \A j \in L \ {i} : nd2[j].path = nd[j].path
    BY <1>4
  <2>2. \A q : DirAt(nd, q) => DirAt(nd2, q)
    <3>1. \A d \in L : nd[d].mode = DIR => nd2[d].mode = DIR /\ nd2[d].path = nd[d].path
      BY <1>1, <1>4, <2>1
    <3>2. QED
      BY <1>1, <3>1 DEF DirAt
  <2>3. ASSUME NEW j \in L PROVE DirAt(nd2, path_parent_dir(nd2[j].path))
    <3>1. CASE j = i
      BY <1>2, <2>2, <3>1
    <3>2. CASE j # i
      BY <1>3, <2>1, <2>2, <3>2
    <3>3. QED
      BY <3>1, <3>2
  <2>4. ASSUME NEW j \in L, NEW k \in L, nd2[j].path = nd2[k].path PROVE j = k
    BY <1>2, <1>3, <2>1, <2>4
  <2>5. QED
    BY <1>1, <2>3, <2>4 DEF Tree
<1>5. CASE nd[i].mode = DIR
  <2>1. \A j \in L : ~Below(nd[j].path, new)
    BY NothingBelow
  <2> DEFINE In(j) == Below(nd[j].path, old)
             mv(p) == moved(p, old, new)
  <2>2. ~In(i)
    BY <1>2, BelowFact
  <2>3. \A j \in L \ {i} : ~In(j) => nd2[j].path = nd[j].path
    BY <1>5 DEF moved
  <2>4. \A j \in L \ {i} : In(j) => nd2[j].path = mv(nd[j].path)
    BY <1>5
  <2>5. \A j \in L : In(j) => /\ mv(nd[j].path) \in Seq(Names) /\ Below(mv(nd[j].path), new)
                              /\ mv(nd[j].path) # new
    BY <1>2, MovedBelow
  <2> HIDE DEF mv, old
  <2>6. ASSUME NEW j \in L PROVE DirAt(nd2, path_parent_dir(nd2[j].path))
    <3>1. CASE j = i
      <4> DEFINE q == path_parent_dir(new)
      <4>1. nd2[j].path = new
        BY <1>2, <3>1
      <4>2. CASE q = Root
        BY <4>1, <4>2 DEF DirAt
      <4>3. CASE q # Root
        <5>1. PICK d \in L : nd[d].path = q /\ nd[d].mode = DIR
          BY <4>3 DEF DirAt
        <5>2. q # old /\ ~Below(q, old)
          BY <1>2, ParentBelow DEF old
        <5>3. d # i /\ ~In(d)
          BY <5>1, <5>2 DEF old
        <5>4. nd2[d].path = q /\ nd2[d].mode = DIR
          BY <1>1, <2>3, <5>1, <5>3
        <5>5. QED
          BY <1>1, <4>1, <5>4 DEF DirAt
      <4>4. QED
        BY <4>2, <4>3
    <3>2. CASE j # i /\ ~In(j)
      <4> DEFINE q == path_parent_dir(nd[j].path)
      <4>1. nd2[j].path = nd[j].path /\ DirAt(nd, q)
        BY <1>3, <2>3, <3>2
      <4>2. CASE q = Root
        BY <4>1, <4>2 DEF DirAt
      <4>3. CASE q # Root
        <5>1. PICK d \in L : nd[d].path = q /\ nd[d].mode = DIR
          BY <4>1, <4>3 DEF DirAt
        <5>2. q # old /\ ~Below(q, old)
          BY <1>2, <3>2, ParentBelow
        <5>3. d # i /\ ~In(d)
          BY <5>1, <5>2 DEF old
        <5>4. nd2[d].path = q /\ nd2[d].mode = DIR
          BY <1>1, <2>3, <5>1, <5>3
        <5>5. QED
          BY <1>1, <4>1, <5>4 DEF DirAt
      <4>4. QED
        BY <4>2, <4>3
    <3>3. CASE j # i /\ In(j)
      <4> DEFINE p == nd[j].path
                 q == path_parent_dir(p)
      <4>1. nd2[j].path = mv(p) /\ p \in Seq(Names) /\ p # << >> /\ Below(p, old) /\ DirAt(nd, q)
        BY <1>3, <2>4, <3>3
      <4>2. path_parent_dir(mv(p)) = IF q = old THEN new ELSE mv(q)
        BY <1>2, <4>1, MovedParent DEF mv
      <4>3. CASE q = old
        <5>1. nd2[i].path = new /\ nd2[i].mode = DIR
          BY <1>1, <1>2, <1>5
        <5>2. QED
          BY <1>1, <4>1, <4>2, <4>3, <5>1 DEF DirAt
      <4>4. CASE q # old
        <5>1. Below(q, old)
          BY <1>2, <4>1, <4>4, ParentBelow
        <5>2. q # Root
          <6>1. q \in Seq(Names)
            BY <4>1, ParentFact
          <6>2. Len(old) \in Nat /\ Len(q) > Len(old)
            BY <1>2, <5>1, <6>1, BelowFact
          <6>3. QED
            BY <6>2 DEF Root
        <5>3. PICK d \in L : nd[d].path = q /\ nd[d].mode = DIR
          BY <4>1, <5>2 DEF DirAt
        <5>4. d # i /\ In(d)
          BY <4>4, <5>1, <5>3 DEF old
        <5>5. nd2[d].path = mv(q) /\ nd2[d].mode = DIR
          BY <1>1, <2>4, <5>3, <5>4
        <5>6. QED
          BY <1>1, <4>1, <4>2, <4>4, <5>5 DEF DirAt
      <4>5. QED
        BY <4>3, <4>4
    <3>4. QED
      BY <3>1, <3>2, <3>3
  <2>7. ASSUME NEW j \in L, NEW k \in L, nd2[j].path = nd2[k].path, In(j), j # i, k # i PROVE j = k
    <3>1. CASE In(k)
      <4>1. mv(nd[j].path) = mv(nd[k].path)
        BY <2>4, <2>7, <3>1
      <4>2. nd[j].path = nd[k].path
        BY <1>2, <2>7, <3>1, <4>1, MovedInjective DEF mv
      <4>3. QED
        BY <1>3, <4>2
    <3>2. CASE ~In(k)
      <4>1. Below(nd[k].path, new)
        BY <2>3, <2>4, <2>5, <2>7, <3>2
      <4>2. QED
        BY <2>1, <4>1
    <3>3. QED
      BY <3>1, <3>2
  <2>8. ASSUME NEW k \in L, k # i, nd2[k].path = new PROVE FALSE
    BY <2>3, <2>4, <2>5, <2>8
  <2>9. ASSUME NEW j \in L, NEW k \in L, nd2[j].path = nd2[k].path PROVE j = k
    <3>1. CASE j = i \/ k = i
      BY <1>2, <2>8, <2>9, <3>1
    <3>2. CASE j # i /\ k # i /\ (In(j) \/ In(k))
      BY <2>7, <2>9, <3>2
    <3>3. CASE j # i /\ k # i /\ ~In(j) /\ ~In(k)
      BY <1>3, <2>3, <2>9, <3>3
    <3>4. QED
      BY <3>1, <3>2, <3>3
  <2>10. QED
    BY <1>1, <2>6, <2>9 DEF Tree
<1>6. QED
  BY <1>4, <1>5

\* A call that changes neither path nor mode keeps the tree.
LEMMA SameStep ==
  ASSUME TreeInv, tidy' = tidy, \A j \in Ino : node'[j].path = node[j].path /\ node'[j].mode = node[j].mode
  PROVE  TreeInv'
<1>1. ASSUME Tree(node) PROVE Tree(node')
  BY <1>1, SameTree
<1>2. QED
  BY <1>1 DEF TreeInv

\* A node inserted by a tidy program keeps the tree.
LEMMA InsertStep ==
  ASSUME VfsInv, TreeInv, NEW p \in Path, Insert(p), node'[next_ino].path = p,
         node'[next_ino].mode # "NONE",
         \A j \in Ino \ {next_ino} : node'[j].path = node[j].path /\ node'[j].mode = node[j].mode
  PROVE  TreeInv'
<1> SUFFICES ASSUME tidy' PROVE Tree(node')
  BY DEF TreeInv
<1>1. tidy /\ is_dir(path_parent_dir(p))
  BY DEF Insert
<1>2. Tree(node) /\ DirAt(node, path_parent_dir(p))
  BY <1>1, DirFact DEF TreeInv
<1>3. next_ino \in Ino /\ next_ino \notin Listed(node) /\ \A j \in Listed(node) : node[j].path # p
  BY InsertFact, PathsFact
<1>4. QED
  BY <1>2, <1>3, InsertTree

\* A node with nothing below it can be taken away.
LEMMA RemoveTreeStep ==
  ASSUME VfsInv, TreeInv, NEW p \in Path, vfs_unlink(p), tidy' = tidy,
         is_dir(p) => \A j \in Nodes : ~Below(node[j].path, p)
  PROVE  TreeInv'
<1> DEFINE i == find_node(p)
<1>1. i \in Nodes /\ node[i].path = p /\ Only(Data, Data', i) /\ node'[i] = NoNode
  BY RemoveFact
<1>2. \A j \in Ino \ {i} : node'[j] = node[j]
  BY <1>1, DataFields DEF Only
<1>3. i # NULL
  BY DEF vfs_unlink
<1>4. node[i].mode = DIR => is_dir(p)
  BY <1>3 DEF is_dir
<1> HIDE DEF i
<1> SUFFICES ASSUME tidy' PROVE Tree(node')
  BY DEF TreeInv
<1>5. Tree(node)
  BY DEF TreeInv
<1>6. ASSUME node[i].mode = DIR, NEW j \in Listed(node) PROVE path_parent_dir(node[j].path) # node[i].path
  <2>1. node[j].path \in Seq(Names) /\ node[j].path # << >> /\ ~Below(node[j].path, p)
    BY <1>4, <1>6, PathsFact
  <2>2. Below(node[j].path, path_parent_dir(node[j].path))
    BY <2>1, ParentBelow
  <2>3. QED
    BY <1>1, <2>1, <2>2
<1>7. i \in Listed(node) /\ node'[i].mode = "NONE"
  BY <1>1, PathsFact, NoNodeFact
<1>8. QED
  BY <1>2, <1>5, <1>6, <1>7, RemoveTree

\* Rename of a tidy program keeps the tree.
LEMMA RenameStep ==
  ASSUME VfsInv, TreeInv, NEW old \in Path, NEW new \in Path, Rename(old, new)
  PROVE  TreeInv'
<1> DEFINE i == find_node(old)
<1>1. /\ i \in Nodes /\ node[i].path = old
      /\ \A j \in Nodes : node[j].path # new
      /\ \A j \in Ino : node'[j].path = new_path(i, j, old, new) /\ node'[j].mode = node[j].mode
  BY MoveFact
<1> HIDE DEF i
<1> SUFFICES ASSUME tidy' PROVE Tree(node')
  BY DEF TreeInv
<1>2. tidy /\ is_dir(path_parent_dir(new)) /\ ~Below(new, old)
  BY DEF Rename
<1>3. Tree(node) /\ DirAt(node, path_parent_dir(new)) /\ ~Below(new, node[i].path)
  BY <1>1, <1>2, DirFact DEF TreeInv
<1>4. /\ i \in Listed(node) /\ new \in Seq(Names) /\ new # << >>
      /\ \A j \in Listed(node) : node[j].path \in Seq(Names) /\ node[j].path # << >>
      /\ \A j \in Listed(node) : node[j].path # new
  BY <1>1, PathsFact
<1>5. ASSUME NEW j \in Listed(node)
      PROVE  node'[j].path = IF j = i THEN new
                             ELSE IF node[i].mode = DIR THEN moved(node[j].path, node[i].path, new)
                             ELSE node[j].path
  <2>1. j \in Nodes /\ j \in Ino
    BY PathsFact, NodesFact
  <2>2. node'[j].path = new_path(i, j, old, new)
    BY <1>1, <2>1
  <2>3. QED
    BY <1>1, <2>1, <2>2, Zenon DEF new_path
<1>6. \A j \in Ino : node'[j].mode = node[j].mode
  BY <1>1
<1>7. QED
  <2> DEFINE nd2 == node'
  <2>1. /\ \A j \in Ino : nd2[j].mode = node[j].mode
        /\ \A j \in Listed(node) :
             nd2[j].path = IF j = i THEN new
                           ELSE IF node[i].mode = DIR THEN moved(node[j].path, node[i].path, new)
                           ELSE node[j].path
    BY <1>5, <1>6
  <2> HIDE DEF nd2
  <2>2. Tree(nd2)
    BY <1>3, <1>4, <2>1, RenameTree
  <2>3. QED
    BY <2>2 DEF nd2

\* Every call keeps the tree.
LEMMA TreeStep == ASSUME VfsInv, TreeInv, [Next]_vars PROVE TreeInv'
<1>1. CASE UNCHANGED vars
  BY <1>1, SameStep DEF vars
<1>2. ASSUME NEW p \in Path, NEW mode \in {REG, DIR}, Insert(p),
             node' = [node EXCEPT ![next_ino] = NewNode(p, mode)], UNCHANGED <<bytes, count>>
      PROVE  TreeInv'
  <2>1. next_ino \in Ino /\ Only(Data, Data', next_ino) /\ node'[next_ino] = NewNode(p, mode)
    BY <1>2, MakeFact
  <2>2. mode \in Modes /\ mode # "NONE"
    BY DEF Modes, REG, DIR
  <2>3. node'[next_ino].path = p /\ node'[next_ino].mode # "NONE"
    BY <2>1, <2>2, NewNodeFact
  <2>4. \A j \in Ino \ {next_ino} : node'[j] = node[j]
    BY <2>1, DataFields DEF Only
  <2>5. QED
    BY <1>2, <2>3, <2>4, InsertStep
<1>3. ASSUME NEW p \in Path, NEW t \in Targets, Symlink(t, p) PROVE TreeInv'
  <2>1. Insert(p)
    BY <1>3 DEF Symlink
  <2>2. Only(Data, Data', next_ino) /\ node'[next_ino].path = p /\ node'[next_ino].mode = LNK
    BY <1>3, SymlinkFact
  <2>3. \A j \in Ino \ {next_ino} : node'[j] = node[j]
    BY <2>2, DataFields DEF Only
  <2>4. node'[next_ino].mode # "NONE"
    BY <2>2 DEF LNK
  <2>5. QED
    BY <2>1, <2>2, <2>3, <2>4, InsertStep
<1>4. ASSUME NEW p \in Path, NEW q \in Path, Link(p, q) PROVE TreeInv'
  <2>1. Insert(p)
    BY <1>4 DEF Link
  <2>2. find_node(q) \in Nodes /\ LinkEffect(next_ino, p, find_node(q))
    BY <1>4, LinkFact
  <2>3. node'[next_ino].mode # "NONE"
    BY <2>2 DEF LinkEffect, Nodes
  <2>4. QED
    BY <2>1, <2>2, <2>3, InsertStep DEF LinkEffect
<1>5. ASSUME NEW i \in Nodes, NEW length \in Nat,
             SetData(vfs_truncate(Data, i, length)), UNCHANGED <<next_ino, tidy>>
      PROVE  TreeInv'
  <2>1. CASE node[i].mode = REG
    <3>1. Only(Data, Data', i) /\ CutTo(Data, Data', i, length)
      BY <1>5, <2>1, CutFact
    <3>2. \A j \in Ino \ {i} : node'[j] = node[j]
      BY <3>1, DataFields DEF Only
    <3>3. node'[i].path = node[i].path /\ node'[i].mode = node[i].mode
      BY <3>1, DataFields DEF CutTo
    <3>4. QED
      BY <1>5, <3>2, <3>3, SameStep
  <2>2. CASE node[i].mode # REG
    <3>1. node' = node
      BY <1>5, <2>2, CutFact
    <3>2. QED
      BY <1>5, <3>1, SameStep
  <2>3. QED
    BY <2>1, <2>2
<1>6. ASSUME NEW i \in Nodes, NEW offset \in Nat, NEW b \in Byte, Write(i, offset, b) PROVE TreeInv'
  <2>1. Only(Data, Data', i) /\ PutAt(Data, Data', i, offset, b) /\ tidy' = tidy
    BY <1>6, PutFact DEF Write
  <2>2. \A j \in Ino \ {i} : node'[j] = node[j]
    BY <2>1, DataFields DEF Only
  <2>3. node'[i].path = node[i].path /\ node'[i].mode = node[i].mode
    BY <2>1, DataFields DEF PutAt
  <2>4. QED
    BY <2>1, <2>2, <2>3, SameStep
<1>7. ASSUME NEW p \in Path, Unlink(p) \/ Rmdir(p) PROVE TreeInv'
  BY <1>7, RemoveTreeStep DEF Unlink, Rmdir
<1>8. ASSUME NEW p \in Path, NEW q \in Path, Rename(p, q) PROVE TreeInv'
  BY <1>8, RenameStep
<1>9. ASSUME NEW p \in Path, Create(p) \/ Mkdir(p) PROVE TreeInv'
  BY <1>2, <1>9 DEF Create, Mkdir
<1>10. ASSUME NEW p \in Path, NEW creat \in BOOLEAN, OpenTrunc(p, creat) PROVE TreeInv'
  BY <1>5, <1>10, OpenNodeFact DEF OpenTrunc
<1>11. ASSUME NEW p \in Path, NEW length \in Lengths, TruncatePath(p, length) PROVE TreeInv'
  <2>1. length \in Nat
    BY VfsAssumption
  <2>2. QED
    BY <1>5, <1>11, <2>1, FindFact DEF TruncatePath
<1>12. ASSUME NEW i \in Nodes, NEW length \in Lengths, Ftruncate(i, length) PROVE TreeInv'
  <2>1. length \in Nat
    BY VfsAssumption
  <2>2. QED
    BY <1>5, <1>12, <2>1 DEF Ftruncate
<1>13. ASSUME NEW i \in Nodes, NEW offset \in Offsets, NEW b \in Byte, Write(i, offset, b) PROVE TreeInv'
  <2>1. offset \in Nat
    BY VfsAssumption
  <2>2. QED
    BY <1>6, <1>13, <2>1
<1>14. QED
  BY <1>1, <1>3, <1>4, <1>7, <1>8, <1>9, <1>10, <1>11, <1>12, <1>13, Zenon DEF Next, ReadOnly

\* Programs that create only in directories that exist and move none below
\* itself keep a tree: through vfs_rename, which rewrites the paths below a
\* directory one by one, vfs_unlink and vfs_rmdir, no path occurs twice and
\* every parent is a directory.
THEOREM VfsTreeOK == Spec => []TreeOK
<1>1. Init => TreeInv
  BY NoNodeFact DEF Init, TreeInv, Tree, Listed
<1>2. VfsInv /\ TreeInv /\ [Next]_vars => TreeInv'
  BY TreeStep
<1>3. VfsInv /\ TreeInv => TreeOK
  <2> SUFFICES ASSUME VfsInv, TreeInv, tidy
               PROVE  \A i \in Nodes : /\ is_dir(path_parent_dir(node[i].path))
                                       /\ \A j \in Nodes : node[i].path = node[j].path => i = j
    BY DEF TreeOK
  <2>1. Tree(node) /\ Listed(node) = Nodes
    BY PathsFact DEF TreeInv
  <2>2. QED
    BY <2>1, DirFact DEF Tree
<1>4. QED
  BY VfsInvariant, <1>1, <1>2, <1>3, PTL DEF Spec

=============================================================================
