-------------------------------- MODULE Vfs --------------------------------
(***************************************************************************)
(* The file system of vfs.c: a list of nodes that hold full paths, each    *)
(* with a data blob that hard links share until one of them is written.    *)
(* A node is identified by its inode number; new nodes go to the head of   *)
(* the list, so the list is in descending order of inode numbers.          *)
(*                                                                         *)
(* Every call runs with interrupts off and is one step.  Calls are given   *)
(* paths that vfs_resolve_path has resolved already.  Time stamps, the     *)
(* device files and the read-only generated trees /proc and /sys are left  *)
(* out.  Sizes are in units of which MIN_CAPACITY are the 256 bytes a blob *)
(* starts with; a write is one unit long.                                  *)
(***************************************************************************)
EXTENDS Integers, SequencesExt

CONSTANTS
  Names,         \* components of a path
  Path,          \* paths programs use, and no rename leads out of
  MaxIno,        \* bound on next_ino: no node is created beyond it
  Byte,          \* what a program writes
  Offsets,       \* where it writes
  Lengths,       \* what it truncates to
  MIN_CAPACITY,
  LINK_DEPTH,    \* 8 in the code
  SLASH, UP,     \* the / that starts an absolute link, and ..
  Targets,       \* texts of symbolic links: sequences of these and of names
  NoTarget       \* follow_symlinks failed

ASSUME VfsAssumption ==
  /\ Path \subseteq Seq(Names) /\ << >> \notin Path
  /\ MaxIno \in Nat \ {0} /\ Offsets \subseteq Nat /\ Lengths \subseteq Nat
  /\ MIN_CAPACITY \in Nat \ {0} /\ LINK_DEPTH \in Nat \ {0}
  /\ Byte \subseteq Nat
  /\ SLASH \notin Names /\ UP \notin Names
  /\ \A t \in Targets : t \in Seq(Names \cup {SLASH, UP}) /\ t # << >>

VARIABLES
  node,      \* inode number -> node; NoNode where there is none
  bytes,     \* blob -> its bytes; << >> where the heap has it
  count,     \* shared reference count -> value; 0 where the heap has it
  next_ino,
  tidy       \* history: programs have kept to directories that exist

vars == <<node, bytes, count, next_ino, tidy>>

NULL == 0
REG == "REG"
DIR == "DIR"
LNK == "LNK"
Junk == 255    \* a byte past the end of a file, whatever the blob holds there

Ino == 2 .. MaxIno          \* the root directory is inode 1 and not in the list
Blob == 1 .. MaxIno         \* one more than the list can need
Root == << >>

NoNode == [path |-> Root, mode |-> "NONE", data |-> NULL, size |-> 0,
           capacity |-> 0, data_refs |-> NULL]
Nodes == {i \in Ino : node[i].mode # "NONE"}

---------------------------------------------------------------------------
(* Paths *)

\* The first node of the list that has the path.  The root is not in the list;
\* the calls here find it only to refuse it, or as a directory (is_dir).
find_node(p) ==
  LET found == {i \in Nodes : node[i].path = p}
  IN  IF found = {} THEN NULL ELSE CHOOSE i \in found : \A j \in found : j <= i

is_symlink(p) == find_node(p) # NULL /\ node[find_node(p)].mode = LNK
is_dir(p) == p = Root \/ (find_node(p) # NULL /\ node[find_node(p)].mode = DIR)

path_parent_dir(p) == SubSeq(p, 1, Len(p) - 1)

\* Whether p is in the tree under dir.
Below(p, dir) == Len(p) > Len(dir) /\ SubSeq(p, 1, Len(dir)) = dir

\* The path a text stands for in directory cwd: .. takes a component away,
\* and the root has none to take.
vfs_resolve_path(cwd, text) ==
  FoldLeft(LAMBDA p, c : CASE c = UP    -> IF p = Root THEN Root ELSE path_parent_dir(p)
                           [] c = SLASH -> p
                           [] OTHER     -> Append(p, c),
           IF text[1] = SLASH THEN Root ELSE cwd, text)

\* What a link says, read from where the link is.
target_of(p) ==
  vfs_resolve_path(path_parent_dir(p), bytes[node[find_node(p)].data])

\* The end of a chain of links, if it is fewer than LINK_DEPTH links long.
follow_symlinks(p) ==
  LET hop[d \in 0 .. LINK_DEPTH - 1] ==
        IF d = 0 THEN p
        ELSE IF is_symlink(hop[d - 1]) THEN target_of(hop[d - 1]) ELSE hop[d - 1]
      end == hop[LINK_DEPTH - 1]
  IN  IF is_symlink(end) THEN NoTarget ELSE end

---------------------------------------------------------------------------
(* Data blobs.  The helpers take and return the part of the state they     *)
(* work on.                                                                *)

Data == [node |-> node, bytes |-> bytes, count |-> count]

\* Which free block the heap hands out does not matter: node i gets the one
\* that has its number, if that is free.
Prefer(i, S) == IF i \in S THEN i ELSE CHOOSE x \in S : TRUE
free_blob(s, i) == Prefer(i, {b \in Blob : s.bytes[b] = << >>})
free_cell(s, i) == Prefer(i, {c \in Blob : s.count[c] = 0})

\* A new blob with the first size bytes of an old one.
Copied(old, size, capacity) ==
  [k \in 1 .. capacity |-> IF k <= size THEN old[k] ELSE Junk]

\* Mutant: the count is dropped twice.
data_release_twice(s, i) ==
  IF s.node[i].data_refs = NULL THEN s
  ELSE [s EXCEPT !.count[s.node[i].data_refs] = @ - 2]

\* The node lets go of a shared blob; the last one frees it.
data_release(s, i) ==
  LET n    == s.node[i]
      last == n.data_refs # NULL /\ s.count[n.data_refs] = 1
  IN  IF n.data_refs = NULL THEN s
      ELSE [node  |-> [s.node EXCEPT ![i].data = NULL, ![i].data_refs = NULL],
            bytes |-> IF last /\ n.data # NULL
                      THEN [s.bytes EXCEPT ![n.data] = << >>] ELSE s.bytes,
            count |-> [s.count EXCEPT ![n.data_refs] = @ - 1]]

\* Mutant: links are written in place.
data_cow_never(s, i) == s

\* A node that shares its blob gets one of its own.
data_cow(s, i) ==
  LET n == s.node[i]
      b == IF n.capacity > 0 THEN free_blob(s, i) ELSE NULL
      c == free_cell(s, i)
  IN  IF n.data_refs = NULL \/ s.count[n.data_refs] <= 1 THEN s
      ELSE [node  |-> [s.node EXCEPT ![i].data = b, ![i].data_refs = c],
            bytes |-> IF b = NULL THEN s.bytes
                      ELSE [s.bytes EXCEPT ![b] =
                              Copied(s.bytes[n.data], n.size, n.capacity)],
            count |-> [s.count EXCEPT ![n.data_refs] = @ - 1, ![c] = 1]]

\* Node i becomes one more owner of the blob of its target.
data_share(s, i, target) ==
  LET t == s.node[target]
      c == IF t.data_refs = NULL THEN free_cell(s, target) ELSE t.data_refs
      n == IF t.data_refs = NULL THEN 1 ELSE s.count[c]
  IN  [node  |-> [s.node EXCEPT ![target].data_refs = c,
                                ![i] = [t EXCEPT !.path = s.node[i].path,
                                                 !.data_refs = c]],
       bytes |-> s.bytes,
       count |-> [s.count EXCEPT ![c] = n + 1]]

\* Doubled until it is large enough, which takes fewer than length turns.
grown(capacity, length) ==
  LET base == IF capacity = 0 THEN MIN_CAPACITY ELSE capacity
      cap[k \in 0 .. length] ==
        IF k = 0 THEN base
        ELSE IF cap[k - 1] < length THEN 2 * cap[k - 1] ELSE cap[k - 1]
  IN  cap[length]

\* Mutant: the old blob is not freed.
frees_old_never(n) == FALSE

\* Whether the blob a node had is freed when it moves to a larger one.
frees_old(n) == n.data # NULL

\* Room for length bytes; the node has its blob for itself.
reserve(s, i, length) ==
  LET n   == s.node[i]
      cap == grown(n.capacity, length)
      b   == free_blob(s, i)
  IN  IF length <= n.capacity THEN s
      ELSE [node  |-> [s.node EXCEPT ![i].data = b, ![i].capacity = cap],
            bytes |-> [x \in Blob |->
                         IF x = b THEN Copied(s.bytes[n.data], n.size, cap)
                         ELSE IF x = n.data /\ frees_old(n) THEN << >>
                         ELSE s.bytes[x]],
            count |-> s.count]

\* The file is cut, or lengthened with zeros.
vfs_truncate(s, i, length) ==
  LET s1 == data_cow(s, i)
      s2 == reserve(s1, i, length)
      n  == s2.node[i]
  IN  IF s.node[i].mode # REG THEN s
      ELSE IF length <= s1.node[i].size
      THEN [s1 EXCEPT !.node[i].size = length,
                      !.bytes = [b \in Blob |->
                                   IF b = s1.node[i].data
                                   THEN Copied(@[b], length, Len(@[b])) ELSE @[b]]]
      ELSE [s2 EXCEPT !.node[i].size = length,
                      !.bytes[n.data] =
                         [k \in 1 .. n.capacity |->
                            IF n.size < k /\ k <= length THEN 0 ELSE @[k]]]

SetData(s) == node' = s.node /\ bytes' = s.bytes /\ count' = s.count

---------------------------------------------------------------------------
(* Calls that make a node.  Nobody looks whether the parent directory      *)
(* exists: a tidy program does.                                            *)

NewNode(p, mode) == [NoNode EXCEPT !.path = p, !.mode = mode]

\* A new node at the head of the list.
Insert(p) ==
  /\ next_ino <= MaxIno
  /\ find_node(p) = NULL
  /\ next_ino' = next_ino + 1
  /\ tidy' = (tidy /\ is_dir(path_parent_dir(p)))

\* open with O_CREAT of a path that has no node.
Create(p) ==
  /\ Insert(p)
  /\ node' = [node EXCEPT ![next_ino] = NewNode(p, REG)]
  /\ UNCHANGED <<bytes, count>>

Mkdir(p) ==
  /\ Insert(p)
  /\ node' = [node EXCEPT ![next_ino] = NewNode(p, DIR)]
  /\ UNCHANGED <<bytes, count>>

Symlink(target, p) ==
  LET b == free_blob(Data, next_ino)
  IN  /\ Insert(p)
      /\ node' = [node EXCEPT ![next_ino] =
                    [NewNode(p, LNK) EXCEPT !.data = b, !.size = Len(target),
                                            !.capacity = Len(target) + 1]]
      /\ bytes' = [bytes EXCEPT ![b] = target]
      /\ UNCHANGED count

Link(p, target) ==
  LET t == find_node(target)
  IN  /\ Insert(p)
      /\ t # NULL /\ node[t].mode # DIR
      /\ SetData(data_share([Data EXCEPT !.node[next_ino] = NewNode(p, REG)],
                            next_ino, t))

---------------------------------------------------------------------------
(* Calls on nodes that are there *)

\* The node an open of p gets: the end of the chain of links, or the link
\* itself when the chain dangles and O_CREAT was given.
open_node(p, creat) ==
  LET q == follow_symlinks(p)
  IN  IF ~is_symlink(p) THEN find_node(p)
      ELSE IF q = NoTarget THEN NULL
      ELSE IF find_node(q) # NULL THEN find_node(q)
      ELSE IF creat THEN find_node(p) ELSE NULL

\* With O_TRUNC the file is emptied; without it nothing changes.
OpenTrunc(p, creat) ==
  LET i == open_node(p, creat)
  IN  /\ i # NULL
      /\ SetData(vfs_truncate(Data, i, 0))
      /\ UNCHANGED <<next_ino, tidy>>

\* Beyond the end the bytes in between stay as the blob has them.
Write(i, offset, b) ==
  LET s == reserve(data_cow(Data, i), i, offset + 1)
      n == s.node[i]
  IN  /\ node[i].mode = REG
      /\ SetData([s EXCEPT
           !.bytes[n.data] = [k \in 1 .. n.capacity |->
                                IF k = offset + 1 THEN b ELSE @[k]],
           !.node[i].size = Max({n.size, offset + 1})])
      /\ UNCHANGED <<next_ino, tidy>>

Ftruncate(i, length) ==
  /\ SetData(vfs_truncate(Data, i, length))
  /\ UNCHANGED <<next_ino, tidy>>

TruncatePath(p, length) ==
  LET q == follow_symlinks(p)
  IN  /\ q # NoTarget /\ find_node(q) # NULL
      /\ SetData(vfs_truncate(Data, find_node(q), length))
      /\ UNCHANGED <<next_ino, tidy>>

\* The node is freed, with a blob that is not shared.
vfs_unlink(p) ==
  LET i == find_node(p)
      n == node[i]
      s == data_release(Data, i)
  IN  /\ i # NULL
      /\ SetData([s EXCEPT
           !.node[i] = NoNode,
           !.bytes = IF n.data_refs = NULL /\ n.data # NULL
                     THEN [@ EXCEPT ![n.data] = << >>] ELSE @])
      /\ UNCHANGED next_ino

\* unlink refuses directories.
Unlink(p) ==
  /\ ~is_dir(p)
  /\ vfs_unlink(p)
  /\ UNCHANGED tidy

Rmdir(p) ==
  /\ is_dir(p)
  /\ \A j \in Nodes : ~Below(node[j].path, p)
  /\ vfs_unlink(p)
  /\ UNCHANGED tidy

\* Mutant: what is in a directory stays behind.
moved_alone(p, old, new) == p

\* The path of another node once a directory has been renamed.
moved(p, old, new) ==
  IF Below(p, old) THEN new \o SubSeq(p, Len(old) + 1, Len(p)) ELSE p

Rename(old, new) ==
  LET i == find_node(old)
  IN  /\ old # new
      /\ i # NULL /\ find_node(new) = NULL
      /\ node' = [j \in Ino |->
                    [node[j] EXCEPT !.path =
                       IF j = i THEN new
                       ELSE IF j \in Nodes /\ node[i].mode = DIR
                       THEN moved(@, old, new) ELSE @]]
      /\ \A j \in Nodes : node'[j].path \in Path
      /\ tidy' = (tidy /\ is_dir(path_parent_dir(new)) /\ ~Below(new, old))
      /\ UNCHANGED <<bytes, count, next_ino>>

\* read, stat, readlink, access, getdents, chdir, and every call that fails.
ReadOnly == UNCHANGED vars

---------------------------------------------------------------------------

Init ==
  /\ node = [i \in Ino |-> NoNode]
  /\ bytes = [b \in Blob |-> << >>]
  /\ count = [c \in Blob |-> 0]
  /\ next_ino = 2
  /\ tidy = TRUE

\* A program may have any node open, and write to it whatever its path has
\* become, but does not unlink what is open: the node would be freed.
Next ==
  \/ \E p \in Path :
       \/ Create(p) \/ Mkdir(p)
       \/ \E t \in Targets : Symlink(t, p)
       \/ \E q \in Path : Link(p, q) \/ Rename(p, q)
       \/ \E creat \in BOOLEAN : OpenTrunc(p, creat)
       \/ \E length \in Lengths : TruncatePath(p, length)
       \/ Unlink(p) \/ Rmdir(p)
  \/ ReadOnly
  \/ \E i \in Nodes :
       \/ \E offset \in Offsets, b \in Byte : Write(i, offset, b)
       \/ \E length \in Lengths : Ftruncate(i, length)

Spec == Init /\ [][Next]_vars

---------------------------------------------------------------------------
(* Properties *)

TypeOK ==
  /\ \A i \in Nodes :
       /\ node[i].path \in Path
       /\ node[i].mode \in {REG, DIR, LNK}
       /\ node[i].data \in Blob \cup {NULL}
       /\ node[i].data_refs \in Blob \cup {NULL}
       /\ node[i].size \in Nat /\ node[i].capacity \in Nat
  /\ \A i \in Ino \ Nodes : node[i] = NoNode
  /\ \A b \in Blob : count[b] \in Nat
  /\ next_ino \in 2 .. MaxIno + 1
  /\ tidy \in BOOLEAN

Owners(b) == {i \in Nodes : node[i].data = b}
Sharers(c) == {i \in Nodes : node[i].data_refs = c}

\* Blobs and their counts through link, write, truncate and unlink in any
\* order: a count is the number of nodes that hold it, and they hold the same
\* blob; a blob without a count has one owner; none is freed while somebody
\* owns it, none is kept that nobody owns, and each is as large as its owners
\* believe.
BlobsOwned ==
  /\ \A c \in Blob :
       /\ count[c] = Cardinality(Sharers(c))
       /\ \A i, j \in Sharers(c) : node[i].data = node[j].data
  /\ \A b \in Blob :
       /\ bytes[b] # << >> <=> Owners(b) # {}
       /\ \A i, j \in Owners(b) :
            i # j => node[i].data_refs # NULL /\ node[i].data_refs = node[j].data_refs
  /\ \A i \in Nodes :
       /\ node[i].size <= node[i].capacity
       /\ node[i].mode = REG /\ node[i].data # NULL =>
            Len(bytes[node[i].data]) = node[i].capacity
       /\ node[i].data = NULL => node[i].capacity = 0

\* As long as programs create in directories that exist and move none below
\* itself, the paths the nodes hold are a tree: no path occurs twice, and every
\* parent is a directory, whatever was renamed, unlinked and removed.
TreeOK ==
  tidy => \A i \in Nodes :
            /\ is_dir(path_parent_dir(node[i].path))
            /\ \A j \in Nodes : node[i].path = node[j].path => i = j

Content(i) ==
  IF node[i].data = NULL THEN << >>
  ELSE IF node[i].mode = LNK THEN bytes[node[i].data]
  ELSE SubSeq(bytes[node[i].data], 1, node[i].size)

Objects == INSTANCE Volume WITH
  obj <- [i \in Nodes |-> [path    |-> node[i].path,
                           mode    |-> node[i].mode,
                           content |-> Content(i)]]

\* Sharing is not observable: every node behaves as if its bytes were its own,
\* and a write, a truncation or an unlink through one hard link changes
\* nothing that any other node holds.
ImplementsVolume == Objects!Spec

=============================================================================
