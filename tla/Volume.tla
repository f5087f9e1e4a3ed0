------------------------------- MODULE Volume -------------------------------
(***************************************************************************)
(* What the file system promises of its objects: each has a name and a     *)
(* content of its own.  A hard link is a copy ("shared COW blobs"): after  *)
(* it is made, nothing done to one name is seen through the other.         *)
(***************************************************************************)
EXTENDS Integers, Sequences

CONSTANTS
  Ino, Path, Byte,
  Targets,   \* what a symbolic link can say
  Offsets,   \* where a file is written
  Lengths,   \* what it is cut to
  Junk       \* a byte nobody has written

VARIABLE obj   \* object -> its path, mode and content

FreshObjects == Ino \ DOMAIN obj

Make(p, mode, content) ==
  \E i \in FreshObjects :
    obj' = [j \in DOMAIN obj \cup {i} |->
              IF j = i THEN [path |-> p, mode |-> mode, content |-> content]
                       ELSE obj[j]]

Link(p, i) == obj[i].mode # "DIR" /\ Make(p, obj[i].mode, obj[i].content)

Remove(i) == obj' = [j \in DOMAIN obj \ {i} |-> obj[j]]

\* One byte is written; a hole before it can hold anything.
Put(i, offset, b) ==
  LET old == obj[i].content
      n   == IF offset + 1 > Len(old) THEN offset + 1 ELSE Len(old)
  IN  /\ obj[i].mode = "REG"
      /\ \E hole \in [Len(old) + 1 .. offset -> Byte \cup {0, Junk}] :
           obj' = [obj EXCEPT ![i].content =
                     [k \in 1 .. n |-> IF k = offset + 1 THEN b
                                       ELSE IF k <= Len(old) THEN old[k]
                                       ELSE hole[k]]]

\* The file is cut, or lengthened with zeros.
Cut(i, length) ==
  /\ obj[i].mode = "REG"
  /\ obj' = [obj EXCEPT ![i].content =
               [k \in 1 .. length |-> IF k <= Len(obj[i].content)
                                      THEN obj[i].content[k] ELSE 0]]

Below(p, dir) == Len(p) > Len(dir) /\ SubSeq(p, 1, Len(dir)) = dir

\* An object is renamed, and with a directory everything below it.
Move(i, q) ==
  LET old == obj[i].path
  IN  obj' = [j \in DOMAIN obj |->
                [obj[j] EXCEPT !.path =
                   IF j = i THEN q
                   ELSE IF obj[i].mode = "DIR" /\ Below(obj[j].path, old)
                   THEN q \o SubSeq(obj[j].path, Len(old) + 1, Len(obj[j].path))
                   ELSE obj[j].path]]

Init == obj = << >>

Next ==
  \/ \E i \in DOMAIN obj :
       \/ \E offset \in Offsets, b \in Byte : Put(i, offset, b)
       \/ \E length \in Lengths \cup {0} : Cut(i, length)
       \/ Remove(i)
       \/ \E p \in Path : Link(p, i) \/ Move(i, p)
  \/ \E p \in Path :
       \/ Make(p, "REG", << >>)
       \/ Make(p, "DIR", << >>)
       \/ \E t \in Targets : Make(p, "LNK", t)

Spec == Init /\ [][Next]_obj

=============================================================================
