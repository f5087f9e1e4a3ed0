------------------------------- MODULE MCVfs -------------------------------
(* Vfs on small trees. *)
EXTENDS Vfs, TLC

\* Files side by side in the root directory; their names are alike.
Flat == {<<x>> : x \in Names}
NameSymmetry == Permutations(Names)

\* Two levels of directories.
Deep == Flat \cup {<<x, y>> : x, y \in Names}

\* Absolute links, and links that leave their directory.
DeepTargets == {<<SLASH, x>> : x \in Names} \cup {<<UP, x>> : x \in Names}
============================================================================
