------------------------------- MODULE MCVfs -------------------------------
(* Instances of Vfs for TLC: up to three names, paths of up to three of  *)
(* them, and the disciplines of callers that the runs compare.              *)
EXTENDS VfsStore, TLC

CONSTANTS a, b, c, x, y

MCNames == {a, b, c}
MCBytes == {x, y}
MCNameLen == (a :> 1) @@ (b :> 9) @@ (c :> 2)

FlatPaths == {<<>>, <<a>>, <<b>>}
DeepPaths == FlatPaths \cup {<<c>>, <<a, b>>, <<b, a>>, <<a, a>>, <<a, b, a>>}
OneNestedPath == FlatPaths \cup {<<a, b>>}

\* Creators that insist on a new file, and every combination of the flags.
ExclusiveCreation == {{}, {"TRUNC"}, {"CREAT", "EXCL"}, {"CREAT", "EXCL", "TRUNC"}}
AnyFlags == SUBSET {"CREAT", "EXCL", "TRUNC"}

Inos3 == 1..3
Inos4 == 1..4
Files3 == 0..2
Files4 == 0..3

NoOffsets == {}
SmallOffsets == {0, 1, 7}
SmallLimits == {1, 3}
SmallPayloads == {<<x>>, <<x, y>>}
Chunks == {32, 56}
=============================================================================
